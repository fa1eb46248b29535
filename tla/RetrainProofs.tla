----------------------------- MODULE RetrainProofs -----------------------------
(***************************************************************************)
(* Proofs about Retrain for any number of hours, jobs and failures: the    *)
(* inductive invariant IInv, and from it that a used-up note was learned,  *)
(* that a model keeps what its label promises, and that the published      *)
(* model forgets nothing; with ReuseInv, that notes are learned again only *)
(* after mishaps or by jobs that overlap.                                  *)
(***************************************************************************)
EXTENDS Retrain, FiniteSetTheorems, TLAPS

USE RetrainAssumption

-----------------------------------------------------------------------------
(* Helpers the actions share.                                              *)

\* A model that has learned more often knows more.
LEMMA KnownGrows ==
  ASSUME NEW m \in Models, NEW n \in Models, \A h \in Hours : n[h] >= m[h]
  PROVE  Known(m) \subseteq Known(n)
<1>1. SUFFICES ASSUME NEW h \in Hours, m[h] > 0 PROVE n[h] > 0
  BY DEF Known
<1>2. m[h] \in Nat /\ n[h] \in Nat /\ n[h] >= m[h]
  BY DEF Models
<1> QED  BY <1>1, <1>2

\* What an upload does while no job has been in the way of another.
LEMMA StoreModelEffect ==
  ASSUME IInv, NEW j \in Jobs, pc[j] = "upload", StoreModel(j), ~clash'
  PROVE  /\ ~clash
         /\ \A h \in Hours : model'[h] >= model[h]
         /\ batch[j] \subseteq Known(model')
         /\ Known(base[j]) \subseteq Known(model')
         /\ Known(model) \subseteq Known(model')
<1>1. ~clash /\ model = seen[j] /\ model' = base[j]
  BY DEF StoreModel, IInv, TypeOK
<1>2. model \in Models /\ model' \in Models /\ batch[j] \subseteq Hours
  BY <1>1 DEF IInv, TypeOK
<1>3. \A h \in Hours : model'[h] >= model[h]
  BY <1>1 DEF IInv, BaseInv
<1>4. batch[j] \subseteq Known(model')
  BY <1>1, <1>2 DEF IInv, BaseInv, Known
<1> QED  BY <1>1, <1>2, <1>3, <1>4, KnownGrows

\* A job that ends leaves nothing behind.
LEMMA FinishType ==
  ASSUME TypeOK, NEW j \in Jobs, Finish(j)
  PROVE  /\ pc' \in [Jobs -> {"idle", "train", "upload", "metadata", "mark"}]
         /\ batch' \in [Jobs -> SUBSET Hours]
         /\ base' \in [Jobs -> Models] /\ seen' \in [Jobs -> Models]
         /\ \A i \in Jobs : i # j => pc'[i] = pc[i] /\ batch'[i] = batch[i]
                                     /\ base'[i] = base[i] /\ seen'[i] = seen[i]
         /\ pc'[j] = "idle" /\ batch'[j] = {}
         /\ overlap' \in BOOLEAN
  BY DEF TypeOK, Finish, Goto, Untaught, Models

-----------------------------------------------------------------------------
(* Type correctness, action by action.                                     *)

\* The start is a typed state.
LEMMA TypeInit == Init => TypeOK
<1>1. Untaught \in Models
  BY DEF Untaught, Models
<1>2. [version |-> 0, promised |-> {}] \in Metadata
  BY DEF Metadata
<1>3. 0 \in 0..MaxFaults
  OBVIOUS
<1> QED  BY <1>1, <1>2, <1>3 DEF Init, TypeOK

\* The check of an hour.
LEMMA TypeCheck == ASSUME TypeOK, CheckHour \/ CheckAgain PROVE TypeOK'
<1>1. ASSUME NEW h \in Hours, Put(h) PROVE notes' \in [Hours -> Note \union {None}]
  BY <1>1 DEF Put, TypeOK, Note
<1>2. CASE CheckHour
  BY <1>1, <1>2 DEF CheckHour, TypeOK, published, jobs, predict
<1>3. CASE CheckAgain
  <2>1. faults' \in 0..MaxFaults
    BY <1>3 DEF CheckAgain, Fault, TypeOK
  <2> QED  BY <1>1, <1>3, <2>1 DEF CheckAgain, TypeOK, published, jobs, predict
<1> QED  BY <1>2, <1>3

\* A fault is counted up to its bound.
LEMMA FaultType == ASSUME TypeOK, Fault PROVE faults' \in 0..MaxFaults
  BY DEF TypeOK, Fault

\* The steps of a job that change what is published.
LEMMA TypeStore ==
  ASSUME TypeOK, NEW j \in Jobs
  PROVE  /\ StoreModel(j) => model' \in Models /\ clash' \in BOOLEAN
         /\ StoreMetadata(j) => metadata' \in Metadata
<1>1. StoreModel(j) => model' \in Models /\ clash' \in BOOLEAN
  BY DEF TypeOK, StoreModel
<1>2. StoreMetadata(j) => metadata' \in Metadata
  BY DEF TypeOK, StoreMetadata, Metadata, Known
<1> QED  BY <1>1, <1>2

\* Every step of a job.
LEMMA TypeWork == ASSUME TypeOK, IInv, NEW j \in Jobs, Work(j) PROVE TypeOK'
<1>1. ASSUME Train(j) PROVE TypeOK'
  <2>1. [h \in Hours |-> model[h] + (IF h \in batch[j] THEN 1 ELSE 0)] \in Models
    BY <1>1 DEF Train, TypeOK, Models
  <2> QED  BY <1>1, <2>1 DEF Train, Goto, TypeOK, published, predict
<1>2. ASSUME UploadModel(j) PROVE TypeOK'
  BY <1>2, TypeStore DEF UploadModel, Goto, TypeOK, predict
<1>3. ASSUME UploadMetadata(j) PROVE TypeOK'
  BY <1>3, TypeStore DEF UploadMetadata, Goto, TypeOK, predict
<1>4. ASSUME UploadError(j) PROVE TypeOK'
  <2>1. model' \in Models /\ metadata' \in Metadata /\ clash' \in BOOLEAN
    BY <1>4, TypeStore DEF UploadError, TypeOK, published
  <2> QED  BY <1>4, <2>1, FinishType, FaultType DEF UploadError, TypeOK, predict
<1>5. ASSUME Exit(j) \/ JobFails(j) PROVE TypeOK'
  BY <1>5, FinishType, FaultType DEF Exit, JobFails, TypeOK, published, predict
<1>6. ASSUME NEW f \in BOOLEAN, Scan(j, f) PROVE TypeOK'
  <2>1. Usable(Untrained) \subseteq Hours
    BY DEF Usable, Untrained
  <2> QED  BY <1>6, <2>1 DEF Scan, Goto, TypeOK, published, predict
<1>7. ASSUME NEW h \in Hours, pc[j] = "mark", h \in batch[j]
      PROVE  [notes EXCEPT ![h].trained = TRUE] \in [Hours -> Note \union {None}]
  <2>1. notes[h] \in Note
    BY <1>7 DEF IInv, BatchInv, TypeOK
  <2> QED  BY <1>7, <2>1 DEF TypeOK, Note
<1>8. ASSUME NEW h \in Hours, Mark(j, h) PROVE TypeOK'
  BY <1>7, <1>8 DEF Mark, TypeOK, published, predict
<1>9. ASSUME NEW h \in Hours, MarkError(j, h) PROVE TypeOK'
  <2>1. notes' \in [Hours -> Note \union {None}]
    BY <1>7, <1>9 DEF MarkError, TypeOK
  <2> QED  BY <1>9, <2>1, FinishType, FaultType DEF MarkError, TypeOK, published, predict
<1> QED  BY <1>1, <1>2, <1>3, <1>4, <1>5, <1>6, <1>8, <1>9 DEF Work

\* Every step of a load.
LEMMA TypeLoad == ASSUME TypeOK, Load \/ LoadError PROVE TypeOK'
<1>1. CASE LoadMetadata
  BY <1>1 DEF LoadMetadata, TypeOK, published, jobs
<1>2. CASE LoadModel
  <2>1. loading \in Metadata
    BY <1>2 DEF LoadModel, TypeOK
  <2>2. loaded' \in Loaded
    BY <1>2, <2>1 DEF LoadModel, Loaded, Metadata, Known
  <2> QED  BY <1>2, <2>2 DEF LoadModel, TypeOK, published, jobs
<1>3. CASE LoadError
  BY <1>3, FaultType DEF LoadError, TypeOK, published, jobs
<1> QED  BY <1>1, <1>2, <1>3 DEF Load

-----------------------------------------------------------------------------
(* The other conjuncts, action by action.                                  *)

\* The start.
LEMMA InvInit == Init => IInv
<1> SUFFICES ASSUME Init PROVE IInv
  OBVIOUS
<1>1. TypeOK
  BY TypeInit
<1>2. BatchInv /\ BaseInv /\ UploadedInv /\ LabelHolds
  BY DEF Init, BatchInv, BaseInv, UploadedInv, LabelHolds
<1>3. PromiseInv /\ MarkedIsLearned
  BY DEF Init, PromiseInv, MarkedIsLearned
<1> QED  BY <1>1, <1>2, <1>3 DEF IInv

\* A new note is not marked, and no note goes away.
LEMMA InvCheck == ASSUME IInv, CheckHour \/ CheckAgain PROVE IInv'
<1>1. TypeOK'
  BY TypeCheck DEF IInv
<1>2. UNCHANGED <<published, jobs, predict>>
  BY DEF CheckHour, CheckAgain
<1>3. ASSUME NEW h \in Hours, Put(h)
      PROVE  \A i \in Hours : \/ notes'[i] = notes[i]
                              \/ notes'[i] # None /\ ~notes'[i].trained
  <2>1. PICK complete \in BOOLEAN :
          notes' = [notes EXCEPT ![h] = [trained |-> FALSE, complete |-> complete]]
    BY <1>3 DEF Put
  <2>2. [trained |-> FALSE, complete |-> complete] # None
    <3>1. [trained |-> FALSE, complete |-> complete] \in Note
      BY <2>1 DEF Note
    <3>2. None \notin Note
      BY NoneAssumption DEF Note
    <3> QED  BY <3>1, <3>2
  <2>3. notes \in [Hours -> Note \union {None}]
    BY DEF IInv, TypeOK
  <2>4. notes'[h] = [trained |-> FALSE, complete |-> complete]
    BY <2>1, <2>3
  <2>5. \A i \in Hours : i # h => notes'[i] = notes[i]
    BY <2>1, <2>3
  <2> QED  BY <2>2, <2>4, <2>5
<1>4. \A i \in Hours : \/ notes'[i] = notes[i]
                       \/ notes'[i] # None /\ ~notes'[i].trained
  BY <1>3 DEF CheckHour, CheckAgain
<1>5. BatchInv'
  BY <1>2, <1>4 DEF IInv, BatchInv, TypeOK, jobs
<1>6. MarkedIsLearned'
  BY <1>2, <1>4 DEF IInv, MarkedIsLearned, published
<1>7. BaseInv' /\ UploadedInv' /\ PromiseInv' /\ LabelHolds'
  BY <1>2 DEF IInv, BaseInv, UploadedInv, PromiseInv, LabelHolds, Known, published, jobs, predict
<1> QED  BY <1>1, <1>5, <1>6, <1>7 DEF IInv

\* A job that ends, with nothing new published and no mark set.
LEMMA InvFinish ==
  ASSUME IInv, TypeOK', NEW j \in Jobs, Finish(j), UNCHANGED <<notes, published, predict>>
  PROVE  IInv'
<1>1. \A i \in Jobs : i # j => pc'[i] = pc[i] /\ batch'[i] = batch[i]
                               /\ base'[i] = base[i] /\ seen'[i] = seen[i]
  BY FinishType DEF IInv
<1>2. pc'[j] = "idle" /\ batch'[j] = {}
  BY FinishType DEF IInv
<1>3. BatchInv' /\ BaseInv'
  BY <1>1, <1>2 DEF IInv, BatchInv, BaseInv
<1>4. UploadedInv'
  BY <1>1, <1>2 DEF IInv, UploadedInv, Known, published
<1>5. PromiseInv' /\ MarkedIsLearned' /\ LabelHolds'
  BY DEF IInv, PromiseInv, MarkedIsLearned, LabelHolds, Known, published, predict
<1> QED  BY <1>3, <1>4, <1>5 DEF IInv

\* Once it is published, a model serves every other job as well.
LEMMA InvStore ==
  ASSUME IInv, NEW j \in Jobs, pc[j] = "upload", StoreModel(j),
         \A i \in Jobs : i # j => pc'[i] = pc[i] /\ batch'[i] = batch[i] /\ base'[i] = base[i],
         pc'[j] \in {"idle", "metadata"},
         pc'[j] = "metadata" => batch'[j] = batch[j] /\ base'[j] = base[j],
         UNCHANGED <<notes, metadata, predict>>
  PROVE  UploadedInv' /\ PromiseInv' /\ MarkedIsLearned' /\ LabelHolds'
<1>1. CASE clash'
  BY <1>1 DEF UploadedInv, PromiseInv, MarkedIsLearned, LabelHolds
<1>2. CASE ~clash'
  <2>1. ~clash /\ \A h \in Hours : model'[h] >= model[h]
    BY <1>2, StoreModelEffect
  <2>2. batch[j] \subseteq Known(model') /\ Known(base[j]) \subseteq Known(model')
    BY <1>2, StoreModelEffect
  <2>3. Known(model) \subseteq Known(model')
    BY <1>2, StoreModelEffect
  <2>4. UploadedInv'
    <3> SUFFICES ASSUME NEW i \in Jobs
                 PROVE  /\ pc'[i] = "metadata" => Known(base'[i]) \subseteq Known(model')
                        /\ UploadEnabled /\ pc'[i] \in {"metadata", "mark"}
                             => batch'[i] \subseteq Known(model')
      BY DEF UploadedInv, Known
    <3>1. CASE i = j
      BY <3>1, <2>2 DEF Known
    <3>2. CASE i # j
      BY <3>2, <2>1, <2>3 DEF IInv, UploadedInv, Known
    <3> QED  BY <3>1, <3>2
  <2>5. PromiseInv'
    BY <2>1, <2>3 DEF IInv, PromiseInv, Known, predict
  <2>6. MarkedIsLearned'
    <3>1. ASSUME NEW h \in Hours, model[h] > 0 PROVE model'[h] > 0
      BY <3>1, <2>3 DEF Known
    <3> QED  BY <2>1, <3>1 DEF IInv, MarkedIsLearned
  <2>7. LabelHolds'
    BY <2>1 DEF IInv, LabelHolds, predict
  <2> QED  BY <2>4, <2>5, <2>6, <2>7
<1> QED  BY <1>1, <1>2

\* The steps of a job up to and including the upload.
LEMMA InvTrain ==
  ASSUME IInv, TypeOK', NEW j \in Jobs,
         (\E f \in BOOLEAN : Scan(j, f)) \/ Train(j) \/ UploadModel(j) \/ UploadMetadata(j)
  PROVE  IInv'
<1>1. pc \in [Jobs -> {"idle", "train", "upload", "metadata", "mark"}]
  BY DEF IInv, TypeOK
<1>2. batch \in [Jobs -> SUBSET Hours] /\ base \in [Jobs -> Models] /\ seen \in [Jobs -> Models]
  BY DEF IInv, TypeOK
<1>3. ASSUME NEW f \in BOOLEAN, Scan(j, f) PROVE IInv'
  <2>1. pc' = [pc EXCEPT ![j] = "train"] /\ batch' = [batch EXCEPT ![j] = Usable(Untrained)]
    BY <1>3 DEF Scan, Goto
  <2>2. \A h \in Usable(Untrained) : notes[h] # None
    BY DEF Usable, Untrained
  <2>3. BatchInv'
    BY <1>2, <1>3, <2>1, <2>2 DEF Scan, IInv, BatchInv
  <2>4. BaseInv' /\ UploadedInv'
    BY <1>1, <1>2, <1>3, <2>1 DEF Scan, IInv, BaseInv, UploadedInv, Known, published
  <2>5. PromiseInv' /\ MarkedIsLearned' /\ LabelHolds'
    BY <1>3 DEF Scan, IInv, PromiseInv, MarkedIsLearned, LabelHolds, Known, published, predict
  <2> QED  BY <2>3, <2>4, <2>5 DEF IInv
<1>4. CASE Train(j)
  <2>1. /\ pc' = [pc EXCEPT ![j] = "upload"] /\ batch' = batch
        /\ seen' = [seen EXCEPT ![j] = model]
        /\ base' = [base EXCEPT ![j] = [h \in Hours |-> model[h] + (IF h \in batch[j] THEN 1 ELSE 0)]]
    BY <1>4 DEF Train, Goto
  <2>2. \A h \in Hours : model[h] \in Nat
    BY DEF IInv, TypeOK, Models
  <2>3. \A h \in Hours : base'[j][h] >= seen'[j][h]
    BY <1>2, <2>1, <2>2
  <2>4. \A h \in batch'[j] : base'[j][h] > 0
    BY <1>2, <2>1, <2>2
  <2>5. BaseInv'
    BY <1>1, <1>2, <2>1, <2>3, <2>4 DEF IInv, BaseInv
  <2>6. BatchInv'
    BY <1>4, <2>1 DEF Train, IInv, BatchInv
  <2>7. UploadedInv'
    BY <1>1, <1>2, <1>4, <2>1 DEF Train, IInv, UploadedInv, Known, published
  <2>8. PromiseInv' /\ MarkedIsLearned' /\ LabelHolds'
    BY <1>4 DEF Train, IInv, PromiseInv, MarkedIsLearned, LabelHolds, Known, published, predict
  <2> QED  BY <2>5, <2>6, <2>7, <2>8 DEF IInv
<1>5. CASE UploadModel(j)
  <2>1. UNCHANGED <<notes, metadata, batch, base, seen, predict>> /\ pc[j] = "upload"
    BY <1>5 DEF UploadModel
  <2>2. \A i \in Jobs : i # j => pc'[i] = pc[i]
    BY <1>1, <1>5 DEF UploadModel, Goto
  <2>3. pc'[j] = IF UploadEnabled THEN "metadata" ELSE "mark"
    BY <1>1, <1>5 DEF UploadModel, Goto
  <2>4. BatchInv' /\ BaseInv'
    BY <2>1, <2>2, <2>3 DEF IInv, BatchInv, BaseInv
  <2>5. CASE UploadEnabled
    <3>1. StoreModel(j)
      BY <1>5, <2>5 DEF UploadModel
    <3>2. UploadedInv' /\ PromiseInv' /\ MarkedIsLearned' /\ LabelHolds'
      BY <2>1, <2>2, <2>3, <2>5, <3>1, InvStore
    <3> QED  BY <2>4, <3>2 DEF IInv
  <2>6. CASE ~UploadEnabled
    <3>1. UNCHANGED <<model, clash>>
      BY <1>5, <2>6 DEF UploadModel
    <3>2. UploadedInv'
      BY <2>1, <2>2, <2>3, <2>6, <3>1 DEF IInv, UploadedInv, Known
    <3>3. PromiseInv' /\ MarkedIsLearned' /\ LabelHolds'
      BY <2>1, <3>1 DEF IInv, PromiseInv, MarkedIsLearned, LabelHolds, Known, predict
    <3> QED  BY <2>4, <3>2, <3>3 DEF IInv
  <2> QED  BY <2>5, <2>6
<1>6. CASE UploadMetadata(j)
  <2>1. UNCHANGED <<notes, model, clash, batch, base, seen, predict>> /\ pc[j] = "metadata"
    BY <1>6 DEF UploadMetadata
  <2>2. pc' = [pc EXCEPT ![j] = "mark"] /\ metadata'.promised = Known(base[j])
    BY <1>6 DEF UploadMetadata, Goto, StoreMetadata
  <2>3. BatchInv' /\ BaseInv' /\ UploadedInv'
    BY <1>1, <2>1, <2>2 DEF IInv, BatchInv, BaseInv, UploadedInv, Known
  <2>4. PromiseInv'
    BY <2>1, <2>2 DEF IInv, PromiseInv, UploadedInv, Known, predict
  <2>5. MarkedIsLearned' /\ LabelHolds'
    BY <2>1 DEF IInv, MarkedIsLearned, LabelHolds, predict
  <2> QED  BY <2>3, <2>4, <2>5 DEF IInv
<1> QED  BY <1>3, <1>4, <1>5, <1>6

\* An upload that fails, its object stored or not.
LEMMA InvUploadError == ASSUME IInv, TypeOK', NEW j \in Jobs, UploadError(j) PROVE IInv'
<1>1. Finish(j) /\ UNCHANGED <<notes, predict>>
  BY DEF UploadError
<1>2. \A i \in Jobs : i # j => pc'[i] = pc[i] /\ batch'[i] = batch[i]
                               /\ base'[i] = base[i] /\ seen'[i] = seen[i]
  BY <1>1, FinishType DEF IInv
<1>3. pc'[j] = "idle" /\ batch'[j] = {}
  BY <1>1, FinishType DEF IInv
<1>4. BatchInv' /\ BaseInv'
  BY <1>1, <1>2, <1>3 DEF IInv, BatchInv, BaseInv
<1>5. CASE UNCHANGED published
  BY <1>1, <1>5, InvFinish
<1>6. CASE pc[j] = "upload" /\ StoreModel(j) /\ UNCHANGED metadata
  BY <1>1, <1>2, <1>3, <1>4, <1>6, InvStore DEF IInv
<1>7. CASE pc[j] = "metadata" /\ StoreMetadata(j) /\ UNCHANGED <<model, clash>>
  <2>1. metadata'.promised = Known(base[j])
    BY <1>7 DEF StoreMetadata
  <2>2. UploadedInv'
    BY <1>2, <1>3, <1>7 DEF IInv, UploadedInv, Known
  <2>3. PromiseInv'
    BY <1>1, <1>7, <2>1 DEF IInv, PromiseInv, UploadedInv, Known, predict
  <2>4. MarkedIsLearned' /\ LabelHolds'
    BY <1>1, <1>7 DEF IInv, MarkedIsLearned, LabelHolds, predict
  <2> QED  BY <1>4, <2>2, <2>3, <2>4 DEF IInv
<1> QED  BY <1>5, <1>6, <1>7 DEF UploadError

\* A mark, set or perhaps set: what it marks was learned.
LEMMA InvMark ==
  ASSUME IInv, TypeOK', NEW j \in Jobs, NEW h \in Hours, Mark(j, h) \/ MarkError(j, h)
  PROVE  IInv'
<1>1. pc[j] = "mark" /\ h \in batch[j] /\ UNCHANGED <<published, predict>>
  BY DEF Mark, MarkError
<1>2. notes' = notes \/ notes' = [notes EXCEPT ![h].trained = TRUE]
  BY DEF Mark, MarkError
<1>3. notes \in [Hours -> Note \union {None}] /\ notes' \in [Hours -> Note \union {None}]
  BY DEF IInv, TypeOK
<1>4. \A i \in Hours : i # h => notes'[i] = notes[i]
  BY <1>2, <1>3
<1>5. notes'[h] # None
  <2>1. notes[h] \in Note
    BY <1>1, <1>3 DEF IInv, BatchInv
  <2>2. [notes[h] EXCEPT !.trained = TRUE] \in Note
    BY <2>1 DEF Note
  <2>3. notes'[h] \in Note
    BY <1>2, <1>3, <2>1, <2>2
  <2>4. None \notin Note
    BY NoneAssumption DEF Note
  <2> QED  BY <2>3, <2>4
<1>6. /\ \A i \in Jobs : i # j => pc'[i] = pc[i] /\ batch'[i] = batch[i]
                                  /\ base'[i] = base[i] /\ seen'[i] = seen[i]
      /\ batch'[j] \subseteq batch[j]
      /\ pc'[j] \in {"idle", "mark"}
  <2>1. CASE Mark(j, h)
    <3>1. batch \in [Jobs -> SUBSET Hours]
      BY DEF IInv, TypeOK
    <3> QED  BY <2>1, <3>1, <1>1 DEF Mark
  <2>2. CASE MarkError(j, h)
    BY <2>2, FinishType DEF MarkError, IInv
  <2> QED  BY <2>1, <2>2
<1>7. batch \in [Jobs -> SUBSET Hours]
  BY DEF IInv, TypeOK
<1>8. \A i \in Hours : notes[i] # None => notes'[i] # None
  BY <1>4, <1>5
<1>9. BatchInv'
  <2>1. \A i \in Jobs : batch'[i] \subseteq batch[i]
    BY <1>6
  <2> QED  BY <1>7, <1>8, <2>1 DEF IInv, BatchInv
<1>10. BaseInv'
  BY <1>6 DEF IInv, BaseInv
<1>11. UploadedInv'
  <2>1. model' = model /\ clash' = clash
    BY <1>1 DEF published
  <2> QED  BY <1>1, <1>6, <2>1 DEF IInv, UploadedInv, Known
<1>12. MarkedIsLearned'
  <2>1. UploadEnabled /\ ~clash => model[h] > 0
    BY <1>1 DEF IInv, UploadedInv, Known
  <2> QED  BY <1>1, <1>4, <2>1 DEF IInv, MarkedIsLearned, published
<1>13. PromiseInv' /\ LabelHolds'
  BY <1>1 DEF IInv, PromiseInv, LabelHolds, Known, published, predict
<1> QED  BY <1>9, <1>10, <1>11, <1>12, <1>13 DEF IInv

\* A load reads the metadata before the model, which only gets to know more.
LEMMA InvLoad == ASSUME IInv, Load \/ LoadError PROVE IInv'
<1>1. TypeOK'
  BY TypeLoad DEF IInv
<1>2. UNCHANGED <<notes, published, jobs>>
  BY DEF Load, LoadMetadata, LoadModel, LoadError
<1>3. BatchInv' /\ BaseInv' /\ UploadedInv' /\ MarkedIsLearned'
  BY <1>2 DEF IInv, BatchInv, BaseInv, UploadedInv, MarkedIsLearned, Known, published, jobs
<1>4. CASE LoadMetadata
  BY <1>1, <1>2, <1>3, <1>4 DEF LoadMetadata, IInv, PromiseInv, LabelHolds, Known, published
<1>5. CASE LoadModel
  <2>1. loading # None /\ loading' = None
    BY <1>5 DEF LoadModel
  <2>2. loaded'.promised = loading.promised /\ loaded'.known = Known(model)
    BY <1>5 DEF LoadModel
  <2>3. PromiseInv' /\ LabelHolds'
    BY <1>2, <2>1, <2>2 DEF IInv, PromiseInv, LabelHolds, Known, published
  <2> QED  BY <1>1, <1>3, <2>3 DEF IInv
<1>6. CASE LoadError
  <2>1. loading' = None /\ loaded' \in {loaded, None}
    BY <1>6 DEF LoadError
  <2>2. PromiseInv' /\ LabelHolds'
    BY <1>2, <2>1 DEF IInv, PromiseInv, LabelHolds, Known, published
  <2> QED  BY <1>1, <1>3, <2>2 DEF IInv
<1> QED  BY <1>4, <1>5, <1>6 DEF Load

-----------------------------------------------------------------------------
(* The theorems.                                                           *)

\* Every step keeps the invariant.
LEMMA InvNext == IInv /\ [Next]_vars => IInv'
<1> SUFFICES ASSUME IInv, [Next]_vars PROVE IInv'
  OBVIOUS
<1>1. CASE CheckHour \/ CheckAgain
  BY <1>1, InvCheck
<1>2. ASSUME NEW j \in Jobs, Work(j) PROVE IInv'
  <2>1. TypeOK'
    BY <1>2, TypeWork DEF IInv
  <2>2. CASE (\E f \in BOOLEAN : Scan(j, f)) \/ Train(j) \/ UploadModel(j) \/ UploadMetadata(j)
    BY <2>1, <2>2, InvTrain
  <2>3. CASE UploadError(j)
    BY <2>1, <2>3, InvUploadError
  <2>4. CASE Exit(j) \/ JobFails(j)
    BY <2>1, <2>4, InvFinish DEF Exit, JobFails
  <2>5. ASSUME NEW h \in Hours, Mark(j, h) \/ MarkError(j, h) PROVE IInv'
    BY <2>1, <2>5, InvMark
  <2> QED  BY <1>2, <2>2, <2>3, <2>4, <2>5 DEF Work
<1>3. CASE Load \/ LoadError
  BY <1>3, InvLoad
<1>4. CASE UNCHANGED vars
  BY <1>4 DEF vars, published, jobs, predict, IInv, TypeOK, BatchInv, BaseInv, UploadedInv,
              PromiseInv, MarkedIsLearned, LabelHolds, Known
<1> QED  BY <1>1, <1>2, <1>3, <1>4 DEF Next

\* The inductive invariant: what the job is about to upload, publish or mark
\* fits what is published, whatever failed before.
THEOREM Invariance == Spec => []IInv
  BY InvInit, InvNext, PTL DEF Spec

\* Every variable keeps its type, the counts of a model stay bounded.
THEOREM TypeCorrect == Spec => []TypeOK
<1>1. IInv => TypeOK
  BY DEF IInv
<1> QED  BY <1>1, Invariance, PTL

\* mark_used_as_trained after upload_continued_model: unless two jobs upload
\* over each other, a note that is used up was learned by the published model.
THEOREM MarkedLearned == Spec => []MarkedIsLearned
<1>1. IInv => MarkedIsLearned
  BY DEF IInv
<1> QED  BY <1>1, Invariance, PTL

\* ModelLoader: the model that is held knows what the version it is held
\* under stands for, though metadata and model are separate objects.
THEOREM LabelsHold == Spec => []LabelHolds
<1>1. IInv => LabelHolds
  BY DEF IInv
<1> QED  BY <1>1, Invariance, PTL

\* Only an upload changes the published model, and without a clash it has
\* learned at least what it had.
LEMMA StepGrows ==
  ASSUME IInv, [Next]_vars
  PROVE  ~clash' => \A h \in Hours : model'[h] >= model[h]
<1>1. \A h \in Hours : model[h] \in Nat
  BY DEF IInv, TypeOK, Models
<1>2. \/ UNCHANGED <<model, clash>>
      \/ \E j \in Jobs : pc[j] = "upload" /\ StoreModel(j)
  BY DEF Next, vars, published, CheckHour, CheckAgain, Work, Scan, Train, UploadModel,
         UploadMetadata, UploadError, StoreMetadata, Mark, MarkError, Exit, JobFails, Load,
         LoadMetadata, LoadModel, LoadError
<1>3. CASE UNCHANGED <<model, clash>>
  BY <1>1, <1>3
<1>4. ASSUME NEW j \in Jobs, pc[j] = "upload", StoreModel(j), ~clash'
      PROVE  \A h \in Hours : model'[h] >= model[h]
  BY <1>4, StoreModelEffect
<1> QED  BY <1>2, <1>3, <1>4

\* continue_train keeps all the trees it downloads: nothing is unlearned.
THEOREM Grows == Spec => ModelGrows
<1>1. IInv /\ [Next]_vars => [~clash' => \A h \in Hours : model'[h] >= model[h]]_vars
  BY StepGrows
<1> QED  BY <1>1, Invariance, PTL DEF Spec, ModelGrows

-----------------------------------------------------------------------------
(* How often a note is learned.                                            *)

\* Sets of jobs have numbers.
LEMMA JobSets ==
  ASSUME NEW A \in SUBSET Jobs
  PROVE  /\ Cardinality(A) \in Nat /\ Cardinality(Jobs) \in Nat
         /\ Cardinality(A) <= Cardinality(Jobs)
         /\ \A B \in SUBSET A : Cardinality(B) <= Cardinality(A)
         /\ \A x \in A : Cardinality(A \ {x}) = Cardinality(A) - 1
<1>1. IsFiniteSet(Jobs) /\ IsFiniteSet(A)
  BY JobsAssumption, FS_Subset
<1>2. Cardinality(A) \in Nat /\ Cardinality(Jobs) \in Nat
  BY <1>1, FS_CardinalityType
<1>3. Cardinality(A) <= Cardinality(Jobs)
  BY <1>1, FS_Subset
<1>4. \A B \in SUBSET A : Cardinality(B) <= Cardinality(A)
  BY <1>1, FS_Subset
<1>5. \A x \in A : Cardinality(A \ {x}) = Cardinality(A) - 1
  BY <1>1, FS_RemoveElement
<1> QED  BY <1>2, <1>3, <1>4, <1>5

\* A mishap allows each job one more.
LEMMA Limits ==
  ASSUME faults \in Nat
  PROVE  /\ Limit \in Nat
         /\ faults' = faults => Limit' = Limit
         /\ faults' = faults + 1 => Limit' = Limit + Cardinality(Jobs)
<1>1. Cardinality(Jobs) \in Nat
  BY JobSets
<1> DEFINE c == Cardinality(Jobs)
<1> HIDE DEF c
<1>2. Limit = c * (1 + faults) /\ Limit' = c * (1 + faults')
  BY DEF Limit, c
<1>3. c \in Nat /\ (c * (1 + (faults + 1)) = c * (1 + faults) + c) /\ c * (1 + faults) \in Nat
  BY <1>1 DEF c
<1> QED  BY <1>2, <1>3 DEF c

\* A step in which no job gets a turn it had not and no model is uploaded.
LEMMA QuietStep ==
  ASSUME IInv, TurnsLeft, UNCHANGED <<model, faults>>,
         \A h \in Hours : Turns(h)' \subseteq Turns(h),
         \A j \in Jobs : pc'[j] = "upload" =>
           pc[j] = "upload" /\ batch'[j] = batch[j] /\ base'[j] = base[j]
  PROVE  TurnsLeft'
<1>1. faults \in Nat /\ model \in Models /\ base \in [Jobs -> Models]
  BY DEF IInv, TypeOK
<1>2. Limit' = Limit /\ Limit \in Nat
  BY <1>1, Limits
<1>3. SUFFICES ASSUME NEW h \in Hours
      PROVE  /\ model'[h] + Cardinality(Turns(h))' <= Limit
             /\ \A j \in Jobs : pc'[j] = "upload" =>
                  base'[j][h] + Cardinality(IF h \in batch'[j] THEN Turns(h)' \ {j} ELSE Turns(h)') <= Limit
  BY <1>2 DEF TurnsLeft
<1>4. Turns(h) \in SUBSET Jobs /\ Turns(h)' \in SUBSET Turns(h)
  BY DEF Turns
<1> DEFINE T == Turns(h)
           U == Turns(h)'
<1> HIDE DEF T, U
<1>5. T \in SUBSET Jobs /\ U \in SUBSET T
  BY <1>4 DEF T, U
<1>6. model[h] \in Nat /\ model[h] + Cardinality(T) <= Limit
  <2>1. model[h] \in Nat
    BY <1>1 DEF Models
  <2>2. model[h] + Cardinality(T) <= Limit
    BY DEF TurnsLeft, T
  <2> QED  BY <2>1, <2>2
<1>7. Cardinality(T) \in Nat /\ Cardinality(U) \in Nat /\ Cardinality(U) <= Cardinality(T)
  BY <1>5, JobSets
<1>8. model'[h] + Cardinality(U) <= Limit
  BY <1>2, <1>6, <1>7
<1>9. ASSUME NEW j \in Jobs, pc'[j] = "upload"
      PROVE  base'[j][h] + Cardinality(IF h \in batch'[j] THEN U \ {j} ELSE U) <= Limit
  <2> DEFINE V == IF h \in batch[j] THEN T \ {j} ELSE T
             W == IF h \in batch[j] THEN U \ {j} ELSE U
  <2>1. V \in SUBSET Jobs /\ W \in SUBSET V
    BY <1>5
  <2>2. base[j][h] \in Nat /\ base[j][h] + Cardinality(V) <= Limit
    <3>1. base[j] \in Models
      BY <1>1
    <3>2. base[j][h] \in Nat
      BY <3>1 DEF Models
    <3>3. base[j][h] + Cardinality(V) <= Limit
      BY <1>9 DEF TurnsLeft, T
    <3> QED  BY <3>2, <3>3
  <2>3. base'[j] = base[j] /\ batch'[j] = batch[j]
    BY <1>9
  <2> HIDE DEF V, W
  <2>4. Cardinality(V) \in Nat /\ Cardinality(W) <= Cardinality(V) /\ W \in SUBSET Jobs
    BY <2>1, JobSets
  <2>5. Cardinality(W) \in Nat
    BY <2>4, JobSets
  <2>6. base[j][h] + Cardinality(W) <= Limit
    BY <1>2, <2>2, <2>4, <2>5
  <2> QED  BY <2>3, <2>6 DEF W
<1> QED  BY <1>8, <1>9 DEF U

\* A mishap, with or without an upload: everybody has a turn again.
LEMMA FaultStep ==
  ASSUME IInv, TurnsLeft, faults' = faults + 1,
         model' = model \/ \E j \in Jobs : pc[j] = "upload" /\ model' = base[j],
         \A j \in Jobs : pc'[j] = "upload" => pc[j] = "upload" /\ base'[j] = base[j]
  PROVE  TurnsLeft'
<1>1. faults \in Nat /\ model \in Models /\ base \in [Jobs -> Models]
  BY DEF IInv, TypeOK
<1>2. Limit' = Limit + Cardinality(Jobs) /\ Limit \in Nat /\ Cardinality(Jobs) \in Nat
  BY <1>1, Limits, JobSets
<1>3. SUFFICES ASSUME NEW h \in Hours
      PROVE  /\ model'[h] + Cardinality(Turns(h))' <= Limit + Cardinality(Jobs)
             /\ \A j \in Jobs : pc'[j] = "upload" =>
                  base'[j][h] + Cardinality(IF h \in batch'[j] THEN Turns(h)' \ {j} ELSE Turns(h)')
                    <= Limit + Cardinality(Jobs)
  BY <1>2 DEF TurnsLeft
<1>4. Turns(h) \in SUBSET Jobs /\ Turns(h)' \in SUBSET Jobs
  BY DEF Turns
<1> DEFINE T == Turns(h)
           U == Turns(h)'
<1> HIDE DEF T, U
<1>5. T \in SUBSET Jobs /\ U \in SUBSET Jobs
  BY <1>4 DEF T, U
<1>6. model[h] \in Nat /\ model[h] <= Limit
  <2>1. model[h] \in Nat /\ model[h] + Cardinality(T) <= Limit
    <3>1. model[h] \in Nat
      BY <1>1 DEF Models
    <3>2. model[h] + Cardinality(T) <= Limit
      BY DEF TurnsLeft, T
    <3> QED  BY <3>1, <3>2
  <2>2. Cardinality(T) \in Nat
    BY <1>5, JobSets
  <2> QED  BY <1>2, <2>1, <2>2
<1>7. ASSUME NEW j \in Jobs, pc[j] = "upload" PROVE base[j][h] \in Nat /\ base[j][h] <= Limit
  <2> DEFINE V == IF h \in batch[j] THEN T \ {j} ELSE T
  <2>1. V \in SUBSET Jobs
    BY <1>5
  <2>2. base[j][h] \in Nat /\ base[j][h] + Cardinality(V) <= Limit
    <3>1. base[j] \in Models
      BY <1>1
    <3>2. base[j][h] \in Nat
      BY <3>1 DEF Models
    <3>3. base[j][h] + Cardinality(V) <= Limit
      BY <1>7 DEF TurnsLeft, T
    <3> QED  BY <3>2, <3>3
  <2> HIDE DEF V
  <2>3. Cardinality(V) \in Nat
    BY <2>1, JobSets
  <2> QED  BY <1>2, <2>2, <2>3
<1>8. model'[h] \in Nat /\ model'[h] <= Limit
  BY <1>6, <1>7
<1>9. model'[h] + Cardinality(U) <= Limit + Cardinality(Jobs)
  <2>1. Cardinality(U) \in Nat /\ Cardinality(U) <= Cardinality(Jobs)
    BY <1>5, JobSets
  <2> QED  BY <1>2, <1>8, <2>1
<1>10. ASSUME NEW j \in Jobs, pc'[j] = "upload"
       PROVE  base'[j][h] + Cardinality(IF h \in batch'[j] THEN U \ {j} ELSE U)
                <= Limit + Cardinality(Jobs)
  <2> DEFINE W == IF h \in batch'[j] THEN U \ {j} ELSE U
  <2>1. W \in SUBSET Jobs
    BY <1>5
  <2>2. base'[j][h] \in Nat /\ base'[j][h] <= Limit
    BY <1>7, <1>10
  <2> HIDE DEF W
  <2>3. Cardinality(W) \in Nat /\ Cardinality(W) <= Cardinality(Jobs)
    BY <2>1, JobSets
  <2>4. base'[j][h] + Cardinality(W) <= Limit + Cardinality(Jobs)
    BY <1>2, <2>2, <2>3
  <2> QED  BY <2>4 DEF W
<1> QED  BY <1>9, <1>10 DEF U

\* A download: the job is about to upload a model that has learned its batch
\* once more, for which it has its turn.
LEMMA TrainStep == ASSUME IInv, TurnsLeft, NEW j \in Jobs, Train(j) PROVE TurnsLeft'
<1>1. /\ pc[j] = "train" /\ UNCHANGED <<model, faults, notes, batch>>
      /\ pc' = [pc EXCEPT ![j] = "upload"]
      /\ base' = [base EXCEPT ![j] = [h \in Hours |-> model[h] + (IF h \in batch[j] THEN 1 ELSE 0)]]
  BY DEF Train, Goto, published
<1>2. /\ faults \in Nat /\ model \in Models /\ base \in [Jobs -> Models]
      /\ pc \in [Jobs -> {"idle", "train", "upload", "metadata", "mark"}]
  BY DEF IInv, TypeOK
<1>3. Limit' = Limit /\ Limit \in Nat
  BY <1>1, <1>2, Limits
<1>4. \A k \in Jobs : pc'[k] = IF k = j THEN "upload" ELSE pc[k]
  BY <1>1, <1>2
<1>5. SUFFICES ASSUME NEW h \in Hours
      PROVE  /\ model[h] + Cardinality(Turns(h))' <= Limit
             /\ \A k \in Jobs : pc'[k] = "upload" =>
                  base'[k][h] + Cardinality(IF h \in batch[k] THEN Turns(h)' \ {k} ELSE Turns(h)') <= Limit
  BY <1>1, <1>3 DEF TurnsLeft
<1>6. Turns(h)' = Turns(h) /\ Turns(h) \in SUBSET Jobs /\ (h \in batch[j] => j \in Turns(h))
  BY <1>1, <1>4 DEF Turns
<1> DEFINE T == Turns(h)
<1>7. model[h] \in Nat /\ model[h] + Cardinality(T) <= Limit
  <2>1. model[h] \in Nat
    BY <1>2 DEF Models
  <2>2. model[h] + Cardinality(T) <= Limit
    BY DEF TurnsLeft
  <2> QED  BY <2>1, <2>2
<1> HIDE DEF T
<1>8. T \in SUBSET Jobs /\ Cardinality(T) \in Nat
  BY <1>6, JobSets DEF T
<1>9. base'[j][h] + Cardinality(IF h \in batch[j] THEN T \ {j} ELSE T) <= Limit
  <2>1. base'[j][h] = model[h] + (IF h \in batch[j] THEN 1 ELSE 0)
    BY <1>1, <1>2
  <2>2. CASE h \in batch[j]
    <3>1. Cardinality(T \ {j}) = Cardinality(T) - 1
      BY <1>6, <1>8, <2>2, JobSets DEF T
    <3> QED  BY <1>3, <1>7, <1>8, <2>1, <2>2, <3>1
  <2>3. CASE h \notin batch[j]
    BY <1>3, <1>7, <1>8, <2>1, <2>3
  <2> QED  BY <2>2, <2>3
<1>10. ASSUME NEW k \in Jobs, k # j, pc'[k] = "upload"
       PROVE  base'[k][h] + Cardinality(IF h \in batch[k] THEN T \ {k} ELSE T) <= Limit
  <2>1. pc[k] = "upload" /\ base'[k] = base[k]
    BY <1>1, <1>2, <1>4, <1>10
  <2> QED  BY <2>1 DEF TurnsLeft, T
<1> QED  BY <1>6, <1>7, <1>9, <1>10 DEF T

\* An upload uses up the turns of the job that does it.
LEMMA UploadStep ==
  ASSUME IInv, TurnsLeft, NEW j \in Jobs, UploadModel(j), UploadEnabled
  PROVE  TurnsLeft'
<1>1. /\ pc[j] = "upload" /\ UNCHANGED <<base, faults, notes, batch>>
      /\ pc' = [pc EXCEPT ![j] = "metadata"] /\ model' = base[j]
  BY DEF UploadModel, StoreModel, Goto
<1>2. /\ faults \in Nat /\ model \in Models /\ base \in [Jobs -> Models]
      /\ pc \in [Jobs -> {"idle", "train", "upload", "metadata", "mark"}]
  BY DEF IInv, TypeOK
<1>3. Limit' = Limit /\ Limit \in Nat
  BY <1>1, <1>2, Limits
<1>4. \A k \in Jobs : pc'[k] = IF k = j THEN "metadata" ELSE pc[k]
  BY <1>1, <1>2
<1>5. SUFFICES ASSUME NEW h \in Hours
      PROVE  /\ base[j][h] + Cardinality(Turns(h))' <= Limit
             /\ \A k \in Jobs : pc'[k] = "upload" =>
                  base[k][h] + Cardinality(IF h \in batch[k] THEN Turns(h)' \ {k} ELSE Turns(h)') <= Limit
  BY <1>1, <1>3 DEF TurnsLeft
<1>6. Turns(h)' = (IF h \in batch[j] THEN Turns(h) \ {j} ELSE Turns(h)) /\ Turns(h) \in SUBSET Jobs
  BY <1>1, <1>4 DEF Turns
<1> DEFINE T == Turns(h)
           U == Turns(h)'
<1>7. \A k \in Jobs : pc[k] = "upload" =>
        base[k][h] + Cardinality(IF h \in batch[k] THEN T \ {k} ELSE T) <= Limit
  BY DEF TurnsLeft
<1> HIDE DEF T, U
<1>8. T \in SUBSET Jobs /\ U \in SUBSET T /\ U = IF h \in batch[j] THEN T \ {j} ELSE T
  BY <1>6 DEF T, U
<1>9. base[j][h] + Cardinality(U) <= Limit
  BY <1>1, <1>7, <1>8
<1>10. ASSUME NEW k \in Jobs, pc'[k] = "upload"
       PROVE  base[k][h] + Cardinality(IF h \in batch[k] THEN U \ {k} ELSE U) <= Limit
  <2> DEFINE V == IF h \in batch[k] THEN T \ {k} ELSE T
             W == IF h \in batch[k] THEN U \ {k} ELSE U
  <2>1. V \in SUBSET Jobs /\ W \in SUBSET V
    BY <1>8
  <2>2. base[k][h] + Cardinality(V) <= Limit
    BY <1>4, <1>7, <1>10
  <2>3. base[k][h] \in Nat
    <3>1. base[k] \in Models
      BY <1>2
    <3> QED  BY <3>1 DEF Models
  <2> HIDE DEF V, W
  <2>4. Cardinality(V) \in Nat /\ Cardinality(W) <= Cardinality(V) /\ W \in SUBSET Jobs
    BY <2>1, JobSets
  <2>5. Cardinality(W) \in Nat
    BY <2>4, JobSets
  <2>6. base[k][h] + Cardinality(W) <= Limit
    BY <1>3, <2>2, <2>3, <2>4, <2>5
  <2> QED  BY <2>6 DEF W
<1> QED  BY <1>9, <1>10 DEF U

\* At the start every job has its turn, and nothing has been learned.
LEMMA TurnsInit == Init => TurnsInv
<1> SUFFICES ASSUME Init PROVE TurnsInv
  OBVIOUS
<1>1. NotesPast /\ IdleEmpty
  BY DEF Init, NotesPast, IdleEmpty
<1>2. ASSUME NEW h \in Hours PROVE model[h] + Cardinality(Turns(h)) <= Limit
  <2>1. Turns(h) \in SUBSET Jobs /\ model[h] = 0
    BY <1>2 DEF Init, Turns, Untaught
  <2>2. Cardinality(Turns(h)) \in Nat /\ Cardinality(Jobs) \in Nat
        /\ Cardinality(Turns(h)) <= Cardinality(Jobs)
    BY <2>1, JobSets
  <2>3. Limit = Cardinality(Jobs)
    <3>1. faults = 0
      BY DEF Init
    <3> QED  BY <2>2, <3>1 DEF Limit
  <2> QED  BY <2>1, <2>2, <2>3
<1>3. \A j \in Jobs : pc[j] # "upload"
  BY DEF Init
<1> QED  BY <1>1, <1>2, <1>3 DEF TurnsInv, TurnsLeft

\* The checks of an hour and the loads.
LEMMA TurnsCheck ==
  ASSUME IInv, TurnsInv, CheckHour \/ CheckAgain \/ Load \/ LoadError \/ UNCHANGED vars
  PROVE  TurnsInv'
<1>1. UNCHANGED <<model, pc, batch, base>>
  BY DEF CheckHour, CheckAgain, Load, LoadMetadata, LoadModel, LoadError, vars, published, jobs
<1>2. IdleEmpty'
  BY <1>1 DEF TurnsInv, IdleEmpty
<1>3. notes \in [Hours -> Note \union {None}] /\ hour \in Hours \union {0}
  BY DEF IInv, TypeOK
<1>4. CASE CheckHour
  <2>1. hour + 1 \in Hours /\ hour' = hour + 1 /\ faults' = faults /\ notes[hour + 1] = None
    BY <1>3, <1>4 DEF CheckHour, TurnsInv, NotesPast
  <2>2. \A i \in Hours : i # hour + 1 => notes'[i] = notes[i]
    BY <1>3, <1>4 DEF CheckHour, Put
  <2>3. NotesPast'
    BY <1>3, <2>1, <2>2 DEF TurnsInv, NotesPast
  <2>4. \A h \in Hours : Turns(h)' \subseteq Turns(h)
    BY <1>1, <2>1, <2>2 DEF Turns
  <2> QED  BY <1>1, <1>2, <2>1, <2>3, <2>4, QuietStep DEF TurnsInv
<1>5. CASE CheckAgain
  <2>1. hour \in Hours /\ hour' = hour /\ faults' = faults + 1
    BY <1>5 DEF CheckAgain, Fault
  <2>2. \A i \in Hours : i # hour => notes'[i] = notes[i]
    BY <1>3, <1>5 DEF CheckAgain, Put
  <2>3. NotesPast'
    BY <2>1, <2>2 DEF TurnsInv, NotesPast
  <2> QED  BY <1>1, <1>2, <2>1, <2>3, FaultStep DEF TurnsInv
<1>6. CASE LoadError
  <2>1. UNCHANGED <<hour, notes>> /\ faults' = faults + 1
    BY <1>6 DEF LoadError, Fault
  <2>2. NotesPast'
    BY <2>1 DEF TurnsInv, NotesPast
  <2> QED  BY <1>1, <1>2, <2>1, <2>2, FaultStep DEF TurnsInv
<1>7. CASE Load \/ UNCHANGED vars
  <2>1. UNCHANGED <<hour, notes, faults>>
    BY <1>7 DEF Load, LoadMetadata, LoadModel, vars
  <2>2. NotesPast'
    BY <2>1 DEF TurnsInv, NotesPast
  <2>3. \A h \in Hours : Turns(h)' \subseteq Turns(h)
    BY <1>1, <2>1 DEF Turns
  <2> QED  BY <1>1, <1>2, <2>1, <2>2, <2>3, QuietStep DEF TurnsInv
<1> QED  BY <1>4, <1>5, <1>6, <1>7

\* A job up to its upload, and the upload.
LEMMA TurnsTrain ==
  ASSUME IInv, TurnsInv, NEW j \in Jobs,
         (\E f \in BOOLEAN : Scan(j, f)) \/ Train(j) \/ UploadModel(j) \/ UploadMetadata(j)
  PROVE  TurnsInv'
<1>1. UNCHANGED <<hour, notes, faults>>
  BY DEF Scan, Train, UploadModel, UploadMetadata
<1>2. NotesPast'
  BY <1>1 DEF TurnsInv, NotesPast
<1>3. /\ pc \in [Jobs -> {"idle", "train", "upload", "metadata", "mark"}]
      /\ batch \in [Jobs -> SUBSET Hours]
  BY DEF IInv, TypeOK
<1>4. ASSUME NEW f \in BOOLEAN, Scan(j, f) PROVE TurnsInv'
  <2>1. /\ pc[j] = "idle" /\ UNCHANGED <<model, base>>
        /\ pc' = [pc EXCEPT ![j] = "train"]
        /\ batch' = [batch EXCEPT ![j] = Usable(Untrained)]
    BY <1>4 DEF Scan, Goto, published
  <2>2. \A k \in Jobs : /\ pc'[k] = IF k = j THEN "train" ELSE pc[k]
                        /\ batch'[k] = IF k = j THEN Usable(Untrained) ELSE batch[k]
    BY <1>3, <2>1
  <2>3. IdleEmpty'
    BY <2>2 DEF TurnsInv, IdleEmpty
  <2>4. batch[j] = {}
    BY <2>1 DEF TurnsInv, IdleEmpty
  <2>5. \A h \in Usable(Untrained) : ~notes[h].trained
    BY DEF Usable, Untrained
  <2>6. \A h \in Hours : Turns(h)' \subseteq Turns(h)
    BY <1>1, <2>2, <2>4, <2>5 DEF Turns
  <2>7. TurnsLeft'
    BY <1>1, <2>1, <2>2, <2>6, QuietStep DEF TurnsInv
  <2> QED  BY <1>2, <2>3, <2>7 DEF TurnsInv
<1>5. CASE Train(j)
  <2>1. \A k \in Jobs : batch'[k] = batch[k] /\ pc'[k] = IF k = j THEN "upload" ELSE pc[k]
    BY <1>3, <1>5 DEF Train, Goto
  <2>2. IdleEmpty'
    BY <2>1 DEF TurnsInv, IdleEmpty
  <2> QED  BY <1>2, <1>5, <2>2, TrainStep DEF TurnsInv
<1>6. CASE UploadModel(j)
  <2>1. pc[j] = "upload" /\ UNCHANGED <<batch, base>>
    BY <1>6 DEF UploadModel
  <2>2. \A k \in Jobs : pc'[k] = IF k = j THEN IF UploadEnabled THEN "metadata" ELSE "mark" ELSE pc[k]
    BY <1>3, <1>6 DEF UploadModel, Goto
  <2>3. IdleEmpty'
    BY <2>1, <2>2 DEF TurnsInv, IdleEmpty
  <2>4. CASE UploadEnabled
    BY <1>2, <1>6, <2>3, <2>4, UploadStep DEF TurnsInv
  <2>5. CASE ~UploadEnabled
    <3>1. model' = model
      BY <1>6, <2>5 DEF UploadModel
    <3>2. \A h \in Hours : Turns(h)' \subseteq Turns(h)
      BY <1>1, <2>1, <2>2, <2>5 DEF Turns
    <3>3. TurnsLeft'
      BY <1>1, <2>1, <2>2, <2>5, <3>1, <3>2, QuietStep DEF TurnsInv
    <3> QED  BY <1>2, <2>3, <3>3 DEF TurnsInv
  <2> QED  BY <2>4, <2>5
<1>7. CASE UploadMetadata(j)
  <2>1. pc[j] = "metadata" /\ UNCHANGED <<model, batch, base>>
    BY <1>7 DEF UploadMetadata
  <2>2. \A k \in Jobs : pc'[k] = IF k = j THEN "mark" ELSE pc[k]
    BY <1>3, <1>7 DEF UploadMetadata, Goto
  <2>3. IdleEmpty'
    BY <2>1, <2>2 DEF TurnsInv, IdleEmpty
  <2>4. \A h \in Hours : Turns(h)' \subseteq Turns(h)
    BY <1>1, <2>1, <2>2 DEF Turns
  <2>5. TurnsLeft'
    BY <1>1, <2>1, <2>2, <2>4, QuietStep DEF TurnsInv
  <2> QED  BY <1>2, <2>3, <2>5 DEF TurnsInv
<1> QED  BY <1>4, <1>5, <1>6, <1>7

\* A job that marks a note or ends.
LEMMA TurnsMark ==
  ASSUME IInv, TurnsInv, NEW j \in Jobs,
         \/ UploadError(j) \/ Exit(j) \/ JobFails(j)
         \/ \E h \in Hours : Mark(j, h) \/ MarkError(j, h)
  PROVE  TurnsInv'
<1>1. hour' = hour
  BY DEF UploadError, Exit, JobFails, Mark, MarkError
<1>2. /\ pc \in [Jobs -> {"idle", "train", "upload", "metadata", "mark"}]
      /\ batch \in [Jobs -> SUBSET Hours]
      /\ notes \in [Hours -> Note \union {None}]
  BY DEF IInv, TypeOK
<1>3. ASSUME Finish(j)
      PROVE  /\ IdleEmpty'
             /\ \A k \in Jobs : pc'[k] = "upload" => pc[k] = "upload" /\ batch'[k] = batch[k]
                                                     /\ base'[k] = base[k]
  <2>1. /\ \A i \in Jobs : i # j => pc'[i] = pc[i] /\ batch'[i] = batch[i] /\ base'[i] = base[i]
        /\ pc'[j] = "idle" /\ batch'[j] = {}
    BY <1>3, FinishType DEF IInv
  <2> QED  BY <2>1 DEF TurnsInv, IdleEmpty
<1>4. ASSUME NEW h \in Hours, h \in batch[j],
             notes' \in {notes, [notes EXCEPT ![h].trained = TRUE]}
      PROVE  NotesPast' /\ \A i \in Hours : i # h => notes'[i] = notes[i]
  <2>1. \A i \in Hours : i # h => notes'[i] = notes[i]
    BY <1>2, <1>4
  <2>2. ~(h > hour)
    BY <1>4 DEF TurnsInv, NotesPast, IInv, BatchInv
  <2> QED  BY <1>1, <2>1, <2>2 DEF TurnsInv, NotesPast
<1>5. CASE UploadError(j) \/ JobFails(j)
  <2>1. Finish(j) /\ notes' = notes /\ faults' = faults + 1
    BY <1>5 DEF UploadError, JobFails, Fault
  <2>2. model' = model \/ (pc[j] = "upload" /\ model' = base[j])
    BY <1>5 DEF UploadError, JobFails, StoreModel, published
  <2>3. NotesPast'
    BY <1>1, <2>1 DEF TurnsInv, NotesPast
  <2>4. TurnsLeft'
    BY <1>3, <2>1, <2>2, FaultStep DEF TurnsInv
  <2> QED  BY <1>3, <2>1, <2>3, <2>4 DEF TurnsInv
<1>6. CASE Exit(j)
  <2>1. Finish(j) /\ pc[j] = "mark" /\ batch[j] = {} /\ UNCHANGED <<notes, model, faults>>
    BY <1>6 DEF Exit, published
  <2>2. NotesPast'
    BY <1>1, <2>1 DEF TurnsInv, NotesPast
  <2>3. \A i \in Jobs : batch'[i] = batch[i] /\ (i # j => pc'[i] = pc[i])
    BY <2>1, FinishType DEF IInv
  <2>4. \A h \in Hours : Turns(h)' \subseteq Turns(h)
    BY <2>1, <2>3 DEF Turns
  <2>5. TurnsLeft'
    BY <1>3, <2>1, <2>4, QuietStep DEF TurnsInv
  <2> QED  BY <1>3, <2>1, <2>2, <2>5 DEF TurnsInv
<1>7. ASSUME NEW h \in Hours, Mark(j, h) PROVE TurnsInv'
  <2>1. /\ pc[j] = "mark" /\ h \in batch[j] /\ UNCHANGED <<model, faults, pc, base>>
        /\ notes' = [notes EXCEPT ![h].trained = TRUE]
        /\ batch' = [batch EXCEPT ![j] = @ \ {h}]
    BY <1>7 DEF Mark, published
  <2>2. \A k \in Jobs : batch'[k] = IF k = j THEN batch[j] \ {h} ELSE batch[k]
    BY <1>2, <2>1
  <2>3. NotesPast' /\ \A i \in Hours : i # h => notes'[i] = notes[i]
    BY <1>4, <2>1
  <2>4. notes'[h] # None /\ notes'[h].trained
    <3>1. notes[h] \in Note
      BY <1>2, <2>1 DEF IInv, BatchInv
    <3>2. notes'[h] = [notes[h] EXCEPT !.trained = TRUE]
      BY <1>2, <2>1
    <3>3. [notes[h] EXCEPT !.trained = TRUE] \in Note /\ [notes[h] EXCEPT !.trained = TRUE].trained
      BY <3>1 DEF Note
    <3> QED  BY <3>2, <3>3, NoneAssumption DEF Note
  <2>5. IdleEmpty'
    BY <2>1, <2>2 DEF TurnsInv, IdleEmpty
  <2>6. \A i \in Hours : Turns(i)' \subseteq Turns(i)
    BY <2>1, <2>2, <2>3, <2>4 DEF Turns
  <2>7. TurnsLeft'
    BY <2>1, <2>2, <2>6, QuietStep DEF TurnsInv
  <2> QED  BY <2>3, <2>5, <2>7 DEF TurnsInv
<1>8. ASSUME NEW h \in Hours, MarkError(j, h) PROVE TurnsInv'
  <2>1. h \in batch[j] /\ model' = model /\ faults' = faults + 1 /\ Finish(j)
        /\ notes' \in {notes, [notes EXCEPT ![h].trained = TRUE]}
    BY <1>8 DEF MarkError, Fault, published
  <2>2. NotesPast'
    BY <1>4, <2>1
  <2>3. TurnsLeft'
    BY <1>3, <2>1, FaultStep DEF TurnsInv
  <2> QED  BY <1>3, <2>1, <2>2, <2>3 DEF TurnsInv
<1> QED  BY <1>5, <1>6, <1>7, <1>8

-----------------------------------------------------------------------------
(* ReuseNeedsFault without overlapping jobs.                               *)

\* While one job is at work the others have nothing in hand.
LEMMA OthersIdle ==
  ASSUME TurnsInv, OneAtATime, ~overlap, NEW j \in Jobs, pc[j] # "idle"
  PROVE  \A k \in Jobs : k # j => pc[k] = "idle" /\ batch[k] = {}
  BY DEF OneAtATime, TurnsInv, IdleEmpty

\* Learnings and failures are counted.
LEMMA Learnings ==
  ASSUME IInv
  PROVE  /\ faults \in Nat
         /\ \A h \in Hours : model[h] \in Nat
         /\ \A j \in Jobs : \A h \in Hours : base[j][h] \in Nat
  BY DEF IInv, TypeOK, Models

\* What an upload of a lone job stores: a note of its batch was due.
LEMMA LoneUpload ==
  ASSUME IInv, TurnsInv, OneAtATime, ~overlap, NEW j \in Jobs, pc[j] = "upload", NEW h \in Hours
  PROVE  base[j][h] <= (IF ~Due(h) \/ h \in batch[j] THEN 1 ELSE 0) + faults
<1>1. base[j][h] <= model[h] + (IF h \in batch[j] THEN 1 ELSE 0)
  BY DEF OneAtATime
<1>2. model[h] <= (IF Due(h) THEN 0 ELSE 1) + faults
  BY DEF OneAtATime
<1>3. h \in batch[j] => Due(h)
  BY OthersIdle DEF OneAtATime, Due
<1>4. base[j][h] \in Nat /\ model[h] \in Nat /\ faults \in Nat
  BY Learnings
<1>5. CASE h \in batch[j]
  BY <1>1, <1>2, <1>3, <1>4, <1>5
<1>6. CASE h \notin batch[j] /\ Due(h)
  BY <1>1, <1>2, <1>4, <1>6
<1>7. CASE h \notin batch[j] /\ ~Due(h)
  BY <1>1, <1>2, <1>4, <1>7
<1> QED  BY <1>5, <1>6, <1>7

\* A step without a mishap after which no more notes are due.
LEMMA LoneQuiet ==
  ASSUME IInv, OneAtATime, UNCHANGED <<model, faults>>,
         ~overlap' =>
           /\ ~overlap
           /\ \A i, j \in Jobs : pc'[i] # "idle" /\ pc'[j] # "idle" => i = j
           /\ \A j \in Jobs : pc'[j] \in {"train", "upload"} =>
                \A h \in batch'[j] : ~notes'[h].trained
           /\ \A j \in Jobs : pc'[j] = "upload" =>
                \A h \in Hours : base'[j][h] <= model[h] + (IF h \in batch'[j] THEN 1 ELSE 0)
           /\ \A h \in Hours : Due(h)' => Due(h)
  PROVE  OneAtATime'
<1>1. SUFFICES ASSUME ~overlap'
               PROVE  \A h \in Hours : model'[h] <= (IF Due(h)' THEN 0 ELSE 1) + faults'
  BY DEF OneAtATime
<1>2. SUFFICES ASSUME NEW h \in Hours
               PROVE  model[h] <= (IF Due(h)' THEN 0 ELSE 1) + faults
  OBVIOUS
<1>3. model[h] <= (IF Due(h) THEN 0 ELSE 1) + faults
  BY <1>1 DEF OneAtATime
<1>4. Due(h)' => Due(h)
  BY <1>1
<1>5. model[h] \in Nat /\ faults \in Nat
  BY Learnings
<1>6. CASE Due(h)
  BY <1>3, <1>5, <1>6
<1>7. CASE ~Due(h)
  BY <1>3, <1>4, <1>5, <1>7
<1> QED  BY <1>6, <1>7

\* A mishap, with or without an upload: every note may be learned once more.
LEMMA LoneFault ==
  ASSUME IInv, TurnsInv, OneAtATime, faults' = faults + 1, overlap' = overlap,
         model' = model \/ \E j \in Jobs : pc[j] = "upload" /\ model' = base[j],
         ~overlap =>
           /\ \A i, j \in Jobs : pc'[i] # "idle" /\ pc'[j] # "idle" => i = j
           /\ \A j \in Jobs : pc'[j] \in {"train", "upload"} =>
                \A h \in batch'[j] : ~notes'[h].trained
           /\ \A j \in Jobs : pc'[j] = "upload" =>
                \A h \in Hours : base'[j][h] <= model'[h] + (IF h \in batch'[j] THEN 1 ELSE 0)
  PROVE  OneAtATime'
<1>1. SUFFICES ASSUME ~overlap, NEW h \in Hours PROVE model'[h] <= faults'
  BY Learnings DEF OneAtATime
<1>2. CASE model' = model
  BY <1>1, <1>2, Learnings DEF OneAtATime
<1>3. ASSUME NEW j \in Jobs, pc[j] = "upload", model' = base[j] PROVE model'[h] <= faults'
  <2>1. base[j][h] <= (IF ~Due(h) \/ h \in batch[j] THEN 1 ELSE 0) + faults
    BY <1>1, <1>3, LoneUpload
  <2> QED  BY <1>3, <2>1, Learnings
<1> QED  BY <1>2, <1>3

\* At the start no note was learned, and no job is at work.
LEMMA LoneInit == Init => OneAtATime
<1> SUFFICES ASSUME Init PROVE OneAtATime
  OBVIOUS
<1>1. \A h \in Hours : Due(h) /\ model[h] = 0
  BY DEF Init, Due, Untaught
<1> QED  BY <1>1 DEF Init, OneAtATime

\* The checks of an hour and the loads.
LEMMA LoneCheck ==
  ASSUME IInv, TurnsInv, OneAtATime,
         CheckHour \/ CheckAgain \/ Load \/ LoadError \/ UNCHANGED vars
  PROVE  OneAtATime'
<1>1. UNCHANGED <<model, pc, batch, base, overlap>>
  BY DEF CheckHour, CheckAgain, Load, LoadMetadata, LoadModel, LoadError, vars, published, jobs
<1>2. notes \in [Hours -> Note \union {None}] /\ batch \in [Jobs -> SUBSET Hours]
  BY DEF IInv, TypeOK
<1>3. CASE CheckHour
  <2>1. hour + 1 \in Hours /\ faults' = faults /\ notes[hour + 1] = None
    <3>1. hour \in Hours \union {0}
      BY DEF IInv, TypeOK
    <3> QED  BY <1>3, <3>1 DEF CheckHour, TurnsInv, NotesPast
  <2>2. \A i \in Hours : i # hour + 1 => notes'[i] = notes[i]
    BY <1>2, <1>3 DEF CheckHour, Put
  <2>3. \A j \in Jobs : hour + 1 \notin batch[j]
    BY <2>1 DEF IInv, BatchInv
  <2>4. \A j \in Jobs : \A h \in batch[j] : notes'[h] = notes[h]
    BY <1>2, <2>2, <2>3
  <2>5. \A h \in Hours : Due(h)' => Due(h)
    BY <1>1, <2>1, <2>2 DEF Due
  <2> QED  BY <1>1, <2>1, <2>4, <2>5, LoneQuiet DEF OneAtATime
<1>4. CASE CheckAgain
  <2>1. hour \in Hours /\ faults' = faults + 1
    BY <1>4 DEF CheckAgain, Fault
  <2>2. /\ \A i \in Hours : i # hour => notes'[i] = notes[i]
        /\ ~notes'[hour].trained
    BY <1>2, <1>4, <2>1 DEF CheckAgain, Put
  <2>3. \A j \in Jobs : \A h \in batch[j] : ~notes[h].trained => ~notes'[h].trained
    BY <1>2, <2>2
  <2> QED  BY <1>1, <2>1, <2>3, LoneFault DEF OneAtATime
<1>5. CASE LoadError
  BY <1>1, <1>5, LoneFault DEF LoadError, Fault, OneAtATime
<1>6. CASE Load \/ UNCHANGED vars
  <2>1. UNCHANGED <<notes, faults>>
    BY <1>6 DEF Load, LoadMetadata, LoadModel, vars
  <2>2. \A h \in Hours : Due(h)' => Due(h)
    BY <1>1, <2>1 DEF Due
  <2> QED  BY <1>1, <2>1, <2>2, LoneQuiet DEF OneAtATime
<1> QED  BY <1>3, <1>4, <1>5, <1>6

\* A scan: a job that begins alone finds the batches of all others empty.
LEMMA LoneScan ==
  ASSUME IInv, TurnsInv, OneAtATime, NEW j \in Jobs, NEW f \in BOOLEAN, Scan(j, f)
  PROVE  OneAtATime'
<1>1. /\ pc[j] = "idle" /\ UNCHANGED <<notes, model, base, faults>>
      /\ pc' = [pc EXCEPT ![j] = "train"]
      /\ batch' = [batch EXCEPT ![j] = Usable(Untrained)]
      /\ overlap' = (overlap \/ \E other \in Jobs : pc[other] # "idle")
  BY DEF Scan, Goto, published
<1>2. /\ pc \in [Jobs -> {"idle", "train", "upload", "metadata", "mark"}]
      /\ batch \in [Jobs -> SUBSET Hours]
  BY DEF IInv, TypeOK
<1>3. \A k \in Jobs : /\ pc'[k] = IF k = j THEN "train" ELSE pc[k]
                      /\ batch'[k] = IF k = j THEN Usable(Untrained) ELSE batch[k]
  BY <1>1, <1>2
<1>4. ASSUME ~overlap' PROVE \A k \in Jobs : pc[k] = "idle" /\ batch[k] = {}
  BY <1>1, <1>4 DEF TurnsInv, IdleEmpty
<1>5. \A h \in Usable(Untrained) : ~notes'[h].trained
  BY <1>1 DEF Usable, Untrained
<1>6. ~overlap' => \A h \in Hours : Due(h)' => Due(h)
  BY <1>1, <1>4 DEF Due
<1>7. ASSUME ~overlap'
      PROVE  /\ ~overlap
             /\ \A i, k \in Jobs : pc'[i] # "idle" /\ pc'[k] # "idle" => i = k
             /\ \A k \in Jobs : pc'[k] \in {"train", "upload"} => k = j
             /\ \A k \in Jobs : pc'[k] # "upload"
  <2>1. ~overlap
    BY <1>1, <1>7 DEF IInv, TypeOK
  <2>2. pc'[j] = "train" /\ \A k \in Jobs : k # j => pc'[k] = "idle"
    BY <1>3, <1>4, <1>7
  <2> QED  BY <2>1, <2>2
<1>8. batch'[j] = Usable(Untrained)
  BY <1>3
<1> QED  BY <1>1, <1>5, <1>6, <1>7, <1>8, LoneQuiet

\* A job up to the end of its uploads.
LEMMA LoneTrain ==
  ASSUME IInv, TurnsInv, OneAtATime, NEW j \in Jobs,
         Train(j) \/ UploadModel(j) \/ UploadMetadata(j)
  PROVE  OneAtATime'
<1>1. UNCHANGED <<notes, batch, overlap, faults>>
  BY DEF Train, UploadModel, UploadMetadata
<1>2. /\ pc \in [Jobs -> {"idle", "train", "upload", "metadata", "mark"}]
      /\ base \in [Jobs -> Models]
  BY DEF IInv, TypeOK
<1>3. pc[j] \in {"train", "upload", "metadata"}
  BY DEF Train, UploadModel, UploadMetadata
<1>4. \A k \in Jobs : k # j => pc'[k] = pc[k]
  BY <1>2 DEF Train, UploadModel, UploadMetadata, Goto
<1>5. ASSUME ~overlap PROVE \A k \in Jobs : k # j => pc'[k] = "idle" /\ batch[k] = {}
  BY <1>3, <1>4, <1>5, OthersIdle
<1>6. CASE Train(j)
  <2>1. /\ pc[j] = "train" /\ pc'[j] = "upload" /\ model' = model
        /\ \A h \in Hours : base'[j][h] = model[h] + (IF h \in batch[j] THEN 1 ELSE 0)
    BY <1>2, <1>6 DEF Train, Goto, published
  <2>2. ASSUME NEW h \in Hours
        PROVE  base'[j][h] <= model[h] + (IF h \in batch[j] THEN 1 ELSE 0)
    <3>1. model[h] \in Nat
      BY Learnings
    <3>2. base'[j][h] = model[h] + (IF h \in batch[j] THEN 1 ELSE 0)
      BY <2>1
    <3>3. CASE h \in batch[j]
      BY <3>1, <3>2, <3>3
    <3>4. CASE h \notin batch[j]
      BY <3>1, <3>2, <3>4
    <3> QED  BY <3>3, <3>4
  <2>3. \A h \in Hours : Due(h)' => Due(h)
    BY <1>1, <1>4, <2>1 DEF Due
  <2>4. ~overlap => \A h \in batch[j] : ~notes[h].trained
    BY <2>1 DEF OneAtATime
  <2> QED  BY <1>1, <1>5, <2>1, <2>2, <2>3, <2>4, LoneQuiet
<1>7. CASE UploadModel(j) /\ UploadEnabled
  <2>1. pc[j] = "upload" /\ pc'[j] = "metadata" /\ model' = base[j]
    BY <1>2, <1>7 DEF UploadModel, StoreModel, Goto
  <2>2. SUFFICES ASSUME ~overlap, NEW h \in Hours
                 PROVE  base[j][h] <= (IF Due(h)' THEN 0 ELSE 1) + faults
    BY <1>1, <1>5, <2>1 DEF OneAtATime
  <2>3. base[j][h] <= (IF ~Due(h) \/ h \in batch[j] THEN 1 ELSE 0) + faults
    BY <2>1, <2>2, LoneUpload
  <2>4. Due(h)' => Due(h) /\ h \notin batch[j]
    BY <1>1, <1>4, <2>1 DEF Due
  <2> QED  BY <2>3, <2>4, Learnings
<1>8. CASE (UploadModel(j) /\ ~UploadEnabled) \/ UploadMetadata(j)
  <2>1. model' = model /\ pc'[j] \in {"metadata", "mark"}
    BY <1>2, <1>8 DEF UploadModel, UploadMetadata, Goto
  <2>2. \A h \in Hours : Due(h)' => Due(h)
    BY <1>1, <1>4, <2>1 DEF Due
  <2> QED  BY <1>1, <1>5, <2>1, <2>2, LoneQuiet
<1> QED  BY <1>6, <1>7, <1>8

\* A job that marks a note or ends.
LEMMA LoneMark ==
  ASSUME IInv, TurnsInv, OneAtATime, NEW j \in Jobs,
         \/ UploadError(j) \/ Exit(j) \/ JobFails(j)
         \/ \E h \in Hours : Mark(j, h) \/ MarkError(j, h)
  PROVE  OneAtATime'
<1>1. overlap' = overlap /\ pc[j] # "idle"
  BY DEF UploadError, Exit, JobFails, Mark, MarkError, Finish
<1>2. /\ pc \in [Jobs -> {"idle", "train", "upload", "metadata", "mark"}]
      /\ batch \in [Jobs -> SUBSET Hours]
      /\ notes \in [Hours -> Note \union {None}]
  BY DEF IInv, TypeOK
<1>3. ASSUME ~overlap PROVE \A k \in Jobs : k # j => pc[k] = "idle" /\ batch[k] = {}
  BY <1>1, <1>3, OthersIdle
<1>4. ASSUME Finish(j)
      PROVE  /\ ~overlap => \A k \in Jobs : pc'[k] = "idle"
             /\ batch'[j] = {} /\ \A k \in Jobs : k # j => batch'[k] = batch[k]
  BY <1>3, <1>4, FinishType DEF IInv
<1>5. CASE UploadError(j) \/ JobFails(j) \/ \E h \in Hours : MarkError(j, h)
  <2>1. Finish(j) /\ faults' = faults + 1
    BY <1>5 DEF UploadError, JobFails, MarkError, Fault
  <2>2. model' = model \/ (pc[j] = "upload" /\ model' = base[j])
    BY <1>5 DEF UploadError, JobFails, MarkError, StoreModel, published
  <2> QED  BY <1>1, <1>4, <2>1, <2>2, LoneFault
<1>6. CASE Exit(j)
  <2>1. Finish(j) /\ batch[j] = {} /\ UNCHANGED <<notes, model, faults>>
    BY <1>6 DEF Exit, published
  <2>2. ASSUME ~overlap, NEW h \in Hours, Due(h)' PROVE Due(h)
    BY <1>3, <2>1, <2>2 DEF Due
  <2> QED  BY <1>1, <1>4, <2>1, <2>2, LoneQuiet
<1>7. ASSUME NEW h \in Hours, Mark(j, h) PROVE OneAtATime'
  <2>1. /\ pc[j] = "mark" /\ h \in batch[j] /\ UNCHANGED <<model, faults, pc, base>>
        /\ notes' = [notes EXCEPT ![h].trained = TRUE]
        /\ batch' = [batch EXCEPT ![j] = @ \ {h}]
    BY <1>7 DEF Mark, published
  <2>2. \A k \in Jobs : batch'[k] = IF k = j THEN batch[j] \ {h} ELSE batch[k]
    BY <1>2, <2>1
  <2>3. \A i \in Hours : i # h => notes'[i] = notes[i]
    BY <1>2, <2>1
  <2>4. notes'[h] # None /\ notes'[h].trained
    <3>1. notes[h] \in Note
      BY <1>2, <2>1 DEF IInv, BatchInv
    <3>2. notes'[h] = [notes[h] EXCEPT !.trained = TRUE]
      BY <1>2, <2>1
    <3>3. [notes[h] EXCEPT !.trained = TRUE] \in Note /\ [notes[h] EXCEPT !.trained = TRUE].trained
      BY <3>1 DEF Note
    <3> QED  BY <3>2, <3>3, NoneAssumption DEF Note
  <2>5. \A i \in Hours : Due(i)' => Due(i)
    BY <2>1, <2>2, <2>3, <2>4 DEF Due
  <2>6. ~overlap => \A k \in Jobs : k # j => pc'[k] = "idle"
    BY <1>3, <2>1
  <2> QED  BY <1>1, <2>1, <2>5, <2>6, LoneQuiet
<1> QED  BY <1>5, <1>6, <1>7

\* ReuseNeedsFault: filter_untrained finds no note that an upload was followed
\* by its mark, so jobs that do not overlap learn a note once, and once more per
\* mishap; of jobs that overlap each does.
THEOREM ReuseIsPaidFor == Spec => []ReuseNeedsFault
<1>1. Init => ReuseInv
  BY TurnsInit, LoneInit DEF ReuseInv
<1>2. IInv /\ ReuseInv /\ [Next]_vars => ReuseInv'
  <2> SUFFICES ASSUME IInv, TurnsInv, OneAtATime, [Next]_vars PROVE TurnsInv' /\ OneAtATime'
    BY DEF ReuseInv
  <2>1. ASSUME NEW j \in Jobs, Work(j) PROVE TurnsInv' /\ OneAtATime'
    BY <2>1, TurnsTrain, TurnsMark, LoneScan, LoneTrain, LoneMark DEF Work
  <2> QED  BY <2>1, TurnsCheck, LoneCheck DEF Next
<1>3. IInv /\ ReuseInv => ReuseNeedsFault
  <2> SUFFICES ASSUME IInv, ReuseInv, NEW h \in Hours
               PROVE  model[h] <= (IF overlap THEN Cardinality(Jobs) ELSE 1) * (1 + faults)
    BY DEF ReuseNeedsFault
  <2>1. CASE overlap
    <3>1. Turns(h) \in SUBSET Jobs /\ model[h] \in Nat /\ faults \in Nat
      BY Learnings DEF Turns
    <3>2. Cardinality(Turns(h)) \in Nat /\ Limit \in Nat
      BY <3>1, JobSets, Limits
    <3>3. model[h] + Cardinality(Turns(h)) <= Limit
      BY DEF ReuseInv, TurnsInv, TurnsLeft
    <3>4. model[h] <= Limit
      BY <3>1, <3>2, <3>3
    <3> QED  BY <2>1, <3>4 DEF Limit
  <2>2. CASE ~overlap
    <3>1. model[h] <= (IF Due(h) THEN 0 ELSE 1) + faults
      BY <2>2 DEF ReuseInv, OneAtATime
    <3>2. model[h] <= 1 + faults /\ 1 * (1 + faults) = 1 + faults
      BY <3>1, Learnings
    <3> QED  BY <2>2, <3>2
  <2> QED  BY <2>1, <2>2
<1> QED  BY <1>1, <1>2, <1>3, Invariance, PTL DEF Spec
==============================================================================
