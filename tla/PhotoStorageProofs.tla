-------------------------- MODULE PhotoStorageProofs --------------------------
(***************************************************************************)
(* For any photos, workers, requests and faults: the bucket takes part in  *)
(* the runs of ProcessingWorker without changing them, accepted photos     *)
(* keep their originals, recorded keys lead to objects, and, as long as    *)
(* the API has no faults, no original outlives its row.                    *)
(***************************************************************************)
EXTENDS PhotoStorage, ProcessingWorkerProofs

(* The types of what the bucket's module adds.                             *)
BucketTypeOK ==
  /\ objects \subseteq Image \X ObjectName
  /\ recorded \in [Image -> BOOLEAN]
  /\ post \in [Image -> PostState]
  /\ removal \in [Request -> Removals \cup {NoRemoval}]
  /\ done \in [Worker -> [Image -> SUBSET ObjectName]]
  /\ apiFaults \in 0 .. MaxApiFaults

(* Requests keep their types.                                              *)
LEMMA RequestStepType ==
  ASSUME BucketTypeOK,
         \/ \E i \in Image : UploadStep(i)
         \/ \E r \in Request : RemovalStep(r)
         \/ ApiCrash
  PROVE  BucketTypeOK'
<1> USE ApiFaultsAreBounded DEF BucketTypeOK, ApiFault, Objects, PutObject, PostState, ObjectName
<1>1. ASSUME NEW i \in Image, UploadStep(i)
      PROVE  BucketTypeOK'
  BY <1>1 DEF UploadStep, PutOriginal, PutOriginalErrs, InsertRow, InsertErrs,
              CleanUpload, CleanUploadErrs, PostGoes
<1>2. ASSUME NEW r \in Request, NEW i \in Image, FindKeys(r, i)
      PROVE  BucketTypeOK'
  BY <1>2 DEF FindKeys, RemovalGoes, KeysOf, Derivatives, Removals
<1>3. ASSUME NEW r \in Request, RemoveRow(r)
      PROVE  BucketTypeOK'
  <2>1. removal[r] \in Removals
    BY <1>3 DEF RemoveRow, NoRemoval
  <2>2. [removal[r] EXCEPT !.step = "objects"] \in Removals
    BY <2>1 DEF Removals
  <2> QED
    BY <1>3, <2>2 DEF RemoveRow, RemovalGoes
<1>4. ASSUME NEW r \in Request, RemoveRowErrs(r) \/ DeleteObjects(r) \/ DeleteObjectsErrs(r)
      PROVE  BucketTypeOK'
  BY <1>4 DEF RemoveRowErrs, DeleteObjects, DeleteObjectsErrs, RemovalGoes
<1>5. CASE ApiCrash
  BY <1>5 DEF ApiCrash
<1> QED
  BY <1>1, <1>2, <1>3, <1>4, <1>5 DEF RemovalStep

(* So do the workers.                                                      *)
LEMMA StoredWorkType ==
  ASSUME BucketTypeOK,
         \/ \E i \in Image : LockExpires(i)
         \/ \E w \in Worker : LoopMovesOn(w) \/ WorkerCrash(w)
         \/ \E w \in Worker, i \in Image : StoredJobStep(w, i)
  PROVE  BucketTypeOK'
<1> USE DEF BucketTypeOK, apiVars
<1>1. CASE \/ \E i \in Image : LockExpires(i)
           \/ \E w \in Worker : LoopMovesOn(w)
           \/ \E w \in Worker, i \in Image : JobMovesOn(w, i)
  BY <1>1 DEF LockExpires, LoopMovesOn, JobMovesOn
<1>2. ASSUME NEW w \in Worker, WorkerCrash(w)
      PROVE  BucketTypeOK'
  BY <1>2 DEF WorkerCrash
<1>3. ASSUME NEW w \in Worker, NEW i \in Image,
             Download(w, i) \/ \E n \in Derivatives : PutDerivative(w, i, n)
      PROVE  BucketTypeOK'
  <2>1. PICK n \in ObjectName :
          /\ JobDone(w, i, n)
          /\ objects' = objects \/ objects' = objects \cup {<<i, n>>}
          /\ UNCHANGED <<recorded, post, removal, apiFaults>>
    BY <1>3 DEF Download, PutDerivative, PutObject, Objects, Derivatives, ObjectName
  <2>2. done' \in [Worker -> [Image -> SUBSET ObjectName]]
    BY <2>1 DEF JobDone
  <2>3. objects' \subseteq Image \X ObjectName
    BY <2>1
  <2> QED
    BY <2>1, <2>2, <2>3
<1>4. ASSUME NEW w \in Worker, NEW i \in Image, ProcessStored(w, i) \/ GiveUp(w, i)
      PROVE  BucketTypeOK'
  BY <1>4 DEF ProcessStored, GiveUp, Forget
<1>5. ASSUME NEW w \in Worker, NEW i \in Image, RecordVerdict(w, i)
      PROVE  BucketTypeOK'
  BY <1>5 DEF RecordVerdict, IsDecoded
<1> QED
  BY <1>1, <1>2, <1>3, <1>4, <1>5 DEF StoredJobStep

(* Nobody else steps.                                                      *)
LEMMA BucketTypeStep == BucketTypeOK /\ [StorageNext]_storageVars => BucketTypeOK'
<1>1. ASSUME BucketTypeOK, UNCHANGED storageVars
      PROVE  BucketTypeOK'
  BY <1>1 DEF storageVars, BucketTypeOK
<1> QED
  BY <1>1, RequestStepType, StoredWorkType DEF StorageNext

(* The bucket starts empty.                                                *)
LEMMA BucketTypeInit == StorageInit => BucketTypeOK
BY ApiFaultsAreBounded DEF StorageInit, BucketTypeOK, PostState

-----------------------------------------------------------------------------
(* Without the bucket each step is one of the workers and users, or none.  *)
LEMMA StorageStepsAreSteps ==
  ASSUME BucketTypeOK, [StorageNext]_storageVars
  PROVE  [Next]_vars
<1>1. CASE UNCHANGED storageVars
  BY <1>1 DEF storageVars, vars
<1>2. ASSUME NEW i \in Image, UploadStep(i)
      PROVE  Upload(i) \/ UNCHANGED vars
  BY <1>2 DEF UploadStep, PutOriginal, PutOriginalErrs, InsertRow, InsertErrs,
              CleanUpload, CleanUploadErrs
<1>3. ASSUME NEW i \in Image, LockExpires(i)
      PROVE  TimePasses(i)
  BY <1>3 DEF LockExpires
<1>4. ASSUME NEW r \in Request, RemovalStep(r)
      PROVE  (\E i \in Image : Delete(i)) \/ UNCHANGED vars
  <2>1. removal[r].step = "remove" => removal[r].image \in Image
    BY DEF BucketTypeOK, Removals, NoRemoval
  <2> QED
    BY <1>4, <2>1 DEF RemovalStep, FindKeys, RemoveRow, RemoveRowErrs, RemoveIfThere,
                      DeleteObjects, DeleteObjectsErrs
<1>5. CASE ApiCrash
  BY <1>5 DEF ApiCrash
<1>6. ASSUME NEW w \in Worker, LoopMovesOn(w) \/ WorkerCrash(w)
      PROVE  LoopStep(w) \/ LoopFault(w) \/ Start(w) \/ Stop(w)
  BY <1>6 DEF LoopMovesOn, WorkerCrash, LoopFault
<1>7. ASSUME NEW w \in Worker, NEW i \in Image, StoredJobStep(w, i)
      PROVE  JobStep(w, i) \/ JobFault(w, i) \/ UNCHANGED vars
  BY <1>7 DEF StoredJobStep, Download, PutDerivative, ProcessStored, GiveUp,
              RecordVerdict, VerdictStep, JobMovesOn, JobStep, JobFault
<1> QED
  BY <1>1, <1>2, <1>3, <1>4, <1>5, <1>6, <1>7 DEF StorageNext, Next

(* What is proved of the queue and its workers holds with the bucket in    *)
(* place, with uploads and deletes that are several calls each, that fail  *)
(* half-way and that crash.                                                *)
THEOREM StorageImplementsWorkers == StorageSpec => Spec
<1>1. StorageInit => Init
  BY DEF StorageInit
<1> QED
  BY <1>1, BucketTypeInit, BucketTypeStep, StorageStepsAreSteps, PTL DEF StorageSpec, Spec

-----------------------------------------------------------------------------
(* How rows come and go. *)

(* No statement of the workers inserts a row or deletes one.               *)
WorkKeepsRows == /\ rows' = rows
                 /\ \A i \in Image : status'[i] = "NONE" <=> status[i] = "NONE"

(* A fenced UPDATE is of a row that is there.                              *)
LEMMA UpdateKeepsRows ==
  ASSUME TypeOK, RowsStartFresh, NEW i \in Image, NEW t, NEW s, NEW why, s # "NONE",
         UpdateOwned(i, t, s, why)
  PROVE  WorkKeepsRows
BY DEF UpdateOwned, OwnedBy, tableVars, WorkKeepsRows, TypeOK, TableTypeOK

(* So are the statements of a job.                                         *)
LEMMA JobKeepsRows ==
  ASSUME TypeOK, RowsStartFresh, NEW w \in Worker, NEW i \in Image,
         JobStep(w, i) \/ JobFault(w, i)
  PROVE  WorkKeepsRows
<1>1. CASE UNCHANGED tableVars
  BY <1>1 DEF tableVars, WorkKeepsRows
<1>2. CASE Reject(i, token[w][i], Findings[i]) \/ FinalizeVerdict(w, i)
  BY <1>2, UpdateKeepsRows DEF Reject, Accept, FinalizeVerdict
<1>3. CASE ReleaseForRetry(i, token[w][i])
  <2>1. (IF token[w][i] >= MaxAttempts THEN "FAILED" ELSE "PENDING") # "NONE"
    OBVIOUS
  <2> QED
    BY <1>3, <2>1, UpdateKeepsRows DEF ReleaseForRetry
<1> QED
  BY <1>1, <1>2, <1>3
     DEF JobStep, JobFault, Process, ProcessingFails, RejectJob, RejectErrs, LockUser,
         FindDuplicate, Commit, CommitReplyLost, TransactionErrs, Release, ReleaseErrs

(* Claims and failures are of rows that wait.                              *)
LEMMA LoopKeepsRows ==
  ASSUME TypeOK, RowsStartFresh, NEW w \in Worker,
         LoopStep(w) \/ LoopFault(w) \/ Start(w) \/ Stop(w)
  PROVE  WorkKeepsRows
<1>1. CASE UNCHANGED tableVars
  BY <1>1 DEF tableVars, WorkKeepsRows
<1>2. CASE FailExhausted
  BY <1>2 DEF FailExhausted, Exhausted, AwaitingWorker, WorkKeepsRows, TypeOK, TableTypeOK
<1>3. ASSUME NEW skipped, ClaimBatch(Batch(skipped))
      PROVE  WorkKeepsRows
  <2>1. \A i \in Batch(skipped) : i \in Image /\ status[i] # "NONE"
    BY BatchIsClaimable DEF Claimable, AwaitingWorker
  <2> QED
    BY <1>3, <2>1 DEF ClaimBatch, WorkKeepsRows, TypeOK, TableTypeOK
<1> QED
  BY <1>1, <1>2, <1>3
     DEF LoopStep, LoopFault, RunFailExhausted, Claim, BatchSettles, Wake, Start, Stop,
         FailExhaustedErrs, ClaimErrs, Crash

(* The workers' half of StorageNext.                                       *)
WorkStep == \/ \E i \in Image : LockExpires(i)
            \/ \E w \in Worker : LoopMovesOn(w) \/ WorkerCrash(w)
            \/ \E w \in Worker, i \in Image : StoredJobStep(w, i)

(* So no step of a worker, and no lock that expires, adds or takes a row.  *)
LEMMA WorkStepKeepsRows ==
  ASSUME TypeOK, RowsStartFresh, WorkStep
  PROVE  WorkKeepsRows
<1>1. CASE UNCHANGED vars
  BY <1>1 DEF vars, WorkKeepsRows
<1>2. ASSUME NEW i \in Image, LockExpires(i)
      PROVE  WorkKeepsRows
  BY <1>2 DEF LockExpires, TimePasses, LockGoesStale, WorkKeepsRows
<1>3. ASSUME NEW w \in Worker, LoopMovesOn(w) \/ WorkerCrash(w)
      PROVE  WorkKeepsRows
  BY <1>3, LoopKeepsRows DEF LoopMovesOn, WorkerCrash, LoopFault
<1>4. ASSUME NEW w \in Worker, NEW i \in Image, StoredJobStep(w, i)
      PROVE  WorkKeepsRows
  BY <1>1, <1>4, JobKeepsRows
     DEF StoredJobStep, Download, PutDerivative, ProcessStored, GiveUp,
         RecordVerdict, VerdictStep, JobMovesOn, JobStep, JobFault
<1> QED
  BY <1>2, <1>3, <1>4 DEF WorkStep

-----------------------------------------------------------------------------
(* Originals. *)

HasOriginal(i) == <<i, "original">> \in objects

(* A row is inserted by its own POST, which has stored the original.       *)
PostsPrecedeRows ==
  \A i \in Image : /\ post[i] \in {"none", "insert"} => status[i] = "NONE"
                   /\ post[i] = "insert" => HasOriginal(i)

(* A DELETE is of a photo that was uploaded; it comes to the objects only  *)
(* once the row is gone, which does not come back.                         *)
RemovalsFollowRows ==
  \A r \in Request : removal[r] # NoRemoval =>
    /\ removal[r].image \in Image
    /\ status[removal[r].image] # "NONE"
    /\ "original" \in removal[r].names
    /\ removal[r].step = "objects" => removal[r].image \notin rows

(* Somebody will see to it that the original gets a row or goes.           *)
IsAttended(i) == \/ post[i] = "insert"
                 \/ \E r \in Request : removal[r] # NoRemoval /\ removal[r].image = i

OriginalsAreAttended ==
  apiFaults = 0 => \A i \in Image \ rows : HasOriginal(i) => IsAttended(i)

OriginalsInv == /\ PostsPrecedeRows
                /\ AcceptedUploadsKeepTheirOriginal
                /\ RemovalsFollowRows
                /\ OriginalsAreAttended

(* At first there is nothing to miss.                                      *)
LEMMA OriginalsInit == StorageInit => OriginalsInv
BY DEF StorageInit, Init, TableInit, OriginalsInv, PostsPrecedeRows,
       AcceptedUploadsKeepTheirOriginal, RemovalsFollowRows, OriginalsAreAttended,
       HasOriginal

(* Workers touch neither requests nor originals.                           *)
LEMMA WorkKeepsOriginals ==
  ASSUME TypeOK, RowsStartFresh, BucketTypeOK, OriginalsInv, WorkStep
  PROVE  OriginalsInv'
<1>1. rows' = rows /\ \A i \in Image : status'[i] = "NONE" <=> status[i] = "NONE"
  BY WorkStepKeepsRows DEF WorkKeepsRows
<1>2. UNCHANGED <<post, removal, apiFaults>>
  BY DEF WorkStep, LockExpires, LoopMovesOn, WorkerCrash, StoredJobStep, Download,
         PutDerivative, ProcessStored, GiveUp, RecordVerdict, JobMovesOn, apiVars
<1>3. \A i \in Image : HasOriginal(i)' <=> HasOriginal(i)
  <2>1. CASE UNCHANGED objects
    BY <2>1 DEF HasOriginal
  <2>2. ASSUME NEW w \in Worker, NEW i \in Image, NEW n \in Derivatives,
               PutDerivative(w, i, n)
        PROVE  \A j \in Image : HasOriginal(j)' <=> HasOriginal(j)
    BY <2>2 DEF PutDerivative, PutObject, Objects, HasOriginal, Derivatives
  <2> QED
    BY <2>1, <2>2
       DEF WorkStep, LockExpires, LoopMovesOn, WorkerCrash, StoredJobStep, Download,
           ProcessStored, GiveUp, RecordVerdict, JobMovesOn
<1>4. PostsPrecedeRows'
  BY <1>1, <1>2, <1>3 DEF OriginalsInv, PostsPrecedeRows
<1>5. AcceptedUploadsKeepTheirOriginal'
  BY <1>1, <1>2, <1>3
     DEF OriginalsInv, AcceptedUploadsKeepTheirOriginal, HasOriginal, TypeOK, TableTypeOK
<1>6. RemovalsFollowRows'
  BY <1>1, <1>2 DEF OriginalsInv, RemovalsFollowRows
<1>7. OriginalsAreAttended'
  BY <1>1, <1>2, <1>3 DEF OriginalsInv, OriginalsAreAttended, IsAttended
<1> QED
  BY <1>4, <1>5, <1>6, <1>7 DEF OriginalsInv

(* A POST stores before it inserts, and cleans up only what it gave up.    *)
LEMMA UploadKeepsOriginals ==
  ASSUME TypeOK, RowsStartFresh, BucketTypeOK, OriginalsInv,
         NEW i \in Image, UploadStep(i)
  PROVE  OriginalsInv'
<1> USE ApiFaultsAreBounded DEF OriginalsInv, BucketTypeOK, HasOriginal, IsAttended
<1>0. /\ apiFaults' = apiFaults \/ apiFaults' # 0
      /\ UNCHANGED removal
      /\ \A j \in Image : j # i => post'[j] = post[j] /\ (HasOriginal(j)' <=> HasOriginal(j))
  BY DEF UploadStep, PutOriginal, PutOriginalErrs, InsertRow, InsertErrs,
         CleanUpload, CleanUploadErrs, ApiFault, PostGoes, PutObject, Objects
<1>1. CASE PutOriginal(i) \/ PutOriginalErrs(i)
  <2>1. /\ UNCHANGED <<rows, status>>
        /\ post[i] = "none"
        /\ \/ post'[i] = "insert" /\ HasOriginal(i)'
           \/ post'[i] = "failed" /\ apiFaults' # 0
    BY <1>1 DEF PutOriginal, PutOriginalErrs, ApiFault, PostGoes, PutObject, Objects, vars
  <2>2. i \notin rows
    BY <2>1 DEF PostsPrecedeRows, RowsStartFresh
  <2>3. PostsPrecedeRows' /\ AcceptedUploadsKeepTheirOriginal'
    BY <1>0, <2>1, <2>2 DEF PostsPrecedeRows, AcceptedUploadsKeepTheirOriginal,
                            TypeOK, TableTypeOK
  <2>4. RemovalsFollowRows'
    BY <1>0, <2>1 DEF RemovalsFollowRows
  <2>5. OriginalsAreAttended'
    BY <1>0, <2>1 DEF OriginalsAreAttended
  <2> QED
    BY <2>3, <2>4, <2>5
<1>2. CASE CleanUpload(i) \/ CleanUploadErrs(i)
  <2>1. /\ UNCHANGED <<rows, status>>
        /\ post[i] = "cleanup" /\ post'[i] = "failed"
        /\ HasOriginal(i)' => HasOriginal(i)
    BY <1>2 DEF CleanUpload, CleanUploadErrs, PostGoes, vars
  <2>2. PostsPrecedeRows' /\ AcceptedUploadsKeepTheirOriginal'
    BY <1>0, <2>1 DEF PostsPrecedeRows, AcceptedUploadsKeepTheirOriginal,
                      TypeOK, TableTypeOK
  <2>3. RemovalsFollowRows'
    BY <1>0, <2>1 DEF RemovalsFollowRows
  <2>4. OriginalsAreAttended'
    BY <1>0, <2>1 DEF OriginalsAreAttended
  <2> QED
    BY <2>2, <2>3, <2>4
<1>3. CASE InsertRow(i) \/ InsertErrs(i)
  <2>0. post[i] = "insert" /\ UNCHANGED objects
    BY <1>3 DEF InsertRow, InsertErrs
  <2>1. /\ UNCHANGED objects
        /\ HasOriginal(i) /\ status[i] = "NONE"
        /\ post'[i] = "accepted" \/ (post'[i] = "cleanup" /\ apiFaults' # 0)
        /\ \/ UNCHANGED vars /\ post'[i] = "cleanup"
           \/ Insert(i)
    <3>1. HasOriginal(i) /\ status[i] = "NONE"
      BY <2>0 DEF PostsPrecedeRows
    <3>2. CASE InsertRow(i)
      BY <2>0, <3>1, <3>2 DEF InsertRow, Upload, PostGoes
    <3>3. CASE InsertErrs(i)
      BY <2>0, <3>1, <3>3 DEF InsertErrs, Upload, ApiFault, PostGoes
    <3> QED
      BY <1>3, <3>2, <3>3
  <2>2. /\ \A j \in Image : j # i => status'[j] = status[j]
        /\ rows' = rows \/ rows' = rows \cup {i}
        /\ status[i] # "NONE" => status'[i] # "NONE"
        /\ post'[i] = "accepted" => i \in rows'
    BY <2>1 DEF Insert, vars, TypeOK, TableTypeOK
  <2>3. PostsPrecedeRows' /\ AcceptedUploadsKeepTheirOriginal'
    BY <1>0, <2>1, <2>2 DEF PostsPrecedeRows, AcceptedUploadsKeepTheirOriginal,
                            TypeOK, TableTypeOK
  <2>4. RemovalsFollowRows'
    BY <1>0, <2>1, <2>2 DEF RemovalsFollowRows
  <2>5. OriginalsAreAttended'
    BY <1>0, <2>1, <2>2 DEF OriginalsAreAttended
  <2> QED
    BY <2>3, <2>4, <2>5
<1> QED
  BY <1>1, <1>2, <1>3 DEF UploadStep

(* A DELETE takes the row before the objects.                              *)
LEMMA RemovalKeepsOriginals ==
  ASSUME TypeOK, RowsStartFresh, BucketTypeOK, OriginalsInv,
         NEW r \in Request, RemovalStep(r)
  PROVE  OriginalsInv'
<1> USE ApiFaultsAreBounded DEF OriginalsInv, BucketTypeOK, HasOriginal, IsAttended
<1>0. /\ UNCHANGED <<post, status>>
      /\ \A q \in Request : q # r => removal'[q] = removal[q]
      /\ apiFaults' = apiFaults \/ apiFaults' # 0
  BY DEF RemovalStep, FindKeys, RemoveRow, RemoveRowErrs, DeleteObjects,
         DeleteObjectsErrs, RemovalGoes, ApiFault, RemoveIfThere, Delete, Remove, vars
<1>1. ASSUME NEW i \in Image, FindKeys(r, i)
      PROVE  OriginalsInv'
  <2>1. /\ UNCHANGED <<rows, objects, apiFaults>>
        /\ status[i] # "NONE"
        /\ removal[r].step = "none"
        /\ removal'[r] = [step |-> "remove", image |-> i, names |-> KeysOf(i)]
        /\ "original" \in KeysOf(i)
    BY <1>1 DEF FindKeys, RemovalGoes, KeysOf, RowsStartFresh, vars
  <2>2. removal[r] = NoRemoval
    BY <2>1 DEF Removals
  <2>3. removal'[r] # NoRemoval
    BY <2>1 DEF NoRemoval
  <2>4. RemovalsFollowRows'
    BY <1>0, <2>1, <2>3 DEF RemovalsFollowRows
  <2>5. OriginalsAreAttended'
    BY <1>0, <2>1, <2>2 DEF OriginalsAreAttended
  <2> QED
    BY <1>0, <2>1, <2>4, <2>5 DEF PostsPrecedeRows, AcceptedUploadsKeepTheirOriginal
<1>2. CASE RemoveRow(r)
  <2>1. removal[r] # NoRemoval /\ removal[r] \in Removals
    BY <1>2 DEF RemoveRow, NoRemoval
  <2>2. /\ UNCHANGED <<objects, apiFaults>>
        /\ rows' = rows \ {removal[r].image}
        /\ removal'[r].image = removal[r].image
        /\ removal'[r].names = removal[r].names
        /\ removal'[r].step = "objects"
    BY <1>2, <2>1 DEF RemoveRow, RemoveIfThere, RemovalGoes, Delete, Remove, vars, Removals
  <2>3. removal'[r] # NoRemoval
    BY <2>2 DEF NoRemoval
  <2>4. RemovalsFollowRows'
    BY <1>0, <2>1, <2>2 DEF RemovalsFollowRows
  <2>5. ASSUME NEW i \in Image, i \notin rows', HasOriginal(i)', apiFaults' = 0
        PROVE  IsAttended(i)'
    <3>1. CASE i = removal[r].image
      BY <2>2, <2>3, <3>1
    <3>2. CASE i # removal[r].image
      BY <1>0, <2>2, <2>5, <3>2 DEF OriginalsAreAttended
    <3> QED
      BY <3>1, <3>2
  <2>6. OriginalsAreAttended'
    BY <2>5 DEF OriginalsAreAttended
  <2> QED
    BY <1>0, <2>2, <2>4, <2>6 DEF PostsPrecedeRows, AcceptedUploadsKeepTheirOriginal
<1>3. CASE RemoveRowErrs(r)
  <2>1. /\ UNCHANGED objects
        /\ rows' \subseteq rows
        /\ removal'[r] = NoRemoval
        /\ apiFaults' # 0
    BY <1>3 DEF RemoveRowErrs, RemoveIfThere, RemovalGoes, ApiFault, Delete, Remove, vars
  <2>2. RemovalsFollowRows'
    BY <1>0, <2>1 DEF RemovalsFollowRows
  <2> QED
    BY <1>0, <2>1, <2>2 DEF PostsPrecedeRows, AcceptedUploadsKeepTheirOriginal,
                            OriginalsAreAttended
<1>4. CASE DeleteObjects(r) \/ DeleteObjectsErrs(r)
  <2>1. /\ removal[r].step = "objects"
        /\ UNCHANGED rows
        /\ removal'[r] = NoRemoval
        /\ objects' \subseteq objects
        /\ \A i \in Image : i # removal[r].image => (HasOriginal(i)' <=> HasOriginal(i))
        /\ DeleteObjects(r) \/ apiFaults' # 0
    BY <1>4 DEF DeleteObjects, DeleteObjectsErrs, RemovalGoes, Objects, ApiFault, vars
  <2>2. /\ removal[r].image \notin rows
        /\ status[removal[r].image] # "NONE"
        /\ "original" \in removal[r].names
    BY <2>1 DEF RemovalsFollowRows, NoRemoval
  <2>3. DeleteObjects(r) => <<removal[r].image, "original">> \notin objects'
    BY <2>2 DEF DeleteObjects, Objects
  <2>4. PostsPrecedeRows' /\ AcceptedUploadsKeepTheirOriginal'
    BY <1>0, <2>1, <2>2 DEF PostsPrecedeRows, AcceptedUploadsKeepTheirOriginal,
                            TypeOK, TableTypeOK
  <2>5. RemovalsFollowRows'
    BY <1>0, <2>1 DEF RemovalsFollowRows
  <2>6. OriginalsAreAttended'
    BY <1>0, <2>1, <2>3 DEF OriginalsAreAttended
  <2> QED
    BY <2>4, <2>5, <2>6
<1> QED
  BY <1>1, <1>2, <1>3, <1>4 DEF RemovalStep

(* A crash of the API forgets requests and nothing else.                   *)
LEMMA OriginalsStep ==
  ASSUME TypeOK, RowsStartFresh, BucketTypeOK, OriginalsInv, [StorageNext]_storageVars
  PROVE  OriginalsInv'
<1>1. CASE UNCHANGED storageVars
  BY <1>1 DEF storageVars, OriginalsInv, PostsPrecedeRows, AcceptedUploadsKeepTheirOriginal,
              RemovalsFollowRows, OriginalsAreAttended, HasOriginal, IsAttended
<1>2. CASE ApiCrash
  <2>1. /\ UNCHANGED <<rows, status, objects>>
        /\ \A i \in Image : /\ post'[i] \notin {"insert", "cleanup"}
                            /\ post'[i] \in {"none", "accepted"} => post'[i] = post[i]
        /\ \A r \in Request : removal'[r] = NoRemoval
        /\ apiFaults' # 0
    BY <1>2, ApiFaultsAreBounded DEF ApiCrash, ApiFault, BucketTypeOK, vars
  <2> QED
    BY <2>1 DEF OriginalsInv, PostsPrecedeRows, AcceptedUploadsKeepTheirOriginal,
                RemovalsFollowRows, OriginalsAreAttended, HasOriginal, TypeOK, TableTypeOK
<1> QED
  BY <1>1, <1>2, UploadKeepsOriginals, RemovalKeepsOriginals, WorkKeepsOriginals
     DEF StorageNext, WorkStep

-----------------------------------------------------------------------------
(* Derivatives. *)

(* A job on its way to a verdict has left the stage that stores.           *)
HasVerdict(w, i) == jpc[w][i] \in {"reject", "lock", "check", "accept", "duplicate"}

AreStored(i) == \A n \in Derivatives : <<i, n>> \in objects

JobsAreOfRows == \A w \in Worker, i \in Image : HasJob(w, i) => status[i] # "NONE"

(* A job remembers what it stored only as long as it stores; what it       *)
(* remembers is there while the row is, and all of it once it moves on.    *)
JobsStoreDerivatives ==
  \A w \in Worker, i \in Image :
    /\ done[w][i] # {} => jpc[w][i] = "working"
    /\ i \in rows =>
         /\ \A n \in done[w][i] \cap Derivatives : <<i, n>> \in objects
         /\ HasVerdict(w, i) /\ IsDecoded(i) => AreStored(i)

(* Before a row there are no keys to record.                               *)
KeysAreOfRows == \A i \in Image : recorded[i] => status[i] # "NONE"

DerivativesInv == /\ JobsAreOfRows
                  /\ JobsStoreDerivatives
                  /\ KeysAreOfRows
                  /\ RecordedKeysExist

(* At first there are no jobs and no keys.                                 *)
LEMMA DerivativesInit == StorageInit => DerivativesInv
BY DEF StorageInit, Init, TableInit, DerivativesInv, JobsAreOfRows, JobsStoreDerivatives,
       KeysAreOfRows, RecordedKeysExist, HasJob, HasVerdict

(* While a row is there nobody deletes its derivatives.                    *)
LEMMA DerivativesLast ==
  ASSUME OriginalsInv, BucketTypeOK, [StorageNext]_storageVars,
         NEW i \in rows, NEW n \in Derivatives, <<i, n>> \in objects
  PROVE  <<i, n>> \in objects'
<1>1. CASE UNCHANGED objects
  BY <1>1
<1>2. ASSUME NEW j \in Image, UploadStep(j)
      PROVE  <<i, n>> \in objects'
  BY <1>2 DEF UploadStep, PutOriginal, PutOriginalErrs, InsertRow, InsertErrs,
              CleanUpload, CleanUploadErrs, PutObject, Objects, Derivatives
<1>3. ASSUME NEW r \in Request, DeleteObjects(r) \/ DeleteObjectsErrs(r)
      PROVE  <<i, n>> \in objects'
  <2>1. removal[r].image # i
    BY <1>3 DEF DeleteObjects, DeleteObjectsErrs, OriginalsInv, RemovalsFollowRows, NoRemoval
  <2> QED
    BY <1>3, <2>1 DEF DeleteObjects, DeleteObjectsErrs, Objects
<1>4. ASSUME NEW w \in Worker, NEW j \in Image, NEW m \in Derivatives,
             PutDerivative(w, j, m)
      PROVE  <<i, n>> \in objects'
  BY <1>4 DEF PutDerivative, PutObject
<1> QED
  BY <1>1, <1>2, <1>3, <1>4
     DEF StorageNext, storageVars, RemovalStep, FindKeys, RemoveRow, RemoveRowErrs,
         ApiCrash, LockExpires, LoopMovesOn, WorkerCrash, StoredJobStep, Download,
         ProcessStored, GiveUp, RecordVerdict, JobMovesOn

(* A row that was not there is new.                                        *)
LEMMA NewRowsAreNew ==
  ASSUME TypeOK, RowsStartFresh, BucketTypeOK, [StorageNext]_storageVars,
         NEW i \in rows', i \notin rows
  PROVE  status[i] = "NONE"
<1>1. CASE UNCHANGED vars
  BY <1>1 DEF vars
<1>2. CASE WorkStep
  BY <1>2, WorkStepKeepsRows DEF WorkKeepsRows
<1>3. ASSUME NEW j \in Image, UploadStep(j)
      PROVE  status[i] = "NONE"
  BY <1>1, <1>3 DEF UploadStep, PutOriginal, PutOriginalErrs, InsertRow, InsertErrs,
                    CleanUpload, CleanUploadErrs, Upload, Insert
<1>4. ASSUME NEW r \in Request, RemovalStep(r)
      PROVE  rows' \subseteq rows
  BY <1>4 DEF RemovalStep, FindKeys, RemoveRow, RemoveRowErrs, DeleteObjects,
              DeleteObjectsErrs, RemoveIfThere, Delete, Remove, vars
<1> QED
  BY <1>1, <1>2, <1>3, <1>4 DEF StorageNext, storageVars, vars, ApiCrash, WorkStep

(* A photo once uploaded stays so.                                         *)
LEMMA UploadsStay ==
  ASSUME TypeOK, RowsStartFresh, BucketTypeOK, [StorageNext]_storageVars,
         NEW i \in Image, status[i] # "NONE"
  PROVE  status'[i] # "NONE"
<1>1. CASE UNCHANGED vars
  BY <1>1 DEF vars
<1>2. CASE WorkStep
  BY <1>2, WorkStepKeepsRows DEF WorkKeepsRows
<1>3. ASSUME NEW j \in Image, UploadStep(j)
      PROVE  status'[i] # "NONE"
  BY <1>1, <1>3 DEF UploadStep, PutOriginal, PutOriginalErrs, InsertRow, InsertErrs,
                    CleanUpload, CleanUploadErrs, Upload, Insert, TypeOK, TableTypeOK
<1>4. ASSUME NEW r \in Request, RemovalStep(r)
      PROVE  UNCHANGED status
  BY <1>4 DEF RemovalStep, FindKeys, RemoveRow, RemoveRowErrs, DeleteObjects,
              DeleteObjectsErrs, RemoveIfThere, Delete, Remove, vars
<1> QED
  BY <1>1, <1>2, <1>3, <1>4 DEF StorageNext, storageVars, vars, ApiCrash, WorkStep

(* What a step may do to a job and what it has stored.                     *)
StoredJobMove(w, i) ==
  /\ done'[w][i] # {} => jpc'[w][i] = "working"
  /\ \A n \in done'[w][i] \cap Derivatives : n \in done[w][i] \/ <<i, n>> \in objects'
  /\ HasVerdict(w, i)' /\ IsDecoded(i) => \/ HasVerdict(w, i)
                                         \/ Derivatives \subseteq done[w][i]

(* A claim finds its worker without jobs; a job forgets as it moves on.    *)
LEMMA StoredJobsMove ==
  ASSUME IInv, BucketTypeOK, DerivativesInv, [StorageNext]_storageVars
  PROVE  \A v \in Worker, j \in Image : StoredJobMove(v, j)
<1> USE DEF StoredJobMove, HasVerdict
<1>0. TypeOK /\ JobsBelongToABatch /\ JobsFollowFindings /\ JobsStoreDerivatives
  BY DEF IInv, JobInv, DerivativesInv
<1>1. ASSUME UNCHANGED <<jpc, done>>
      PROVE  \A v \in Worker, j \in Image : StoredJobMove(v, j)
  BY <1>0, <1>1 DEF JobsStoreDerivatives
<1>2. ASSUME NEW w \in Worker, LoopMovesOn(w)
      PROVE  \A v \in Worker, j \in Image : StoredJobMove(v, j)
  <2>1. CASE Claim(w)
    <3>1. PICK batch : BeginJobs(w, batch)
      BY <2>1 DEF Claim
    <3>2. \A j \in Image : jpc[w][j] = "none" /\ done[w][j] = {}
      BY <1>0, <2>1 DEF Claim, JobsBelongToABatch, HasJob, JobsStoreDerivatives
    <3>3. /\ UNCHANGED done
          /\ \A j \in Image : jpc'[w][j] \in {"working", "none"}
          /\ \A v \in Worker : v # w => jpc'[v] = jpc[v]
      BY <1>0, <1>2, <3>1 DEF BeginJobs, LoopMovesOn, TypeOK
    <3> QED
      BY <1>0, <3>2, <3>3 DEF JobsStoreDerivatives
  <2>2. CASE ~Claim(w)
    BY <1>1, <1>2, <2>2
       DEF LoopMovesOn, LoopStep, Start, Stop, RunFailExhausted, BatchSettles, Wake,
           FailExhaustedErrs, ClaimErrs
  <2> QED
    BY <2>1, <2>2
<1>3. ASSUME NEW w \in Worker, WorkerCrash(w)
      PROVE  \A v \in Worker, j \in Image : StoredJobMove(v, j)
  <2>1. /\ \A j \in Image : jpc'[w][j] = "none" /\ done'[w][j] = {}
        /\ \A v \in Worker : v # w => jpc'[v] = jpc[v] /\ done'[v] = done[v]
    BY <1>0, <1>3 DEF WorkerCrash, Crash, TypeOK, BucketTypeOK
  <2> QED
    BY <1>0, <2>1 DEF JobsStoreDerivatives
<1>4. ASSUME NEW w \in Worker, NEW i \in Image,
             Download(w, i) \/ \E n \in Derivatives : PutDerivative(w, i, n)
      PROVE  \A v \in Worker, j \in Image : StoredJobMove(v, j)
  <2>1. PICK n \in ObjectName :
          /\ jpc[w][i] = "working" /\ UNCHANGED jpc
          /\ JobDone(w, i, n)
          /\ n \in Derivatives => <<i, n>> \in objects'
    BY <1>4 DEF Download, PutDerivative, PutObject, Objects, ObjectName, Derivatives, vars
  <2>2. \A v \in Worker, j \in Image :
          done'[v][j] = IF v = w /\ j = i THEN done[w][i] \cup {n} ELSE done[v][j]
    BY <2>1 DEF JobDone, BucketTypeOK
  <2> QED
    BY <1>0, <2>1, <2>2 DEF JobsStoreDerivatives
<1>5. ASSUME NEW w \in Worker, NEW i \in Image, ProcessStored(w, i) \/ GiveUp(w, i)
      PROVE  \A v \in Worker, j \in Image : StoredJobMove(v, j)
  <2>1. /\ \A v \in Worker, j \in Image : v # w \/ j # i =>
             jpc'[v][j] = jpc[v][j] /\ done'[v][j] = done[v][j]
        /\ done'[w][i] = {}
    BY <1>0, <1>5 DEF ProcessStored, GiveUp, Forget, Process, ProcessingFails, JobGoes,
                      TypeOK, BucketTypeOK
  <2>2. HasVerdict(w, i)' /\ IsDecoded(i) => Derivatives \subseteq done[w][i]
    <3>1. CASE Findings[i] = "THROWS" \/ GiveUp(w, i)
      BY <1>0, <1>5, <3>1 DEF ProcessStored, GiveUp, Process, ProcessingFails, JobGoes,
                              TypeOK, CheckReasons
    <3>2. CASE Findings[i] # "THROWS" /\ ProcessStored(w, i)
      BY <3>2 DEF ProcessStored, DerivativesAreStored
    <3> QED
      BY <1>5, <3>1, <3>2
  <2> QED
    BY <1>0, <2>1, <2>2 DEF JobsStoreDerivatives
<1>6. ASSUME NEW w \in Worker, NEW i \in Image, RecordVerdict(w, i) \/ JobMovesOn(w, i)
      PROVE  \A v \in Worker, j \in Image : StoredJobMove(v, j)
  <2>1. UNCHANGED done /\ jpc[w][i] # "working"
    BY <1>6 DEF RecordVerdict, JobMovesOn, VerdictStep, RejectJob, RejectErrs, Commit,
                CommitReplyLost, FinalizeVerdict, LockUser, FindDuplicate,
                TransactionErrs, Release, ReleaseErrs
  <2>2. /\ \A v \in Worker, j \in Image : v # w \/ j # i => jpc'[v][j] = jpc[v][j]
        /\ HasVerdict(w, i)' => HasVerdict(w, i)
    <3>1. \E pc \in JobState : /\ JobGoes(w, i, pc) \/ (pc = "none" /\ JobEnds(w, i))
                               /\ pc \in {"none", "release"} \/ HasVerdict(w, i)
      BY <1>6 DEF RecordVerdict, JobMovesOn, VerdictStep, RejectJob, RejectErrs, Commit,
                  CommitReplyLost, FinalizeVerdict, LockUser, FindDuplicate,
                  TransactionErrs, Release, ReleaseErrs, JobState
    <3> QED
      BY <1>0, <3>1 DEF JobGoes, JobEnds, TypeOK
  <2>3. done[w][i] = {}
    BY <1>0, <2>1 DEF JobsStoreDerivatives
  <2> QED
    BY <1>0, <2>1, <2>2, <2>3 DEF JobsStoreDerivatives
<1>7. CASE \/ \E i \in Image : UploadStep(i)
           \/ \E r \in Request : RemovalStep(r)
           \/ ApiCrash
           \/ \E i \in Image : LockExpires(i)
           \/ UNCHANGED storageVars
  BY <1>1, <1>7
     DEF UploadStep, PutOriginal, PutOriginalErrs, InsertRow, InsertErrs, CleanUpload,
         CleanUploadErrs, Upload, RemovalStep, FindKeys, RemoveRow, RemoveRowErrs,
         DeleteObjects, DeleteObjectsErrs, RemoveIfThere, Delete, ApiCrash, LockExpires,
         TimePasses, workerVars, vars, storageVars
<1> QED
  BY <1>2, <1>3, <1>4, <1>5, <1>6, <1>7 DEF StorageNext, StoredJobStep

(* Keys are recorded by a job with a verdict, and only if there are any.   *)
LEMMA KeysComeFromVerdicts ==
  ASSUME TypeOK, BucketTypeOK, [StorageNext]_storageVars, NEW i \in Image, recorded'[i]
  PROVE  \/ recorded[i]
         \/ IsDecoded(i) /\ \E w \in Worker : HasVerdict(w, i)
<1>1. CASE UNCHANGED recorded
  BY <1>1
<1>2. ASSUME NEW w \in Worker, NEW j \in Image, RecordVerdict(w, j)
      PROVE  recorded[i] \/ (IsDecoded(i) /\ HasVerdict(w, i))
  <2>1. HasVerdict(w, j)
    BY <1>2 DEF RecordVerdict, VerdictStep, RejectJob, RejectErrs, Commit, CommitReplyLost,
                FinalizeVerdict, HasVerdict
  <2>2. \/ recorded' = recorded
        \/ recorded' = [recorded EXCEPT ![j] = IsDecoded(j)]
    BY <1>2 DEF RecordVerdict
  <2> QED
    BY <2>1, <2>2 DEF BucketTypeOK
<1> QED
  BY <1>1, <1>2
     DEF StorageNext, storageVars, UploadStep, PutOriginal, PutOriginalErrs, InsertRow,
         InsertErrs, CleanUpload, CleanUploadErrs, RemovalStep, FindKeys, RemoveRow,
         RemoveRowErrs, DeleteObjects, DeleteObjectsErrs, ApiCrash, LockExpires,
         LoopMovesOn, WorkerCrash, StoredJobStep, Download, PutDerivative,
         ProcessStored, GiveUp, JobMovesOn

(* A job's photo was uploaded, so that no new row finds an old job; what a *)
(* job stored lasts until its row is gone, when nothing is claimed of it.  *)
LEMMA DerivativesStep ==
  ASSUME IInv, IInv', BucketTypeOK, OriginalsInv, DerivativesInv,
         [StorageNext]_storageVars
  PROVE  DerivativesInv'
<1>0. /\ TypeOK /\ RowsStartFresh /\ JobsBelongToABatch
      /\ TypeOK' /\ RowsStartFresh'
      /\ JobsAreOfRows /\ JobsStoreDerivatives /\ KeysAreOfRows /\ RecordedKeysExist
  BY DEF IInv, RowInv, JobInv, DerivativesInv
<1>1. \A i \in rows' : i \in rows \/ status[i] = "NONE"
  BY <1>0, NewRowsAreNew
<1>2. \A i \in rows, n \in Derivatives : <<i, n>> \in objects => <<i, n>> \in objects'
  BY DerivativesLast
<1>3. \A i \in Image : status[i] # "NONE" => status'[i] # "NONE"
  BY <1>0, UploadsStay
<1>4. \A w \in Worker, i \in Image : StoredJobMove(w, i)
  BY StoredJobsMove
<1>5. JobsAreOfRows'
  <2>1. \A w \in Worker, i \in Image : JobMove(w, i)
    BY <1>0, StorageStepsAreSteps, JobsMove
  <2>2. ASSUME NEW w \in Worker, NEW i \in Image, HasJob(w, i)'
        PROVE  status'[i] # "NONE"
    <3>1. CASE KeepsJob(w, i)
      BY <1>0, <1>3, <3>1 DEF KeepsJob, JobsAreOfRows
    <3>2. CASE DrawsToken(w, i)
      <4>1. attempts[i] \in Nat /\ attempts'[i] = attempts[i] + 1
        BY <1>0, <3>2, LimitsArePositive DEF DrawsToken, TypeOK, TableTypeOK
      <4>2. attempts'[i] # 0
        BY <4>1
      <4> QED
        BY <1>0, <4>2 DEF RowsStartFresh
    <3> QED
      BY <2>1, <2>2, <3>1, <3>2 DEF JobMove
  <2> QED
    BY <2>2 DEF JobsAreOfRows
<1>6. JobsStoreDerivatives'
  <2> SUFFICES ASSUME NEW w \in Worker, NEW i \in Image
               PROVE  /\ done'[w][i] # {} => jpc'[w][i] = "working"
                      /\ i \in rows' =>
                           /\ \A n \in done'[w][i] \cap Derivatives : <<i, n>> \in objects'
                           /\ HasVerdict(w, i)' /\ IsDecoded(i) => AreStored(i)'
    BY DEF JobsStoreDerivatives, IsDecoded
  <2>1. StoredJobMove(w, i)
    BY <1>4
  <2>2. CASE status[i] = "NONE"
    <3>1. jpc[w][i] = "none" /\ done[w][i] = {} /\ ~HasVerdict(w, i)
      BY <1>0, <2>2 DEF JobsAreOfRows, HasJob, JobsStoreDerivatives, HasVerdict
    <3> QED
      BY <2>1, <3>1 DEF StoredJobMove, Derivatives
  <2>3. CASE i \in rows
    <3>1. HasVerdict(w, i)' /\ IsDecoded(i) => AreStored(i)
      BY <1>0, <2>1, <2>3 DEF StoredJobMove, JobsStoreDerivatives, AreStored
    <3>2. AreStored(i) => AreStored(i)'
      BY <1>2, <2>3 DEF AreStored
    <3>3. \A n \in done'[w][i] \cap Derivatives : <<i, n>> \in objects'
      BY <1>0, <1>2, <2>1, <2>3 DEF StoredJobMove, JobsStoreDerivatives
    <3> QED
      BY <2>1, <3>1, <3>2, <3>3 DEF StoredJobMove
  <2>4. i \in rows' => i \in rows \/ status[i] = "NONE"
    BY <1>1
  <2> QED
    BY <2>1, <2>2, <2>3, <2>4 DEF StoredJobMove
<1>7. \A i \in Image : recorded'[i] => \/ recorded[i]
                                       \/ IsDecoded(i) /\ \E w \in Worker : HasVerdict(w, i)
  BY <1>0, KeysComeFromVerdicts
<1>8. \A i \in Image : recorded'[i] => status[i] # "NONE"
  BY <1>0, <1>7 DEF KeysAreOfRows, JobsAreOfRows, HasVerdict, HasJob
<1>9. KeysAreOfRows'
  BY <1>3, <1>8 DEF KeysAreOfRows
<1>10. RecordedKeysExist'
  <2> SUFFICES ASSUME NEW i \in rows', recorded'[i], NEW n \in Derivatives
               PROVE  <<i, n>> \in objects'
    BY DEF RecordedKeysExist
  <2>1. i \in Image /\ i \in rows
    BY <1>0, <1>1, <1>8 DEF TypeOK, TableTypeOK
  <2>2. <<i, n>> \in objects
    BY <1>0, <1>7, <2>1 DEF RecordedKeysExist, JobsStoreDerivatives, AreStored
  <2> QED
    BY <1>2, <2>1, <2>2
<1> QED
  BY <1>5, <1>6, <1>9, <1>10 DEF DerivativesInv

-----------------------------------------------------------------------------
StorageInv == BucketTypeOK /\ OriginalsInv /\ DerivativesInv

(* The bucket, the requests and the jobs fit each other at all times; the  *)
(* invariant of the workers is what its steps rest on.                     *)
THEOREM StorageInvariance == StorageSpec => []StorageInv
<1>1. StorageInit => StorageInv
  BY BucketTypeInit, OriginalsInit, DerivativesInit DEF StorageInv
<1>2. StorageInv /\ IInv /\ IInv' /\ [StorageNext]_storageVars => StorageInv'
  <2>1. IInv => TypeOK /\ RowsStartFresh
    BY DEF IInv, RowInv
  <2> QED
    BY <2>1, BucketTypeStep, OriginalsStep, DerivativesStep DEF StorageInv
<1> QED
  BY <1>1, <1>2, StorageImplementsWorkers, Invariance, PTL DEF StorageSpec

(* Whatever is retried, deleted or lost, a photo whose upload was answered *)
(* 202 has its original while it has its row.                              *)
THEOREM OriginalsStayWithTheirRow == StorageSpec => []AcceptedUploadsKeepTheirOriginal
<1>1. StorageInv => AcceptedUploadsKeepTheirOriginal
  BY DEF StorageInv, OriginalsInv
<1> QED
  BY <1>1, StorageInvariance, PTL

(* Nor does a late worker ever record keys that lead nowhere.              *)
THEOREM RecordedKeysLeadToObjects == StorageSpec => []RecordedKeysExist
<1>1. StorageInv => RecordedKeysExist
  BY DEF StorageInv, DerivativesInv
<1> QED
  BY <1>1, StorageInvariance, PTL

(* Concurrent deletes, uploads and jobs leave no original behind, unless   *)
(* the API itself fails or crashes.                                        *)
THEOREM NoOriginalIsOrphaned == StorageSpec => []OriginalsGoWithTheirRow
<1>1. StorageInv => OriginalsGoWithTheirRow
  BY DEF StorageInv, OriginalsInv, OriginalsAreAttended, OriginalsGoWithTheirRow,
         NoRequestFor, IsAttended, HasOriginal
<1> QED
  BY <1>1, StorageInvariance, PTL
=============================================================================
