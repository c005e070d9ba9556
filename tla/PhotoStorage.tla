---------------------------- MODULE PhotoStorage ----------------------------
(***************************************************************************)
(* The objects behind the rows: ImageService.create and delete             *)
(* (apps/api/src/images/image.service.ts) and the worker's downloads and   *)
(* derivative uploads (apps/api/src/processing/image-processor.ts), next   *)
(* to the table and the workers of ProcessingWorker, whose actions take    *)
(* part here unchanged: what this module adds is which objects exist, which *)
(* keys a row records, and how far each request has come.                  *)
(*                                                                         *)
(* One storage call or statement is one step.  A call or statement of the  *)
(* API may fail, with or without having taken effect, and the API process  *)
(* may crash; at most MaxApiFaults such faults happen.  A storage call of  *)
(* a worker may fail as often as it likes: ProcessingFails.                *)
(***************************************************************************)
EXTENDS ProcessingWorker

CONSTANTS
  Request,      (* DELETE requests                                          *)
  MaxApiFaults  (* bound: failed or unanswered calls and crashes of the API *)

ASSUME ApiFaultsAreBounded == MaxApiFaults \in Nat

VARIABLES
  objects,    (* the objects in the bucket: <<image, name>>                 *)
  recorded,   (* normalized_key and thumbnail_key are set in the row        *)
  post,       (* where the POST of each image is                            *)
  removal,    (* where each DELETE is, its image and the keys it read       *)
  done,       (* storage calls each job has behind it                       *)
  apiFaults   (* faults so far                                              *)

apiVars == <<post, removal, apiFaults>>
storageVars == <<rows, status, attempts, lock, reason, loop, stopping, jpc,
                 token, faults, objects, recorded, post, removal, done,
                 apiFaults>>

(* imageObjectKeys: an id's keys are its own. *)
Derivatives == {"normalized", "thumbnail"}
ObjectName == {"original"} \cup Derivatives

PostState == {"none", "insert", "cleanup", "accepted", "failed"}
NoRemoval == [step |-> "none", image |-> 0, names |-> {}]
Removals == [step : {"remove", "objects"}, image : Image, names : SUBSET ObjectName]

StorageInit == /\ Init
               /\ objects = {}
               /\ recorded = [i \in Image |-> FALSE]
               /\ post = [i \in Image |-> "none"]
               /\ removal = [r \in Request |-> NoRemoval]
               /\ done = [w \in Worker |-> [i \in Image |-> {}]]
               /\ apiFaults = 0

ApiFault == /\ apiFaults < MaxApiFaults
            /\ apiFaults' = apiFaults + 1

PostGoes(i, pc) == post' = [post EXCEPT ![i] = pc]
RemovalGoes(r, x) == removal' = [removal EXCEPT ![r] = x]

Objects(i, names) == {<<i, n>> : n \in names}
PutObject(i, n) == objects \cup Objects(i, {n})
CanGetObject(i, n) == <<i, n>> \in objects

-----------------------------------------------------------------------------
(* POST: create(). *)

PutOriginal(i) == /\ post[i] = "none"
                  /\ objects' = PutObject(i, "original")
                  /\ PostGoes(i, "insert")
                  /\ UNCHANGED <<recorded, removal, done, apiFaults>>
                  /\ UNCHANGED vars

(* Outside the try: nothing is cleaned up, even if the object was stored. *)
PutOriginalErrs(i) == /\ post[i] = "none"
                      /\ ApiFault
                      /\ objects' \in {objects, PutObject(i, "original")}
                      /\ PostGoes(i, "failed")
                      /\ UNCHANGED <<recorded, removal, done>>
                      /\ UNCHANGED vars

InsertRow(i) == /\ post[i] = "insert"
                /\ Upload(i)
                /\ PostGoes(i, "accepted")
                /\ UNCHANGED <<objects, recorded, removal, done, apiFaults>>

(* The insert may have committed all the same. *)
InsertErrs(i) == /\ post[i] = "insert"
                 /\ ApiFault
                 /\ Upload(i) \/ UNCHANGED vars
                 /\ PostGoes(i, "cleanup")
                 /\ UNCHANGED <<objects, recorded, removal, done>>

CleanUpload(i) == /\ post[i] = "cleanup"
                  /\ objects' = objects \ Objects(i, {"original"})
                  /\ PostGoes(i, "failed")
                  /\ UNCHANGED <<recorded, removal, done, apiFaults>>
                  /\ UNCHANGED vars

(* deleteObjectsQuietly swallows the failure.  Not counted: it comes after *)
(* a fault that was.                                                       *)
CleanUploadErrs(i) == /\ post[i] = "cleanup"
                      /\ objects' \in {objects, objects \ Objects(i, {"original"})}
                      /\ PostGoes(i, "failed")
                      /\ UNCHANGED <<recorded, removal, done, apiFaults>>
                      /\ UNCHANGED vars

-----------------------------------------------------------------------------
(* DELETE: delete(). *)

(* Mutant: the original's key is read only with those of the derivatives. *)
KeysOfOnceRecorded(i) == IF recorded[i] THEN ObjectName ELSE {}

(* STORED_OBJECT_KEYS_SELECT, without the nulls. *)
KeysOf(i) == {"original"} \cup (IF recorded[i] THEN Derivatives ELSE {})

(* Mutant: the objects go before the row. *)
FindKeysAndDeleteObjects(r, i) ==
  /\ removal[r].step = "none"
  /\ i \in rows
  /\ RemovalGoes(r, [step |-> "remove", image |-> i, names |-> KeysOf(i)])
  /\ objects' = objects \ Objects(i, KeysOf(i))
  /\ UNCHANGED <<recorded, post, done, apiFaults>>
  /\ UNCHANGED vars

(* findFirst; without a row the request ends in a 404. *)
FindKeys(r, i) == /\ removal[r].step = "none"
                  /\ i \in rows
                  /\ RemovalGoes(r, [step |-> "remove", image |-> i, names |-> KeysOf(i)])
                  /\ UNCHANGED <<objects, recorded, post, done, apiFaults>>
                  /\ UNCHANGED vars

(* deleteMany: a row already gone is no error. *)
RemoveIfThere(i) == \/ Delete(i)
                    \/ i \notin rows /\ UNCHANGED vars

RemoveRow(r) == /\ removal[r].step = "remove"
                /\ RemoveIfThere(removal[r].image)
                /\ RemovalGoes(r, [removal[r] EXCEPT !.step = "objects"])
                /\ UNCHANGED <<objects, recorded, post, done, apiFaults>>

(* The request fails; the row may be gone, its objects stay. *)
RemoveRowErrs(r) == /\ removal[r].step = "remove"
                    /\ ApiFault
                    /\ RemoveIfThere(removal[r].image) \/ UNCHANGED vars
                    /\ RemovalGoes(r, NoRemoval)
                    /\ UNCHANGED <<objects, recorded, post, done>>

DeleteObjects(r) == /\ removal[r].step = "objects"
                    /\ objects' = objects \ Objects(removal[r].image, removal[r].names)
                    /\ RemovalGoes(r, NoRemoval)
                    /\ UNCHANGED <<recorded, post, done, apiFaults>>
                    /\ UNCHANGED vars

(* Storage deletes key by key; the request is answered 204 regardless. *)
DeleteObjectsErrs(r) ==
  /\ removal[r].step = "objects"
  /\ ApiFault
  /\ \E names \in SUBSET removal[r].names :
       objects' = objects \ Objects(removal[r].image, names)
  /\ RemovalGoes(r, NoRemoval)
  /\ UNCHANGED <<recorded, post, done>>
  /\ UNCHANGED vars

(* Every request in progress dies with the API process. *)
ApiCrash == /\ ApiFault
            /\ post' = [i \in Image |-> IF post[i] \in {"insert", "cleanup"}
                                          THEN "failed" ELSE post[i]]
            /\ removal' = [r \in Request |-> NoRemoval]
            /\ UNCHANGED <<objects, recorded, done>>
            /\ UNCHANGED vars

-----------------------------------------------------------------------------
(* The worker: storage calls of a job that is still "working". *)

JobDone(w, i, n) == done' = [done EXCEPT ![w][i] = @ \cup {n}]

(* getObject throws when the original is not there: ProcessingFails. *)
Download(w, i) == /\ jpc[w][i] = "working"
                  /\ done[w][i] = {}
                  /\ CanGetObject(i, "original")
                  /\ JobDone(w, i, "original")
                  /\ UNCHANGED <<objects, recorded, apiVars>>
                  /\ UNCHANGED vars

(* All checks but these two come after the picture has been decoded. *)
IsDecoded(i) == Findings[i] \notin {"FILE_TOO_SMALL", "UNREADABLE"}

(* One of the two puts of Promise.all, in either order.  A put whose call  *)
(* fails after the object was stored is this step, then ProcessingFails.   *)
PutDerivative(w, i, n) == /\ jpc[w][i] = "working"
                          /\ "original" \in done[w][i]
                          /\ IsDecoded(i)
                          /\ n \notin done[w][i]
                          /\ objects' = PutObject(i, n)
                          /\ JobDone(w, i, n)
                          /\ UNCHANGED <<recorded, apiVars>>
                          /\ UNCHANGED vars

(* Mutant: only the first put is awaited. *)
NormalizedIsStored(w, i) ==
  {"original"} \cup (IF IsDecoded(i) THEN {"normalized"} ELSE {}) \subseteq done[w][i]

(* What process() has awaited before it records a verdict. *)
DerivativesAreStored(w, i) ==
  {"original"} \cup (IF IsDecoded(i) THEN Derivatives ELSE {}) \subseteq done[w][i]

(* A job that leaves the stage, or its worker, forgets how far it came.    *)
Forget(w, i) == done' = [done EXCEPT ![w][i] = {}]

(* The job moves on, having stored what the verdict will point at; or the  *)
(* picture crashes a step before or after the puts.                        *)
ProcessStored(w, i) == /\ Process(w, i)
                       /\ Findings[i] # "THROWS" => DerivativesAreStored(w, i)
                       /\ Forget(w, i)
                       /\ UNCHANGED <<objects, recorded, apiVars>>

GiveUp(w, i) == /\ ProcessingFails(w, i)
                /\ Forget(w, i)
                /\ UNCHANGED <<objects, recorded, apiVars>>

VerdictStep(w, i) == \/ RejectJob(w, i) \/ RejectErrs(w, i)
                     \/ Commit(w, i) \/ CommitReplyLost(w, i)

(* `...analysis`: if the verdict's UPDATE applies it writes the two keys.  *)
RecordVerdict(w, i) == /\ VerdictStep(w, i)
                       /\ recorded' = IF status'[i] = status[i] THEN recorded
                                      ELSE [recorded EXCEPT ![i] = IsDecoded(i)]
                       /\ UNCHANGED <<objects, done, apiVars>>

(* The steps of the worker that touch neither objects nor keys. *)
JobMovesOn(w, i) == /\ \/ LockUser(w, i) \/ FindDuplicate(w, i)
                       \/ TransactionErrs(w, i)
                       \/ Release(w, i) \/ ReleaseErrs(w, i)
                    /\ UNCHANGED <<objects, recorded, done, apiVars>>

LoopMovesOn(w) == /\ \/ Start(w) \/ Stop(w) \/ LoopStep(w)
                     \/ FailExhaustedErrs(w) \/ ClaimErrs(w)
                  /\ UNCHANGED <<objects, recorded, done, apiVars>>

WorkerCrash(w) == /\ Crash(w)
                  /\ done' = [done EXCEPT ![w] = [i \in Image |-> {}]]
                  /\ UNCHANGED <<objects, recorded, apiVars>>

LockExpires(i) == /\ TimePasses(i)
                  /\ UNCHANGED <<objects, recorded, done, apiVars>>

-----------------------------------------------------------------------------
UploadStep(i) == \/ PutOriginal(i) \/ PutOriginalErrs(i)
                 \/ InsertRow(i) \/ InsertErrs(i)
                 \/ CleanUpload(i) \/ CleanUploadErrs(i)

RemovalStep(r) == \/ \E i \in Image : FindKeys(r, i)
                  \/ RemoveRow(r) \/ RemoveRowErrs(r)
                  \/ DeleteObjects(r) \/ DeleteObjectsErrs(r)

StoredJobStep(w, i) == \/ Download(w, i)
                       \/ \E n \in Derivatives : PutDerivative(w, i, n)
                       \/ ProcessStored(w, i)
                       \/ GiveUp(w, i)
                       \/ RecordVerdict(w, i)
                       \/ JobMovesOn(w, i)

StorageNext == \/ \E i \in Image : UploadStep(i) \/ LockExpires(i)
               \/ \E r \in Request : RemovalStep(r)
               \/ ApiCrash
               \/ \E w \in Worker : LoopMovesOn(w) \/ WorkerCrash(w)
               \/ \E w \in Worker, i \in Image : StoredJobStep(w, i)

StorageSpec == StorageInit /\ [][StorageNext]_storageVars

-----------------------------------------------------------------------------
(* Properties.  The first is the type invariant. *)

StorageTypeOK ==
  /\ TypeOK
  /\ objects \subseteq Image \X ObjectName
  /\ recorded \in [Image -> BOOLEAN]
  /\ post \in [Image -> PostState]
  /\ removal \in [Request -> Removals \cup {NoRemoval}]
  /\ done \in [Worker -> [Image -> SUBSET ObjectName]]
  /\ apiFaults \in 0 .. MaxApiFaults

(* A photo whose upload was answered 202 keeps its original as long as it  *)
(* has its row, whatever retries, deletes and crashes go on around it: the *)
(* order of put and insert, and of row and objects in delete.              *)
AcceptedUploadsKeepTheirOriginal ==
  \A i \in rows : post[i] = "accepted" => <<i, "original">> \in objects

(* A row records the keys of derivatives only once both exist, and they    *)
(* exist as long as the row does: no thumbnailUrl leads nowhere.           *)
RecordedKeysExist ==
  \A i \in rows : recorded[i] => \A n \in Derivatives : <<i, n>> \in objects

(* No request is working on i. *)
NoRequestFor(i) == /\ post[i] \in {"none", "accepted", "failed"}
                   /\ \A r \in Request : removal[r] # NoRemoval => removal[r].image # i

(* Without faults of the API no original outlives its row: concurrent      *)
(* deletes of one photo, one of which finds no row to remove, included.    *)
OriginalsGoWithTheirRow ==
  apiFaults = 0 =>
    \A i \in Image \ rows : NoRequestFor(i) => <<i, "original">> \notin objects

(* image.service.ts:86, "an orphaned object is harmless, a row pointing at *)
(* a missing object is not": every row's original exists.                  *)
RowsHaveTheirOriginal == \A i \in rows : <<i, "original">> \in objects
=============================================================================
