-------------------------- MODULE ProcessingWorker --------------------------
(***************************************************************************)
(* Worker processes draining the image queue, apps/api/src/processing/     *)
(* processing-worker.ts and image-processor.ts, over the statements of     *)
(* ImageQueue, while users upload and delete photos.                       *)
(*                                                                         *)
(* A worker runs one loop (failExhausted, claimBatch, process the batch);  *)
(* the jobs of its batch run concurrently with each other and with the     *)
(* jobs of every other worker.  A step is what happens between two awaits: *)
(* at most one database statement.  A statement may fail with no effect,   *)
(* or take effect while its reply is lost; a worker may crash at any step. *)
(* These faults are counted, and at most MaxFaults of them happen.         *)
(***************************************************************************)
EXTENDS ImageQueue

CONSTANTS
  Worker,    (* worker processes                                           *)
  MaxFaults  (* bound: crashes, failed statements, lost replies            *)

ASSUME FaultsAreBounded == MaxFaults \in Nat

VARIABLES
  loop,      (* where each worker's loop is                                *)
  stopping,  (* stopController.signal.aborted                              *)
  jpc,       (* where each worker's job for an image is                    *)
  token,     (* job.attempts, the claim's fencing token                    *)
  faults     (* faults so far                                              *)

workerVars == <<loop, stopping, jpc, token>>
vars == <<rows, status, attempts, lock, reason,
          loop, stopping, jpc, token, faults>>

LoopState == {"down", "failExhausted", "claim", "batch", "idle"}

(* "working" covers download, checks and derivatives; "lock", "check",     *)
(* "accept" and "duplicate" are the steps of acceptUnlessDuplicate.        *)
JobState == {"none", "working", "reject", "lock", "check", "accept",
             "duplicate", "release"}

Init == /\ TableInit
        /\ loop = [w \in Worker |-> "down"]
        /\ stopping = [w \in Worker |-> FALSE]
        /\ jpc = [w \in Worker |-> [i \in Image |-> "none"]]
        /\ token = [w \in Worker |-> [i \in Image |-> 0]]
        /\ faults = 0

-----------------------------------------------------------------------------
(* A fault strikes; the rest of the action says what it does. *)
Fault == /\ faults < MaxFaults
         /\ faults' = faults + 1

LoopGoes(w, pc) == loop' = [loop EXCEPT ![w] = pc]

(* A job takes a step, or ends; the loops stand still meanwhile. *)
JobGoes(w, i, pc) == /\ jpc' = [jpc EXCEPT ![w][i] = pc]
                     /\ UNCHANGED <<loop, stopping, token>>
JobEnds(w, i) == /\ jpc' = [jpc EXCEPT ![w][i] = "none"]
                 /\ token' = [token EXCEPT ![w][i] = 0]
                 /\ UNCHANGED <<loop, stopping>>

(* Mutant: the loop never looks at the abort signal. *)
NextRoundUnconditionally(w) == LoopGoes(w, "failExhausted")

(* The top of the loop: stop there, or go round again. *)
NextRound(w) == LoopGoes(w, IF stopping[w] THEN "down" ELSE "failExhausted")

-----------------------------------------------------------------------------
(* Users, through the API.  Any photo may go while a worker has it. *)

Upload(i) == Insert(i) /\ UNCHANGED workerVars /\ UNCHANGED faults

Delete(i) == Remove(i) /\ UNCHANGED workerVars /\ UNCHANGED faults

TimePasses(i) == LockGoesStale(i) /\ UNCHANGED workerVars /\ UNCHANGED faults

-----------------------------------------------------------------------------
(* The process and its loop. *)

Start(w) == /\ loop[w] = "down"
            /\ LoopGoes(w, "failExhausted")
            /\ stopping' = [stopping EXCEPT ![w] = FALSE]
            /\ UNCHANGED <<jpc, token, faults>>
            /\ UNCHANGED tableVars

(* SIGINT or SIGTERM. *)
Stop(w) == /\ loop[w] # "down"
           /\ ~stopping[w]
           /\ stopping' = [stopping EXCEPT ![w] = TRUE]
           /\ UNCHANGED <<loop, jpc, token, faults>>
           /\ UNCHANGED tableVars

RunFailExhausted(w) == /\ loop[w] = "failExhausted"
                       /\ FailExhausted
                       /\ LoopGoes(w, "claim")
                       /\ UNCHANGED <<stopping, jpc, token, faults>>

(* An error in either statement ends the round with nothing claimed. *)
FailExhaustedErrs(w) == /\ loop[w] = "failExhausted"
                        /\ Fault
                        /\ FailExhausted \/ UNCHANGED tableVars
                        /\ LoopGoes(w, "idle")
                        /\ UNCHANGED <<stopping, jpc, token>>

(* Rows a job's statement may have locked while a claim runs. *)
RowsInStatement ==
  {i \in Image : \E w \in Worker :
                   jpc[w][i] \in {"reject", "accept", "duplicate", "release"}}

(* The jobs a claim returns; their token is the incremented counter. *)
BeginJobs(w, batch) ==
  /\ jpc' = [jpc EXCEPT ![w] = [i \in Image |-> IF i \in batch THEN "working"
                                                ELSE "none"]]
  /\ token' = [token EXCEPT ![w] = [i \in Image |-> IF i \in batch THEN attempts[i] + 1
                                                    ELSE 0]]

Claim(w) == /\ loop[w] = "claim"
            /\ \E skipped \in SUBSET RowsInStatement :
                 LET batch == Batch(skipped)
                 IN  /\ ClaimBatch(batch)
                     /\ BeginJobs(w, batch)
                     /\ LoopGoes(w, IF batch = {} THEN "idle" ELSE "batch")
            /\ UNCHANGED <<stopping, faults>>

(* The claim may have committed: its rows are PROCESSING with no job. *)
ClaimErrs(w) == /\ loop[w] = "claim"
                /\ Fault
                /\ \/ \E skipped \in SUBSET RowsInStatement : ClaimBatch(Batch(skipped))
                   \/ UNCHANGED tableVars
                /\ LoopGoes(w, "idle")
                /\ UNCHANGED <<stopping, jpc, token>>

(* Mutant: stop() does not wait for the batch. *)
BatchAbandonedOnStop(w) == /\ loop[w] = "batch"
                           /\ stopping[w] \/ \A i \in Image : jpc[w][i] = "none"
                           /\ NextRound(w)
                           /\ jpc' = [jpc EXCEPT ![w] = [i \in Image |-> "none"]]
                           /\ UNCHANGED <<stopping, token, faults>>
                           /\ UNCHANGED tableVars

(* Promise.allSettled: the round ends when every job of the batch has. *)
BatchSettles(w) == /\ loop[w] = "batch"
                   /\ \A i \in Image : jpc[w][i] = "none"
                   /\ NextRound(w)
                   /\ UNCHANGED <<stopping, jpc, token, faults>>
                   /\ UNCHANGED tableVars

(* The poll interval ends, or stop() cuts it short. *)
Wake(w) == /\ loop[w] = "idle"
           /\ NextRound(w)
           /\ UNCHANGED <<stopping, jpc, token, faults>>
           /\ UNCHANGED tableVars

(* Everything the process held is gone; its transactions roll back. *)
Crash(w) == /\ loop[w] # "down"
            /\ Fault
            /\ LoopGoes(w, "down")
            /\ stopping' = [stopping EXCEPT ![w] = FALSE]
            /\ jpc' = [jpc EXCEPT ![w] = [i \in Image |-> "none"]]
            /\ token' = [token EXCEPT ![w] = [i \in Image |-> 0]]
            /\ UNCHANGED tableVars

-----------------------------------------------------------------------------
(* The jobs: process(job), then its verdict or its release. *)

(* Download, checks and derivatives all succeed; what to do with the       *)
(* findings.  A picture that crashes a check takes the error path.         *)
Process(w, i) == /\ jpc[w][i] = "working"
                 /\ \/ Findings[i] = "PASS" /\ JobGoes(w, i, "lock")
                    \/ Findings[i] = "THROWS" /\ JobGoes(w, i, "release")
                    \/ Findings[i] \in CheckReasons /\ JobGoes(w, i, "reject")
                 /\ UNCHANGED faults
                 /\ UNCHANGED tableVars

(* Storage fails, or has no original (any more).  Not counted as a fault:  *)
(* MaxAttempts already bounds how often it matters.                        *)
ProcessingFails(w, i) == /\ jpc[w][i] = "working"
                         /\ JobGoes(w, i, "release")
                         /\ UNCHANGED faults
                         /\ UNCHANGED tableVars

RejectJob(w, i) == /\ jpc[w][i] = "reject"
                   /\ Reject(i, token[w][i], Findings[i])
                   /\ JobEnds(w, i)
                   /\ UNCHANGED faults

(* The job throws, whether or not the verdict was written. *)
RejectErrs(w, i) == /\ jpc[w][i] = "reject"
                    /\ Fault
                    /\ Reject(i, token[w][i], Findings[i]) \/ UNCHANGED tableVars
                    /\ JobGoes(w, i, "release")

(* Mutant: the advisory lock is released once the query has run. *)
HoldsUserLockToCheck(w, i) == jpc[w][i] = "check"

(* Mutant: the transaction takes no advisory lock. *)
UserLockNotTaken(u) == TRUE

(* The job's transaction holds its user's advisory lock. *)
HoldsUserLock(w, i) == jpc[w][i] \in {"check", "accept", "duplicate"}

UserLockIsFree(u) ==
  \A w \in Worker, i \in Image : HoldsUserLock(w, i) => Owner[i] # u

(* pg_advisory_xact_lock: waits for every transaction of the same user. *)
LockUser(w, i) == /\ jpc[w][i] = "lock"
                  /\ UserLockIsFree(Owner[i])
                  /\ JobGoes(w, i, "check")
                  /\ UNCHANGED faults
                  /\ UNCHANGED tableVars

FindDuplicate(w, i) == /\ jpc[w][i] = "check"
                       /\ JobGoes(w, i, IF AcceptedLookAlikes(i) = {} THEN "accept"
                                        ELSE "duplicate")
                       /\ UNCHANGED faults
                       /\ UNCHANGED tableVars

(* The transaction's UPDATE.  Its row stays locked until the commit, which *)
(* nobody can tell from an UPDATE that is still waiting; one step.         *)
FinalizeVerdict(w, i) ==
  \/ jpc[w][i] = "accept" /\ Accept(i, token[w][i])
  \/ jpc[w][i] = "duplicate" /\ Reject(i, token[w][i], "DUPLICATE")

Commit(w, i) == /\ FinalizeVerdict(w, i)
                /\ JobEnds(w, i)
                /\ UNCHANGED faults

(* The commit takes effect, its reply is lost, and the job throws. *)
CommitReplyLost(w, i) == /\ FinalizeVerdict(w, i)
                         /\ Fault
                         /\ JobGoes(w, i, "release")

(* The transaction fails or times out at any step, and rolls back. *)
TransactionErrs(w, i) == /\ jpc[w][i] \in {"lock", "check", "accept", "duplicate"}
                         /\ Fault
                         /\ JobGoes(w, i, "release")
                         /\ UNCHANGED tableVars

Release(w, i) == /\ jpc[w][i] = "release"
                 /\ ReleaseForRetry(i, token[w][i])
                 /\ JobEnds(w, i)
                 /\ UNCHANGED faults

(* The job ends all the same: the row waits for its lock to go stale. *)
ReleaseErrs(w, i) == /\ jpc[w][i] = "release"
                     /\ Fault
                     /\ ReleaseForRetry(i, token[w][i]) \/ UNCHANGED tableVars
                     /\ JobEnds(w, i)

-----------------------------------------------------------------------------
LoopStep(w) == \/ RunFailExhausted(w)
               \/ Claim(w)
               \/ BatchSettles(w)
               \/ Wake(w)

JobStep(w, i) == \/ Process(w, i)
                 \/ RejectJob(w, i)
                 \/ LockUser(w, i)
                 \/ FindDuplicate(w, i)
                 \/ Commit(w, i)
                 \/ Release(w, i)

LoopFault(w) == \/ FailExhaustedErrs(w)
                \/ ClaimErrs(w)
                \/ Crash(w)

JobFault(w, i) == \/ ProcessingFails(w, i)
                  \/ RejectErrs(w, i)
                  \/ TransactionErrs(w, i)
                  \/ CommitReplyLost(w, i)
                  \/ ReleaseErrs(w, i)

Next == \/ \E i \in Image : Upload(i) \/ Delete(i) \/ TimePasses(i)
        \/ \E w \in Worker : Start(w) \/ Stop(w) \/ LoopStep(w) \/ LoopFault(w)
        \/ \E w \in Worker, i \in Image : JobStep(w, i) \/ JobFault(w, i)

(* Safety needs no fairness. *)
Spec == Init /\ [][Next]_vars

(* The process runs its event loop and is started again once it is down,   *)
(* and time passes.  Users and faults owe nothing.                         *)
Fairness == /\ \A w \in Worker : WF_vars(LoopStep(w)) /\ WF_vars(Start(w))
            /\ \A w \in Worker, i \in Image : WF_vars(JobStep(w, i))
            /\ \A i \in Image : WF_vars(TimePasses(i))

FairSpec == Spec /\ Fairness

-----------------------------------------------------------------------------
(* Properties.  The first is the type invariant. *)

TypeOK == /\ TableTypeOK
          /\ loop \in [Worker -> LoopState]
          /\ stopping \in [Worker -> BOOLEAN]
          /\ jpc \in [Worker -> [Image -> JobState]]
          /\ token \in [Worker -> [Image -> 0 .. MaxAttempts]]
          /\ faults \in 0 .. MaxFaults

HasJob(w, i) == jpc[w][i] # "none"

(* Of a user's photos in the table no two that look alike are both         *)
(* accepted, however their transactions interleave, fail or are replayed:  *)
(* what acceptUnlessDuplicate promises.                                    *)
NoAcceptedLookAlikes ==
  \A i, j \in rows :
    status[i] = "ACCEPTED" /\ status[j] = "ACCEPTED" => ~LookAlike(i, j)

(* A verdict is the one the findings call for: accepted photos passed,     *)
(* rejected ones carry the reason their check found, and a duplicate has a *)
(* look-alike of the same user that was accepted, deleted since or not.    *)
VerdictsAreJustified ==
  \A i \in Image :
    /\ status[i] = "ACCEPTED" => Findings[i] = "PASS"
    /\ status[i] = "REJECTED" =>
         \/ reason[i] = Findings[i]
         \/ /\ reason[i] = "DUPLICATE"
            /\ Findings[i] = "PASS"
            /\ \E j \in Image : LookAlike(j, i) /\ status[j] = "ACCEPTED"

(* A photo fails only with every attempt used, and is not queued again     *)
(* without one left: releaseForRetry, which decides by the claim's token,  *)
(* and claimBatch and failExhausted, which decide by the row, agree.       *)
AttemptsDecideFailure ==
  \A i \in Image : /\ status[i] = "FAILED" => attempts[i] = MaxAttempts
                   /\ status[i] = "PENDING" => attempts[i] < MaxAttempts

(* Two jobs of one photo never carry the same fencing token, so at most    *)
(* one of them can write to the row: image-job.ts on `attempts`.           *)
ClaimsAreFenced ==
  \A w1, w2 \in Worker, i \in Image :
    w1 # w2 /\ HasJob(w1, i) /\ HasJob(w2, i) => token[w1][i] # token[w2][i]

(* A row is PROCESSING exactly while locked_at is set.  A PROCESSING row   *)
(* without it would match no branch of AWAITING_WORKER ever again.         *)
ProcessingRowsAreLocked ==
  \A i \in Image : status[i] = "PROCESSING" <=> lock[i] # "null"

(* While nothing has failed every PROCESSING row has the job that claimed  *)
(* it, through stops and restarts: no claimed row is abandoned mid-way on  *)
(* a clean shutdown.                                                       *)
NoClaimIsAbandoned ==
  faults = 0 =>
    \A i \in rows : status[i] = "PROCESSING" =>
      \E w \in Worker : HasJob(w, i) /\ token[w][i] = attempts[i]

(* The jobs' half of what makes the invariants above inductive. *)

(* A worker has jobs only while its loop awaits them. *)
JobsBelongToABatch ==
  \A w \in Worker, i \in Image : HasJob(w, i) => loop[w] = "batch"

TokensWereDrawn ==
  \A w \in Worker, i \in Image : HasJob(w, i) => token[w][i] <= attempts[i]

(* A job is past the pipeline only with the findings that lead there. *)
JobsFollowFindings ==
  \A w \in Worker, i \in Image :
    /\ jpc[w][i] = "reject" => Findings[i] \in CheckReasons
    /\ jpc[w][i] \in {"lock", "check", "accept", "duplicate"} => Findings[i] = "PASS"

UserLockIsExclusive ==
  \A w1, w2 \in Worker, i, j \in Image :
    HoldsUserLock(w1, i) /\ HoldsUserLock(w2, j) /\ Owner[i] = Owner[j] =>
      w1 = w2 /\ i = j

(* What the duplicate query saw still holds when the verdict is written,   *)
(* but for the photo having been deleted.                                  *)
DuplicateQueryStillHolds ==
  \A w \in Worker, i \in Image :
    /\ jpc[w][i] = "accept" => AcceptedLookAlikes(i) = {}
    /\ jpc[w][i] = "duplicate" =>
         \E j \in Image : LookAlike(j, i) /\ status[j] = "ACCEPTED"

(* The table's half. *)
RowsStartFresh ==
  \A i \in Image : status[i] = "NONE" => attempts[i] = 0 /\ i \notin rows

OnlyRejectionsHaveReasons ==
  \A i \in Image : status[i] # "REJECTED" => reason[i] = "none"

RowInv == /\ RowsStartFresh
          /\ OnlyRejectionsHaveReasons
          /\ AttemptsDecideFailure
          /\ ProcessingRowsAreLocked
          /\ VerdictsAreJustified

JobInv == /\ JobsFollowFindings
          /\ JobsBelongToABatch
          /\ TokensWereDrawn
          /\ ClaimsAreFenced
          /\ UserLockIsExclusive
          /\ DuplicateQueryStillHolds

(* The inductive invariant: each part is needed for the step of another. *)
IInv == TypeOK /\ RowInv /\ JobInv /\ NoAcceptedLookAlikes /\ NoClaimIsAbandoned

(* A verdict, once recorded, never changes: not by a late worker, not by a *)
(* release after a lost commit reply, not by failExhausted.                *)
VerdictsAreFinal ==
  [][\A i \in Image : status[i] \in Terminal =>
       status'[i] = status[i] /\ reason'[i] = reason[i]]_vars

(* A PROCESSING row leaves that status only by a step of the job that      *)
(* holds the latest claim, or by failExhausted once that claim is the last *)
(* and its lock is stale.                                                  *)
OnlyTheLatestClaimDecides ==
  [][\A i \in Image :
       status[i] = "PROCESSING" /\ status'[i] # "PROCESSING" =>
         \/ \E w \in Worker : /\ HasJob(w, i)
                              /\ token[w][i] = attempts[i]
                              /\ jpc'[w][i] # jpc[w][i]
         \/ /\ status'[i] = "FAILED"
            /\ attempts[i] = MaxAttempts
            /\ lock[i] = "stale"]_vars

(* Every uploaded photo gets a verdict or fails, unless its user deletes   *)
(* it first: crashes, lost replies and stops only delay it.                *)
EveryUploadSettles ==
  \A i \in Image :
    status[i] = "PENDING" ~> i \notin rows \/ status[i] \in Terminal

(* stop() resolves: a worker told to stop ends once its batch is recorded, *)
(* from wherever its loop was.                                             *)
StopCompletes == \A w \in Worker : stopping[w] ~> loop[w] = "down"

(* The states a client can tell apart: PENDING and PROCESSING are waiting. *)
ClientView(i) ==
  IF status[i] \in {"PENDING", "PROCESSING"}
  THEN [status |-> "WAITING", reason |-> "none"]
  ELSE [status |-> status[i], reason |-> reason[i]]

ClientViews == [i \in Image |-> ClientView(i)]

Verdicts == INSTANCE ImageVerdicts WITH gallery <- rows, verdict <- ClientViews

(* Claims, retries, stale locks and crashes are invisible through the API: *)
(* what a client sees is a behaviour of ImageVerdicts.                     *)
ImplementsVerdicts == Verdicts!Spec
=============================================================================
