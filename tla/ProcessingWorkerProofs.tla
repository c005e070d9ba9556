----------------------- MODULE ProcessingWorkerProofs -----------------------
(***************************************************************************)
(* Theorems of ProcessingWorker for any images, users, workers and limits. *)
(***************************************************************************)
EXTENDS ProcessingWorker, FiniteSetTheorems, TLAPS

(* Every statement keeps the columns within their types. *)
LEMMA UpdateOwnedType ==
  ASSUME TableTypeOK, NEW i \in Image, NEW t, NEW s \in Status, NEW r \in Reason,
         UpdateOwned(i, t, s, r)
  PROVE  TableTypeOK'
BY DEF TableTypeOK, UpdateOwned, tableVars

LEMMA FinalizeType ==
  ASSUME TableTypeOK, NEW w \in Worker, NEW i \in Image, FinalizeVerdict(w, i)
  PROVE  TableTypeOK'
BY UpdateOwnedType DEF FinalizeVerdict, Accept, Reject, Status, Terminal, Reason

LEMMA RejectType ==
  ASSUME TableTypeOK, NEW i \in Image, NEW t, Findings[i] \in CheckReasons,
         Reject(i, t, Findings[i])
  PROVE  TableTypeOK'
BY UpdateOwnedType DEF Reject, Status, Terminal, Reason

LEMMA ReleaseType ==
  ASSUME TableTypeOK, NEW i \in Image, NEW t, ReleaseForRetry(i, t)
  PROVE  TableTypeOK'
<1>1. reason[i] \in Reason
  BY DEF TableTypeOK
<1>2. (IF t >= MaxAttempts THEN "FAILED" ELSE "PENDING") \in Status
  BY DEF Status, Terminal
<1> QED BY <1>1, <1>2, UpdateOwnedType DEF ReleaseForRetry

LEMMA FailExhaustedType ==
  ASSUME TableTypeOK, FailExhausted
  PROVE  TableTypeOK'
BY DEF TableTypeOK, FailExhausted, Status, Terminal

LEMMA BatchIsClaimable ==
  ASSUME NEW skipped, NEW i \in Batch(skipped)
  PROVE  i \in Image /\ Claimable(i)
BY DEF Batch, Oldest

LEMMA ClaimType ==
  ASSUME TableTypeOK, NEW batch, ClaimBatch(batch),
         \A i \in batch : i \in Image /\ Claimable(i)
  PROVE  TableTypeOK'
<1>1. \A i \in Image : i \in batch => attempts[i] + 1 \in 0 .. MaxAttempts
  BY LimitsArePositive DEF TableTypeOK, Claimable
<1> QED BY <1>1 DEF TableTypeOK, ClaimBatch, Status, Terminal

-----------------------------------------------------------------------------
TypeInv == TypeOK /\ JobsFollowFindings

LEMMA TypeInit == Init => TypeInv
BY LimitsArePositive, FaultsAreBounded
   DEF Init, TypeInv, TypeOK, TableInit, TableTypeOK, JobsFollowFindings,
       Status, Terminal, Reason, LoopState, JobState

(* The worker's variables, whatever happens to the table. *)
LEMMA JobGoesType ==
  ASSUME TypeInv, NEW w \in Worker, NEW i \in Image, NEW pc \in JobState,
         JobGoes(w, i, pc),
         pc = "reject" => Findings[i] \in CheckReasons,
         pc \in {"lock", "check", "accept", "duplicate"} => Findings[i] = "PASS"
  PROVE  /\ loop' \in [Worker -> LoopState]
         /\ stopping' \in [Worker -> BOOLEAN]
         /\ jpc' \in [Worker -> [Image -> JobState]]
         /\ token' \in [Worker -> [Image -> 0 .. MaxAttempts]]
         /\ JobsFollowFindings'
<1>1. \A v \in Worker, j \in Image :
        jpc'[v][j] = IF v = w /\ j = i THEN pc ELSE jpc[v][j]
  BY DEF JobGoes, TypeInv, TypeOK
<1> QED BY <1>1 DEF JobGoes, TypeInv, TypeOK, JobsFollowFindings

LEMMA JobEndsType ==
  ASSUME TypeInv, NEW w \in Worker, NEW i \in Image, JobEnds(w, i)
  PROVE  /\ loop' \in [Worker -> LoopState]
         /\ stopping' \in [Worker -> BOOLEAN]
         /\ jpc' \in [Worker -> [Image -> JobState]]
         /\ token' \in [Worker -> [Image -> 0 .. MaxAttempts]]
         /\ JobsFollowFindings'
<1>1. \A v \in Worker, j \in Image :
        jpc'[v][j] = IF v = w /\ j = i THEN "none" ELSE jpc[v][j]
  BY DEF JobEnds, TypeInv, TypeOK
<1>2. "none" \in JobState /\ 0 \in 0 .. MaxAttempts
  BY LimitsArePositive DEF JobState
<1> QED BY <1>1, <1>2 DEF JobEnds, TypeInv, TypeOK, JobsFollowFindings

LEMMA FaultType ==
  ASSUME TypeOK, Fault \/ UNCHANGED faults
  PROVE  faults' \in 0 .. MaxFaults
BY FaultsAreBounded DEF Fault, TypeOK

LEMMA LoopType ==
  ASSUME TypeInv, NEW w \in Worker, NEW pc \in LoopState, LoopGoes(w, pc),
         UNCHANGED <<jpc, token>>
  PROVE  /\ loop' \in [Worker -> LoopState]
         /\ jpc' \in [Worker -> [Image -> JobState]]
         /\ token' \in [Worker -> [Image -> 0 .. MaxAttempts]]
         /\ JobsFollowFindings'
BY DEF LoopGoes, TypeInv, TypeOK, JobsFollowFindings

LEMMA LoopStepType ==
  ASSUME TypeInv, NEW w \in Worker, LoopStep(w) \/ LoopFault(w) \/ Start(w) \/ Stop(w)
  PROVE  TypeInv'
<1> USE DEF LoopState
<1>1. CASE RunFailExhausted(w)
  BY <1>1, LoopType, FailExhaustedType DEF RunFailExhausted, TypeInv, TypeOK
<1>2. CASE Claim(w)
  <2>1. PICK batch : /\ \A i \in batch : i \in Image /\ Claimable(i)
                     /\ ClaimBatch(batch)
                     /\ BeginJobs(w, batch)
                     /\ LoopGoes(w, IF batch = {} THEN "idle" ELSE "batch")
    BY <1>2, BatchIsClaimable DEF Claim
  <2>2. TableTypeOK'
    BY <2>1, ClaimType DEF TypeInv, TypeOK
  <2>3. \A i \in Image : i \in batch => attempts[i] + 1 \in 0 .. MaxAttempts
    BY <2>1, LimitsArePositive DEF Claimable, TypeInv, TypeOK, TableTypeOK
  <2>4. /\ jpc' \in [Worker -> [Image -> JobState]]
        /\ token' \in [Worker -> [Image -> 0 .. MaxAttempts]]
    BY <2>1, <2>3, LimitsArePositive DEF BeginJobs, TypeInv, TypeOK, JobState
  <2>5. \A v \in Worker, i \in Image :
          jpc'[v][i] = jpc[v][i] \/ jpc'[v][i] \in {"working", "none"}
    BY <2>1 DEF BeginJobs, TypeInv, TypeOK
  <2>6. JobsFollowFindings'
    BY <2>5 DEF TypeInv, JobsFollowFindings
  <2> QED BY <1>2, <2>1, <2>2, <2>4, <2>6 DEF Claim, LoopGoes, TypeInv, TypeOK
<1>3. CASE BatchSettles(w) \/ Wake(w)
  <2>1. PICK pc \in LoopState : LoopGoes(w, pc)
    BY <1>3 DEF BatchSettles, Wake, NextRound
  <2>2. /\ UNCHANGED <<stopping, jpc, token, faults>>
        /\ UNCHANGED tableVars
    BY <1>3 DEF BatchSettles, Wake
  <2> QED BY <2>1, <2>2, LoopType DEF TypeInv, TypeOK, TableTypeOK, tableVars
<1>4. CASE FailExhaustedErrs(w)
  <2>1. TableTypeOK'
    BY <1>4, FailExhaustedType
    DEF FailExhaustedErrs, tableVars, TypeInv, TypeOK, TableTypeOK
  <2> QED BY <1>4, <2>1, LoopType, FaultType DEF FailExhaustedErrs, TypeInv, TypeOK
<1>5. CASE ClaimErrs(w)
  <2>1. TableTypeOK'
    <3>1. CASE UNCHANGED tableVars
      BY <3>1 DEF tableVars, TypeInv, TypeOK, TableTypeOK
    <3>2. CASE \E skipped \in SUBSET RowsInStatement : ClaimBatch(Batch(skipped))
      BY <3>2, ClaimType, BatchIsClaimable DEF TypeInv, TypeOK
    <3> QED BY <1>5, <3>1, <3>2 DEF ClaimErrs
  <2> QED BY <1>5, <2>1, LoopType, FaultType DEF ClaimErrs, TypeInv, TypeOK
<1>6. CASE Crash(w)
  <2>1. /\ jpc' \in [Worker -> [Image -> JobState]]
        /\ token' \in [Worker -> [Image -> 0 .. MaxAttempts]]
    BY <1>6, LimitsArePositive DEF Crash, TypeInv, TypeOK, JobState
  <2>2. \A v \in Worker, i \in Image : jpc'[v][i] = jpc[v][i] \/ jpc'[v][i] = "none"
    BY <1>6 DEF Crash, TypeInv, TypeOK
  <2>3. JobsFollowFindings'
    BY <2>2 DEF TypeInv, JobsFollowFindings
  <2>4. TableTypeOK'
    BY <1>6 DEF Crash, tableVars, TypeInv, TypeOK, TableTypeOK
  <2> QED BY <1>6, <2>1, <2>3, <2>4, FaultType DEF Crash, LoopGoes, TypeInv, TypeOK
<1>7. CASE Start(w)
  BY <1>7, LoopType DEF Start, tableVars, TypeInv, TypeOK, TableTypeOK
<1>8. CASE Stop(w)
  BY <1>8 DEF Stop, tableVars, TypeInv, TypeOK, TableTypeOK, JobsFollowFindings
<1> QED BY <1>1, <1>2, <1>3, <1>4, <1>5, <1>6, <1>7, <1>8 DEF LoopStep, LoopFault
LEMMA JobStepType ==
  ASSUME TypeInv, NEW w \in Worker, NEW i \in Image, JobStep(w, i) \/ JobFault(w, i)
  PROVE  TypeInv'
<1> USE DEF JobState
<1>1. /\ Findings[i] = "PASS" \/ Findings[i] = "THROWS" \/ Findings[i] \in CheckReasons
      /\ jpc[w][i] = "reject" => Findings[i] \in CheckReasons
      /\ jpc[w][i] \in {"lock", "check", "accept", "duplicate"} => Findings[i] = "PASS"
  BY ImagesHaveFindings DEF TypeInv, JobsFollowFindings
<1>2. UNCHANGED tableVars => TableTypeOK'
  BY DEF tableVars, TypeInv, TypeOK, TableTypeOK
<1>3. CASE Process(w, i)
  <2>1. PICK pc \in JobState : /\ JobGoes(w, i, pc)
                               /\ pc = "lock" => Findings[i] = "PASS"
                               /\ pc = "reject" => Findings[i] \in CheckReasons
                               /\ pc \notin {"check", "accept", "duplicate"}
    BY <1>1, <1>3 DEF Process
  <2> QED BY <1>2, <1>3, <2>1, JobGoesType DEF Process, TypeInv, TypeOK
<1>4. CASE ProcessingFails(w, i)
  BY <1>2, <1>4, JobGoesType, FaultType DEF ProcessingFails, TypeInv, TypeOK
<1>5. CASE RejectJob(w, i)
  BY <1>1, <1>5, JobEndsType, RejectType DEF RejectJob, TypeInv, TypeOK
<1>6. CASE RejectErrs(w, i)
  <2>1. TableTypeOK'
    BY <1>1, <1>2, <1>6, RejectType DEF RejectErrs, TypeInv, TypeOK
  <2> QED BY <1>6, <2>1, JobGoesType, FaultType DEF RejectErrs, TypeInv, TypeOK
<1>7. CASE LockUser(w, i)
  BY <1>1, <1>2, <1>7, JobGoesType DEF LockUser, TypeInv, TypeOK
<1>8. CASE FindDuplicate(w, i)
  <2>1. PICK pc \in {"accept", "duplicate"} : JobGoes(w, i, pc)
    BY <1>8 DEF FindDuplicate
  <2> QED BY <1>1, <1>2, <1>8, <2>1, JobGoesType DEF FindDuplicate, TypeInv, TypeOK
<1>9. CASE Commit(w, i)
  BY <1>9, JobEndsType, FinalizeType DEF Commit, TypeInv, TypeOK
<1>10. CASE CommitReplyLost(w, i)
  BY <1>10, JobGoesType, FinalizeType, FaultType DEF CommitReplyLost, TypeInv, TypeOK
<1>11. CASE TransactionErrs(w, i)
  BY <1>2, <1>11, JobGoesType, FaultType DEF TransactionErrs, TypeInv, TypeOK
<1>12. CASE Release(w, i)
  BY <1>12, JobEndsType, ReleaseType DEF Release, TypeInv, TypeOK
<1>13. CASE ReleaseErrs(w, i)
  <2>1. TableTypeOK'
    BY <1>2, <1>13, ReleaseType DEF ReleaseErrs, TypeInv, TypeOK
  <2> QED BY <1>13, <2>1, JobEndsType, FaultType DEF ReleaseErrs, TypeInv, TypeOK
<1> QED BY <1>3, <1>4, <1>5, <1>6, <1>7, <1>8, <1>9, <1>10, <1>11, <1>12, <1>13
        DEF JobStep, JobFault

LEMMA UserStepType ==
  ASSUME TypeInv, NEW i \in Image, Upload(i) \/ Delete(i) \/ TimePasses(i)
  PROVE  TypeInv'
<1>1. TableTypeOK'
  BY DEF TypeInv, TypeOK, Upload, Delete, TimePasses, Insert, Remove, LockGoesStale,
         TableTypeOK, Status
<1> QED BY <1>1 DEF TypeInv, TypeOK, JobsFollowFindings, Upload, Delete, TimePasses,
                    workerVars

(* Next has no steps but those the lemmas above and below treat. *)
LEMMA StepCases ==
  ASSUME [Next]_vars
  PROVE  \/ UNCHANGED vars
         \/ \E i \in Image : Upload(i) \/ Delete(i) \/ TimePasses(i)
         \/ \E w \in Worker : LoopStep(w) \/ LoopFault(w) \/ Start(w) \/ Stop(w)
         \/ \E w \in Worker, i \in Image : JobStep(w, i) \/ JobFault(w, i)
BY DEF Next

LEMMA TypeStep == TypeInv /\ [Next]_vars => TypeInv'
<1>1. ASSUME TypeInv, UNCHANGED vars PROVE TypeInv'
  BY <1>1 DEF vars, TypeInv, TypeOK, TableTypeOK, JobsFollowFindings
<1> QED BY <1>1, StepCases, UserStepType, LoopStepType, JobStepType

(* Every variable stays within its type: no claim takes an attempts count  *)
(* past MAX_ATTEMPTS, and no statement writes a reason the column cannot   *)
(* hold, which rests on the pipeline leading each job where it belongs.    *)
THEOREM TypeCorrect == Spec => []TypeOK
<1>1. TypeInv => TypeOK
  BY DEF TypeInv
<1> QED BY <1>1, TypeInit, TypeStep, PTL DEF Spec
-----------------------------------------------------------------------------
(* The table changes only by the statements of ImageQueue, and a job's     *)
(* statement only runs when the job has come to it.                        *)
TableEffect ==
  \/ UNCHANGED tableVars
  \/ \E i \in Image : Insert(i) \/ Remove(i) \/ LockGoesStale(i)
  \/ FailExhausted
  \/ \E batch \in SUBSET Image : /\ \A i \in batch : Claimable(i)
                                 /\ ClaimBatch(batch)
  \/ \E w \in Worker, i \in Image :
       \/ FinalizeVerdict(w, i)
       \/ jpc[w][i] = "reject" /\ Reject(i, token[w][i], Findings[i])
       \/ jpc[w][i] = "release" /\ ReleaseForRetry(i, token[w][i])

LEMMA TableSteps == [Next]_vars => TableEffect
<1> SUFFICES ASSUME [Next]_vars PROVE TableEffect
  OBVIOUS
<1>1. CASE UNCHANGED vars
  BY <1>1 DEF vars, tableVars, TableEffect
<1>2. CASE \E i \in Image : Upload(i) \/ Delete(i) \/ TimePasses(i)
  BY <1>2 DEF Upload, Delete, TimePasses, TableEffect
<1>3. ASSUME NEW w \in Worker, LoopStep(w) \/ LoopFault(w) \/ Start(w) \/ Stop(w)
      PROVE  TableEffect
  <2>1. \A skipped : Batch(skipped) \in SUBSET Image
    BY BatchIsClaimable
  <2>2. CASE Claim(w) \/ ClaimErrs(w)
    <3>1. \/ UNCHANGED tableVars
          \/ \E skipped \in SUBSET RowsInStatement : ClaimBatch(Batch(skipped))
      BY <2>2 DEF Claim, ClaimErrs
    <3> QED BY <2>1, <3>1, BatchIsClaimable DEF TableEffect
  <2>3. CASE ~(Claim(w) \/ ClaimErrs(w))
    BY <1>3, <2>3
    DEF LoopStep, LoopFault, RunFailExhausted, BatchSettles, Wake, FailExhaustedErrs,
        Crash, Start, Stop, TableEffect
  <2> QED BY <2>2, <2>3
<1>4. ASSUME NEW w \in Worker, NEW i \in Image, JobStep(w, i) \/ JobFault(w, i)
      PROVE  TableEffect
  <2>1. CASE Process(w, i) \/ ProcessingFails(w, i) \/ LockUser(w, i)
             \/ FindDuplicate(w, i) \/ TransactionErrs(w, i)
    BY <2>1 DEF Process, ProcessingFails, LockUser, FindDuplicate, TransactionErrs,
                TableEffect
  <2>2. CASE RejectJob(w, i) \/ RejectErrs(w, i)
    BY <2>2 DEF RejectJob, RejectErrs, TableEffect
  <2>3. CASE Commit(w, i) \/ CommitReplyLost(w, i)
    BY <2>3 DEF Commit, CommitReplyLost, TableEffect
  <2>4. CASE Release(w, i) \/ ReleaseErrs(w, i)
    BY <2>4 DEF Release, ReleaseErrs, TableEffect
  <2> QED BY <1>4, <2>1, <2>2, <2>3, <2>4 DEF JobStep, JobFault
<1> QED BY <1>1, <1>2, <1>3, <1>4, StepCases

(* A job's UPDATE keeps RowInv when what it writes is justified. *)
LEMMA UpdateOwnedRows ==
  ASSUME TypeOK, RowInv, NEW i \in Image, NEW t, NEW s \in Status, NEW r,
         UpdateOwned(i, t, s, r),
         t = attempts[i] =>
           /\ s = "FAILED" => t = MaxAttempts
           /\ s = "PENDING" => t < MaxAttempts,
         s \notin {"NONE", "PROCESSING"},
         s # "REJECTED" => r = "none",
         s = "ACCEPTED" => Findings[i] = "PASS",
         s = "REJECTED" =>
           \/ r = Findings[i]
           \/ /\ r = "DUPLICATE"
              /\ Findings[i] = "PASS"
              /\ \E j \in Image : LookAlike(j, i) /\ status[j] = "ACCEPTED"
  PROVE  RowInv'
<1>1. CASE UNCHANGED tableVars
  BY <1>1 DEF tableVars, RowInv, RowsStartFresh, OnlyRejectionsHaveReasons,
      AttemptsDecideFailure, ProcessingRowsAreLocked, VerdictsAreJustified
<1>2. CASE OwnedBy(i, t)
  <2>1. /\ status[i] = "PROCESSING" /\ attempts[i] = t
        /\ rows' = rows /\ attempts' = attempts
        /\ \A j \in Image : /\ status'[j] = IF j = i THEN s ELSE status[j]
                            /\ reason'[j] = IF j = i THEN r ELSE reason[j]
                            /\ lock'[j] = IF j = i THEN "null" ELSE lock[j]
    BY <1>2 DEF UpdateOwned, OwnedBy, TypeOK, TableTypeOK
  <2>2. (RowsStartFresh /\ OnlyRejectionsHaveReasons)'
    BY <2>1 DEF RowInv, RowsStartFresh, OnlyRejectionsHaveReasons
  <2>3. (AttemptsDecideFailure /\ ProcessingRowsAreLocked)'
    BY <2>1 DEF RowInv, AttemptsDecideFailure, ProcessingRowsAreLocked
  <2>4. \A j \in Image : status[j] = "ACCEPTED" => status'[j] = "ACCEPTED"
    BY <2>1
  <2>5. VerdictsAreJustified'
    BY <2>1, <2>4 DEF RowInv, VerdictsAreJustified
  <2> QED BY <2>2, <2>3, <2>5 DEF RowInv
<1> QED BY <1>1, <1>2 DEF UpdateOwned

LEMMA ClaimRows ==
  ASSUME TypeOK, RowInv, NEW batch \in SUBSET Image, \A i \in batch : Claimable(i),
         ClaimBatch(batch)
  PROVE  RowInv'
<1>1. /\ rows' = rows /\ reason' = reason
      /\ \A j \in Image :
           /\ status'[j] = IF j \in batch THEN "PROCESSING" ELSE status[j]
           /\ attempts'[j] = IF j \in batch THEN attempts[j] + 1 ELSE attempts[j]
           /\ lock'[j] = IF j \in batch THEN "live" ELSE lock[j]
  BY DEF ClaimBatch
<1>2. \A j \in batch : status[j] \in {"PENDING", "PROCESSING"}
  BY DEF Claimable, AwaitingWorker
<1>3. (RowsStartFresh /\ OnlyRejectionsHaveReasons)'
  BY <1>1, <1>2 DEF RowInv, RowsStartFresh, OnlyRejectionsHaveReasons
<1>4. (AttemptsDecideFailure /\ ProcessingRowsAreLocked)'
  BY <1>1 DEF RowInv, AttemptsDecideFailure, ProcessingRowsAreLocked
<1>5. \A j \in Image : /\ status[j] = "ACCEPTED" <=> status'[j] = "ACCEPTED"
                       /\ status'[j] = "REJECTED" => status[j] = "REJECTED"
  BY <1>1, <1>2
<1>6. VerdictsAreJustified'
  BY <1>1, <1>5 DEF RowInv, VerdictsAreJustified
<1> QED BY <1>3, <1>4, <1>6 DEF RowInv

LEMMA FailExhaustedRows ==
  ASSUME TypeOK, RowInv, FailExhausted
  PROVE  RowInv'
<1>1. /\ rows' = rows /\ reason' = reason /\ attempts' = attempts
      /\ \A j \in Image :
           /\ status'[j] = IF Exhausted(j) THEN "FAILED" ELSE status[j]
           /\ lock'[j] = IF Exhausted(j) THEN "null" ELSE lock[j]
  BY DEF FailExhausted
<1>2. \A j \in Image : Exhausted(j) => /\ status[j] \in {"PENDING", "PROCESSING"}
                                       /\ attempts[j] = MaxAttempts
  <2>1. \A j \in Image : attempts[j] \in 0 .. MaxAttempts
    BY DEF TypeOK, TableTypeOK
  <2> QED BY <2>1, LimitsArePositive DEF Exhausted, AwaitingWorker
<1>3. (RowsStartFresh /\ OnlyRejectionsHaveReasons)'
  BY <1>1, <1>2 DEF RowInv, RowsStartFresh, OnlyRejectionsHaveReasons
<1>4. (AttemptsDecideFailure /\ ProcessingRowsAreLocked)'
  BY <1>1, <1>2 DEF RowInv, AttemptsDecideFailure, ProcessingRowsAreLocked
<1>5. \A j \in Image : /\ status[j] = "ACCEPTED" <=> status'[j] = "ACCEPTED"
                       /\ status'[j] = "REJECTED" => status[j] = "REJECTED"
  BY <1>1, <1>2
<1>6. VerdictsAreJustified'
  BY <1>1, <1>5 DEF RowInv, VerdictsAreJustified
<1> QED BY <1>3, <1>4, <1>6 DEF RowInv

LEMMA RowStep ==
  ASSUME TypeOK, RowInv, JobInv, TableEffect
  PROVE  RowInv'
<1> USE DEF RowInv
<1>1. CASE UNCHANGED tableVars
  BY <1>1 DEF tableVars, RowsStartFresh, OnlyRejectionsHaveReasons,
      AttemptsDecideFailure, ProcessingRowsAreLocked, VerdictsAreJustified
<1>2. ASSUME NEW i \in Image, Insert(i) PROVE RowInv'
  <2>1. /\ \A j \in Image : status'[j] = IF j = i THEN "PENDING" ELSE status[j]
        /\ rows' = rows \cup {i} /\ UNCHANGED <<attempts, lock, reason>>
        /\ status[i] = "NONE"
    BY <1>2 DEF Insert, TypeOK, TableTypeOK
  <2>2. \A j \in Image : /\ status[j] = "ACCEPTED" <=> status'[j] = "ACCEPTED"
                         /\ status[j] = "REJECTED" <=> status'[j] = "REJECTED"
    BY <2>1
  <2>3. VerdictsAreJustified'
    BY <2>1, <2>2 DEF VerdictsAreJustified
  <2>4. (RowsStartFresh /\ OnlyRejectionsHaveReasons)'
    BY <2>1 DEF RowsStartFresh, OnlyRejectionsHaveReasons
  <2>5. (AttemptsDecideFailure /\ ProcessingRowsAreLocked)'
    BY <2>1, LimitsArePositive
    DEF AttemptsDecideFailure, ProcessingRowsAreLocked, RowsStartFresh
  <2> QED BY <2>3, <2>4, <2>5
<1>3. ASSUME NEW i \in Image, Remove(i) PROVE RowInv'
  BY <1>3 DEF Remove, RowsStartFresh, OnlyRejectionsHaveReasons,
      AttemptsDecideFailure, ProcessingRowsAreLocked, VerdictsAreJustified
<1>4. ASSUME NEW i \in Image, LockGoesStale(i) PROVE RowInv'
  <2>1. ProcessingRowsAreLocked'
    BY <1>4 DEF LockGoesStale, ProcessingRowsAreLocked, TypeOK, TableTypeOK
  <2> QED BY <1>4, <2>1 DEF LockGoesStale, RowsStartFresh, OnlyRejectionsHaveReasons,
             AttemptsDecideFailure, VerdictsAreJustified
<1>5. CASE FailExhausted
  BY <1>5, FailExhaustedRows
<1>6. ASSUME NEW batch \in SUBSET Image, \A i \in batch : Claimable(i), ClaimBatch(batch)
      PROVE  RowInv'
  BY <1>6, ClaimRows
<1>7. ASSUME NEW w \in Worker, NEW i \in Image, FinalizeVerdict(w, i) PROVE RowInv'
  <2>1. Findings[i] = "PASS"
    BY <1>7 DEF FinalizeVerdict, JobInv, JobsFollowFindings
  <2>2. CASE Accept(i, token[w][i])
    BY <2>1, <2>2, UpdateOwnedRows DEF Accept, Status, Terminal
  <2>3. CASE jpc[w][i] = "duplicate" /\ Reject(i, token[w][i], "DUPLICATE")
    <3>1. \E j \in Image : LookAlike(j, i) /\ status[j] = "ACCEPTED"
      BY <2>3 DEF JobInv, DuplicateQueryStillHolds
    <3> QED BY <2>1, <2>3, <3>1, UpdateOwnedRows DEF Reject, Status, Terminal
  <2> QED BY <1>7, <2>2, <2>3 DEF FinalizeVerdict
<1>8. ASSUME NEW w \in Worker, NEW i \in Image, Reject(i, token[w][i], Findings[i])
      PROVE  RowInv'
  BY <1>8, UpdateOwnedRows DEF Reject, Status, Terminal
<1>9. ASSUME NEW w \in Worker, NEW i \in Image, ReleaseForRetry(i, token[w][i])
      PROVE  RowInv'
  <2> DEFINE t == token[w][i]
             s == IF t >= MaxAttempts THEN "FAILED" ELSE "PENDING"
  <2>1. t \in 0 .. MaxAttempts
    BY DEF TypeOK
  <2>4. s = "FAILED" \/ s = "PENDING"
    OBVIOUS
  <2>5. (s = "FAILED" => t = MaxAttempts) /\ (s = "PENDING" => t < MaxAttempts)
    BY <2>1, LimitsArePositive
  <2>2. CASE UNCHANGED tableVars
    BY <1>1, <2>2
  <2>3. CASE ~UNCHANGED tableVars
    <3>1. OwnedBy(i, t) /\ UpdateOwned(i, t, s, reason[i])
      BY <1>9, <2>3 DEF ReleaseForRetry, UpdateOwned
    <3>2. reason[i] = "none"
      BY <3>1 DEF OwnedBy, OnlyRejectionsHaveReasons
    <3> HIDE DEF s, t
    <3> QED BY <2>4, <2>5, <3>1, <3>2, UpdateOwnedRows DEF Status, Terminal
  <2> QED BY <2>2, <2>3
<1> QED BY <1>1, <1>2, <1>3, <1>4, <1>5, <1>6, <1>7, <1>8, <1>9 DEF TableEffect
-----------------------------------------------------------------------------
(* What a statement never undoes. *)
TableMonotone ==
  /\ \A i \in Image : attempts[i] <= attempts'[i]
  /\ \A i \in Image : status[i] \in Terminal =>
                        status'[i] = status[i] /\ reason'[i] = reason[i]
  /\ \A i \in Image : status'[i] = "ACCEPTED" /\ status[i] # "ACCEPTED" =>
       /\ i \in rows
       /\ \E w \in Worker : jpc[w][i] = "accept"
       /\ \A j \in Image : j # i => status'[j] = status[j]
  /\ \A i \in rows' : i \in rows \/ status'[i] = "PENDING"

LEMMA MonotoneUpdate ==
  ASSUME TypeOK, NEW i \in Image, NEW t, NEW s, NEW r, UpdateOwned(i, t, s, r),
         s = "ACCEPTED" => \E w \in Worker : jpc[w][i] = "accept"
  PROVE  TableMonotone
<1>0. \A j \in Image : attempts[j] \in Int
  BY LimitsArePositive DEF TypeOK, TableTypeOK
<1>1. CASE UNCHANGED tableVars
  BY <1>0, <1>1 DEF tableVars, TableMonotone
<1>2. CASE ~UNCHANGED tableVars
  <2>1. /\ status[i] = "PROCESSING" /\ i \in rows
        /\ rows' = rows /\ attempts' = attempts
        /\ \A j \in Image : /\ status'[j] = IF j = i THEN s ELSE status[j]
                            /\ reason'[j] = IF j = i THEN r ELSE reason[j]
    BY <1>2 DEF UpdateOwned, OwnedBy, TypeOK, TableTypeOK
  <2> QED BY <1>0, <2>1 DEF TableMonotone, Terminal
<1> QED BY <1>1, <1>2

LEMMA TableStepsAreMonotone ==
  ASSUME TypeOK, RowInv, TableEffect
  PROVE  TableMonotone
<1>0. \A i \in Image : attempts[i] \in Int
  BY LimitsArePositive DEF TypeOK, TableTypeOK
<1>1. CASE UNCHANGED tableVars
  BY <1>0, <1>1 DEF tableVars, TableMonotone
<1>2. ASSUME NEW i \in Image, Insert(i) \/ Remove(i) \/ LockGoesStale(i)
      PROVE  TableMonotone
  <2>1. /\ \A j \in Image : status'[j] = status[j] \/ (status[j] = "NONE" /\ status'[j] = "PENDING")
        /\ \A j \in rows' : j \in rows \/ status'[j] = "PENDING"
        /\ UNCHANGED <<attempts, reason>>
    BY <1>2 DEF Insert, Remove, LockGoesStale, TypeOK, TableTypeOK
  <2> QED BY <1>0, <2>1 DEF TableMonotone, Terminal
<1>3. CASE FailExhausted
  <2>1. /\ rows' = rows /\ UNCHANGED <<attempts, reason>>
        /\ \A j \in Image : \/ status'[j] = status[j]
                            \/ /\ status[j] \in {"PENDING", "PROCESSING"}
                               /\ status'[j] = "FAILED"
    BY <1>3 DEF FailExhausted, Exhausted, AwaitingWorker
  <2> QED BY <1>0, <2>1 DEF TableMonotone, Terminal
<1>4. ASSUME NEW batch \in SUBSET Image, \A i \in batch : Claimable(i), ClaimBatch(batch)
      PROVE  TableMonotone
  <2>1. /\ rows' = rows /\ UNCHANGED reason
        /\ \A j \in Image :
             /\ attempts'[j] = attempts[j] \/ attempts'[j] = attempts[j] + 1
             /\ \/ status'[j] = status[j]
                \/ /\ status[j] \in {"PENDING", "PROCESSING"}
                   /\ status'[j] = "PROCESSING"
    BY <1>4 DEF ClaimBatch, Claimable, AwaitingWorker
  <2> QED BY <1>0, <2>1 DEF TableMonotone, Terminal
<1>5. ASSUME NEW w \in Worker, NEW i \in Image,
             \/ FinalizeVerdict(w, i)
             \/ Reject(i, token[w][i], Findings[i])
             \/ ReleaseForRetry(i, token[w][i])
      PROVE  TableMonotone
  <2>1. CASE FinalizeVerdict(w, i)
    BY <2>1, MonotoneUpdate DEF FinalizeVerdict, Accept, Reject
  <2>2. CASE Reject(i, token[w][i], Findings[i])
    BY <2>2, MonotoneUpdate DEF Reject
  <2>3. CASE ReleaseForRetry(i, token[w][i])
    BY <2>3, MonotoneUpdate DEF ReleaseForRetry
  <2> QED BY <1>5, <2>1, <2>2, <2>3
<1> QED BY <1>1, <1>2, <1>3, <1>4, <1>5 DEF TableEffect

(* The jobs change only as follows. *)
KeepsJob(w, i) == /\ HasJob(w, i)
                  /\ token'[w][i] = token[w][i]
                  /\ loop'[w] = loop[w]

DrawsToken(w, i) == /\ loop'[w] = "batch"
                    /\ loop[w] = "claim"
                    /\ jpc'[w][i] = "working"
                    /\ token'[w][i] = attempts[i] + 1
                    /\ attempts'[i] = attempts[i] + 1
                    /\ \A v \in Worker : v # w => jpc'[v] = jpc[v] /\ token'[v] = token[v]

JobMove(w, i) ==
  /\ HasJob(w, i)' => KeepsJob(w, i) \/ DrawsToken(w, i)
  /\ HoldsUserLock(w, i)' => \/ HoldsUserLock(w, i)
                             \/ /\ UserLockIsFree(Owner[i])
                                /\ \A v \in Worker, j \in Image :
                                     v # w \/ j # i => jpc'[v][j] = jpc[v][j]
  /\ jpc'[w][i] = "accept" => \/ jpc[w][i] = "accept"
                              \/ /\ AcceptedLookAlikes(i) = {}
                                 /\ UNCHANGED tableVars
  /\ jpc'[w][i] = "duplicate" => \/ jpc[w][i] = "duplicate"
                                 \/ AcceptedLookAlikes(i) # {} /\ UNCHANGED tableVars

LEMMA JobsStand ==
  ASSUME TypeOK, UNCHANGED <<jpc, token>>,
         \A v \in Worker, j \in Image : HasJob(v, j) => loop'[v] = loop[v]
  PROVE  \A v \in Worker, j \in Image : JobMove(v, j)
BY DEF JobMove, KeepsJob, HasJob, HoldsUserLock

LEMMA OneJobMoves ==
  ASSUME TypeOK, NEW w \in Worker, NEW i \in Image, JobStep(w, i) \/ JobFault(w, i)
  PROVE  \A v \in Worker, j \in Image : JobMove(v, j)
<1>1. /\ HasJob(w, i) /\ UNCHANGED loop
      /\ \E pc \in JobState : /\ JobGoes(w, i, pc) \/ (pc = "none" /\ JobEnds(w, i))
                              /\ pc = "check" => LockUser(w, i)
                              /\ pc = "accept" => FindDuplicate(w, i)
                              /\ pc = "duplicate" => FindDuplicate(w, i)
  BY DEF JobStep, JobFault, Process, ProcessingFails, RejectJob, RejectErrs, LockUser,
         FindDuplicate, Commit, CommitReplyLost, TransactionErrs, Release, ReleaseErrs,
         FinalizeVerdict, HasJob, JobGoes, JobEnds, JobState
<1>2. PICK pc \in JobState : /\ JobGoes(w, i, pc) \/ (pc = "none" /\ JobEnds(w, i))
                             /\ pc = "check" => LockUser(w, i)
                             /\ pc = "accept" => FindDuplicate(w, i)
                             /\ pc = "duplicate" => FindDuplicate(w, i)
  BY <1>1
<1>3. \A v \in Worker, j \in Image :
        /\ jpc'[v][j] = IF v = w /\ j = i THEN pc ELSE jpc[v][j]
        /\ HasJob(v, j)' => token'[v][j] = token[v][j]
  BY <1>2 DEF JobGoes, JobEnds, TypeOK, HasJob
<1>4. pc = "check" => UserLockIsFree(Owner[i])
  BY <1>2 DEF LockUser
<1>5. pc \in {"accept", "duplicate"} =>
        /\ jpc[w][i] = "check"
        /\ UNCHANGED tableVars
        /\ pc = "accept" <=> AcceptedLookAlikes(i) = {}
  BY <1>2, <1>3 DEF FindDuplicate, JobGoes, TypeOK
<1>6. ASSUME NEW v \in Worker, NEW j \in Image
      PROVE  JobMove(v, j)
  <2>1. HasJob(v, j)' => KeepsJob(v, j)
    BY <1>1, <1>3 DEF HasJob, KeepsJob
  <2>2. CASE v = w /\ j = i
    BY <1>3, <1>4, <1>5, <2>1, <2>2 DEF JobMove, HoldsUserLock
  <2>3. CASE ~(v = w /\ j = i)
    BY <1>3, <2>1, <2>3 DEF JobMove, HoldsUserLock
  <2> QED BY <2>2, <2>3
<1> QED BY <1>6

LEMMA JobsMove ==
  ASSUME TypeOK, JobsBelongToABatch, [Next]_vars
  PROVE  \A v \in Worker, j \in Image : JobMove(v, j)
<1>1. CASE UNCHANGED vars
  BY <1>1, JobsStand DEF vars
<1>2. CASE \E i \in Image : Upload(i) \/ Delete(i) \/ TimePasses(i)
  BY <1>2, JobsStand DEF Upload, Delete, TimePasses, workerVars
<1>3. ASSUME NEW w \in Worker,
             \/ RunFailExhausted(w) \/ BatchSettles(w) \/ Wake(w) \/ Start(w) \/ Stop(w)
             \/ FailExhaustedErrs(w) \/ ClaimErrs(w)
      PROVE  \A v \in Worker, j \in Image : JobMove(v, j)
  <2>1. /\ UNCHANGED <<jpc, token>>
        /\ UNCHANGED loop \/ \E pc : LoopGoes(w, pc)
    BY <1>3 DEF RunFailExhausted, BatchSettles, Wake, Start, Stop, FailExhaustedErrs,
                ClaimErrs, NextRound
  <2>2. \A v \in Worker : v # w => loop'[v] = loop[v]
    BY <2>1 DEF LoopGoes, TypeOK
  <2>3. Stop(w) \/ \A j \in Image : ~HasJob(w, j)
    BY <1>3 DEF RunFailExhausted, BatchSettles, Wake, Start, FailExhaustedErrs, ClaimErrs,
                JobsBelongToABatch, HasJob
  <2>4. Stop(w) => UNCHANGED loop
    BY DEF Stop
  <2> QED BY <2>1, <2>2, <2>3, <2>4, JobsStand
<1>4. ASSUME NEW w \in Worker, Claim(w)
      PROVE  \A v \in Worker, j \in Image : JobMove(v, j)
  <2>1. PICK batch : /\ \A i \in batch : i \in Image /\ Claimable(i)
                     /\ ClaimBatch(batch)
                     /\ BeginJobs(w, batch)
                     /\ LoopGoes(w, IF batch = {} THEN "idle" ELSE "batch")
    BY <1>4, BatchIsClaimable DEF Claim
  <2>2. /\ \A v \in Worker : v # w => jpc'[v] = jpc[v] /\ token'[v] = token[v] /\ loop'[v] = loop[v]
        /\ \A j \in Image : jpc'[w][j] = IF j \in batch THEN "working" ELSE "none"
        /\ \A j \in batch : /\ token'[w][j] = attempts[j] + 1
                            /\ attempts'[j] = attempts[j] + 1
                            /\ loop'[w] = "batch"
    BY <2>1 DEF BeginJobs, LoopGoes, ClaimBatch, TypeOK
  <2>3. loop[w] = "claim"
    BY <1>4 DEF Claim
  <2>4. \A j \in Image : JobMove(w, j)
    BY <2>2, <2>3 DEF JobMove, DrawsToken, HasJob, HoldsUserLock
  <2>5. \A v \in Worker, j \in Image : v # w => JobMove(v, j)
    BY <2>2 DEF JobMove, KeepsJob, HasJob, HoldsUserLock
  <2> QED BY <2>4, <2>5
<1>5. ASSUME NEW w \in Worker, Crash(w)
      PROVE  \A v \in Worker, j \in Image : JobMove(v, j)
  <2>1. \A v \in Worker : v # w => jpc'[v] = jpc[v] /\ token'[v] = token[v] /\ loop'[v] = loop[v]
    BY <1>5 DEF Crash, LoopGoes, TypeOK
  <2>2. \A j \in Image : jpc'[w][j] = "none"
    BY <1>5 DEF Crash, TypeOK
  <2> QED BY <2>1, <2>2 DEF JobMove, KeepsJob, HasJob, HoldsUserLock
<1> QED BY <1>1, <1>2, <1>3, <1>4, <1>5, OneJobMoves, StepCases DEF LoopStep, LoopFault

(* The jobs' invariants. *)
LEMMA JobInvStep ==
  ASSUME TypeOK, TypeOK', RowInv, JobInv, TableMonotone, JobsFollowFindings',
         \A v \in Worker, j \in Image : JobMove(v, j)
  PROVE  JobInv'
<1> USE DEF JobInv
<1>0. \A w \in Worker, i \in Image : /\ attempts[i] \in Int /\ attempts'[i] \in Int
                                     /\ token[w][i] \in Int
  BY LimitsArePositive DEF TypeOK, TableTypeOK
<1>1. JobsBelongToABatch'
  BY DEF JobMove, KeepsJob, DrawsToken, JobsBelongToABatch
<1>2. TokensWereDrawn'
  <2> SUFFICES ASSUME NEW w \in Worker, NEW i \in Image, HasJob(w, i)'
               PROVE  token'[w][i] <= attempts'[i]
    BY DEF TokensWereDrawn
  <2>1. CASE KeepsJob(w, i)
    BY <1>0, <2>1 DEF KeepsJob, TokensWereDrawn, TableMonotone
  <2>2. CASE DrawsToken(w, i)
    BY <1>0, <2>2 DEF DrawsToken
  <2> QED BY <2>1, <2>2 DEF JobMove
<1>3. ClaimsAreFenced'
  <2> SUFFICES ASSUME NEW w1 \in Worker, NEW w2 \in Worker, NEW i \in Image, w1 # w2,
                      HasJob(w1, i)', HasJob(w2, i)'
               PROVE  token'[w1][i] # token'[w2][i]
    BY DEF ClaimsAreFenced
  <2>1. CASE KeepsJob(w1, i) /\ KeepsJob(w2, i)
    BY <2>1 DEF KeepsJob, ClaimsAreFenced
  <2>2. ASSUME NEW v1 \in Worker, NEW v2 \in Worker, v1 # v2, DrawsToken(v1, i),
               HasJob(v2, i)'
        PROVE  token'[v2][i] < token'[v1][i]
    <3>1. HasJob(v2, i) /\ token'[v2][i] = token[v2][i]
      BY <2>2 DEF DrawsToken, HasJob
    <3> QED BY <1>0, <2>2, <3>1 DEF DrawsToken, TokensWereDrawn
  <2>3. CASE DrawsToken(w1, i) \/ DrawsToken(w2, i)
    BY <1>0, <2>2, <2>3 DEF TypeOK
  <2> QED BY <2>1, <2>3 DEF JobMove
<1>4. UserLockIsExclusive'
  BY DEF JobMove, UserLockIsExclusive, UserLockIsFree, HoldsUserLock
<1>5. ASSUME NEW w \in Worker, NEW i \in Image, jpc'[w][i] = "accept"
      PROVE  AcceptedLookAlikes(i)' = {}
  <2>1. CASE AcceptedLookAlikes(i) = {} /\ UNCHANGED tableVars
    BY <2>1 DEF tableVars, AcceptedLookAlikes
  <2>2. CASE jpc[w][i] = "accept"
    <3>1. AcceptedLookAlikes(i) = {}
      BY <2>2 DEF DuplicateQueryStillHolds
    <3> SUFFICES ASSUME NEW j \in rows', status'[j] = "ACCEPTED", LookAlike(j, i)
                 PROVE  FALSE
      BY DEF AcceptedLookAlikes
    <3>2. j \in Image /\ j \in rows
      BY DEF TableMonotone, TypeOK, TableTypeOK
    <3>3. status[j] # "ACCEPTED"
      BY <3>1, <3>2 DEF AcceptedLookAlikes
    <3>4. PICK v \in Worker : jpc[v][j] = "accept"
      BY <3>2, <3>3 DEF TableMonotone
    <3> QED BY <2>2, <3>2, <3>4 DEF UserLockIsExclusive, HoldsUserLock, LookAlike
  <2> QED BY <1>5, <2>1, <2>2 DEF JobMove
<1>6. ASSUME NEW w \in Worker, NEW i \in Image, jpc'[w][i] = "duplicate"
      PROVE  \E j \in Image : LookAlike(j, i) /\ status'[j] = "ACCEPTED"
  <2>1. \E j \in Image : LookAlike(j, i) /\ status[j] = "ACCEPTED"
    BY <1>6 DEF JobMove, DuplicateQueryStillHolds, AcceptedLookAlikes, TypeOK, TableTypeOK
  <2> QED BY <2>1 DEF TableMonotone, Terminal
<1>7. DuplicateQueryStillHolds'
  BY <1>5, <1>6 DEF DuplicateQueryStillHolds
<1> QED BY <1>1, <1>2, <1>3, <1>4, <1>7

LEMMA LookAlikesStep ==
  ASSUME TypeOK, JobInv, NoAcceptedLookAlikes, TableMonotone
  PROVE  NoAcceptedLookAlikes'
<1> SUFFICES ASSUME NEW i \in rows', NEW j \in rows', status'[i] = "ACCEPTED",
                    status'[j] = "ACCEPTED", LookAlike(i, j)
             PROVE  FALSE
  BY DEF NoAcceptedLookAlikes
<1>1. i \in rows /\ j \in rows /\ i \in Image /\ j \in Image
  BY DEF TableMonotone, TypeOK, TableTypeOK
<1>2. LookAlike(j, i) /\ i # j
  BY <1>1, NearIsSymmetric DEF LookAlike
<1>3. status[i] = "ACCEPTED" \/ status[j] = "ACCEPTED"
  BY <1>1, <1>2 DEF TableMonotone
<1>4. ASSUME NEW k \in rows, NEW l \in rows, LookAlike(k, l), status[k] = "ACCEPTED",
             status[l] # "ACCEPTED", status'[l] = "ACCEPTED"
      PROVE  FALSE
  <2>1. l \in Image
    BY DEF TypeOK, TableTypeOK
  <2>2. PICK w \in Worker : jpc[w][l] = "accept"
    BY <1>4, <2>1 DEF TableMonotone
  <2>3. AcceptedLookAlikes(l) = {}
    BY <2>1, <2>2 DEF JobInv, DuplicateQueryStillHolds
  <2> QED BY <1>4, <2>3 DEF AcceptedLookAlikes
<1> QED BY <1>1, <1>2, <1>3, <1>4 DEF NoAcceptedLookAlikes

(* Without faults a claimed row keeps its job until that job is done with it. *)
Attended(i) == \E w \in Worker : HasJob(w, i) /\ token[w][i] = attempts[i]

LEMMA StillAttended ==
  ASSUME NEW i \in Image, Attended(i), UNCHANGED tableVars, UNCHANGED <<jpc, token>>
  PROVE  Attended(i)'
BY DEF Attended, tableVars, HasJob, OwnedBy

LEMMA JobStepAttends ==
  ASSUME IInv, NEW w \in Worker, NEW k \in Image, JobStep(w, k) \/ JobFault(w, k),
         faults' = 0, NEW i \in rows', status'[i] = "PROCESSING"
  PROVE  Attended(i)'
<1>1. faults = 0 /\ UNCHANGED faults
  <2>1. ~Fault
    BY FaultsAreBounded DEF Fault, IInv, TypeOK
  <2> QED BY <2>1 DEF JobStep, JobFault, Process, ProcessingFails, RejectJob, RejectErrs,
             LockUser, FindDuplicate, Commit, CommitReplyLost, TransactionErrs, Release,
             ReleaseErrs
<1>2. ~Fault
  BY <1>1, FaultsAreBounded DEF Fault, IInv, TypeOK
<1>3. \/ UNCHANGED tableVars /\ \E pc \in JobState \ {"none"} : JobGoes(w, k, pc)
      \/ \E s, r : UpdateOwned(k, token[w][k], s, r) /\ s # "PROCESSING" /\ JobEnds(w, k)
  BY <1>2 DEF JobStep, JobFault, Process, ProcessingFails, RejectJob, RejectErrs,
      LockUser, FindDuplicate, Commit, CommitReplyLost, TransactionErrs, Release,
      ReleaseErrs, FinalizeVerdict, Accept, Reject, ReleaseForRetry, JobState
<1>4. HasJob(w, k)
  BY DEF JobStep, JobFault, Process, ProcessingFails, RejectJob, RejectErrs, LockUser,
      FindDuplicate, Commit, CommitReplyLost, TransactionErrs, Release, ReleaseErrs,
      FinalizeVerdict, HasJob
<1>5. CASE UNCHANGED tableVars /\ \E pc \in JobState \ {"none"} : JobGoes(w, k, pc)
  <2>1. i \in Image /\ Attended(i)
    BY <1>1, <1>5 DEF tableVars, IInv, NoClaimIsAbandoned, Attended, TypeOK, TableTypeOK
  <2>2. \A v \in Worker : HasJob(v, i) => HasJob(v, i)' /\ token'[v][i] = token[v][i]
    BY <1>5, <2>1 DEF JobGoes, HasJob, IInv, TypeOK
  <2> QED BY <1>5, <2>1, <2>2 DEF Attended, tableVars, OwnedBy
<1>6. ASSUME NEW s, NEW r, UpdateOwned(k, token[w][k], s, r), s # "PROCESSING",
             JobEnds(w, k)
      PROVE  Attended(i)'
  <2>1. /\ i \in rows /\ i \in Image /\ rows' = rows /\ attempts' = attempts
        /\ status[i] = "PROCESSING"
        /\ i = k => ~OwnedBy(k, token[w][k])
    BY <1>6 DEF UpdateOwned, OwnedBy, tableVars, IInv, TypeOK, TableTypeOK
  <2>2. PICK v \in Worker : HasJob(v, i) /\ token[v][i] = attempts[i]
    BY <1>1, <2>1 DEF IInv, NoClaimIsAbandoned
  <2>3. ~(v = w /\ i = k)
    BY <2>1, <2>2 DEF OwnedBy
  <2>4. HasJob(v, i)' /\ token'[v][i] = token[v][i]
    BY <1>6, <2>1, <2>2, <2>3 DEF JobEnds, HasJob, IInv, TypeOK
  <2> QED BY <2>1, <2>2, <2>4 DEF Attended, OwnedBy
<1> QED BY <1>3, <1>5, <1>6

LEMMA AttendedStep == IInv /\ [Next]_vars => NoClaimIsAbandoned'
<1> SUFFICES ASSUME IInv, [Next]_vars, faults' = 0, NEW i \in rows',
                    status'[i] = "PROCESSING"
             PROVE  Attended(i)'
  BY DEF NoClaimIsAbandoned, Attended
<1>1. ASSUME i \in rows, status[i] = "PROCESSING", faults = 0
      PROVE  i \in Image /\ Attended(i)
  BY <1>1 DEF IInv, NoClaimIsAbandoned, Attended, TypeOK, TableTypeOK
<1>2. CASE UNCHANGED vars
  BY <1>1, <1>2, StillAttended DEF vars, tableVars
<1>3. ASSUME NEW k \in Image, Upload(k) \/ Delete(k) \/ TimePasses(k)
      PROVE  Attended(i)'
  <2>1. /\ UNCHANGED <<jpc, token, faults, attempts>>
        /\ i \in rows /\ status[i] = "PROCESSING"
    BY <1>3 DEF Upload, Delete, TimePasses, Insert, Remove, LockGoesStale, workerVars, IInv,
                TypeOK, TableTypeOK
  <2> QED BY <1>1, <2>1 DEF Attended, HasJob, OwnedBy
<1>4. ASSUME NEW w \in Worker, LoopStep(w) \/ LoopFault(w) \/ Start(w) \/ Stop(w)
      PROVE  Attended(i)'
  <2>0. ~Fault \/ faults' # 0
    BY FaultsAreBounded DEF Fault, IInv, TypeOK
  <2>1. CASE RunFailExhausted(w)
    <3>1. /\ UNCHANGED <<jpc, token, faults, attempts, rows>>
          /\ status[i] = "PROCESSING" /\ i \in Image
      BY <1>4, <2>1 DEF RunFailExhausted, FailExhausted, IInv, TypeOK, TableTypeOK
    <3> QED BY <1>1, <3>1 DEF Attended, HasJob, OwnedBy
  <2>2. CASE Claim(w)
    <3>1. PICK batch : /\ \A j \in batch : j \in Image /\ Claimable(j)
                       /\ ClaimBatch(batch)
                       /\ BeginJobs(w, batch)
      BY <2>2, BatchIsClaimable DEF Claim
    <3>2. /\ rows' = rows /\ i \in rows /\ i \in Image
          /\ status[i] = "PROCESSING" \/ i \in batch
          /\ attempts'[i] = IF i \in batch THEN attempts[i] + 1 ELSE attempts[i]
          /\ faults = 0
      BY <2>2, <3>1 DEF Claim, ClaimBatch, IInv, TypeOK, TableTypeOK
    <3>3. CASE i \in batch
      <4>1. HasJob(w, i)' /\ token'[w][i] = attempts[i] + 1
        BY <3>1, <3>2, <3>3 DEF BeginJobs, HasJob, IInv, TypeOK
      <4> QED BY <3>2, <3>3, <4>1 DEF Attended, OwnedBy
    <3>4. CASE i \notin batch
      <4>1. PICK v \in Worker : HasJob(v, i) /\ token[v][i] = attempts[i]
        BY <1>1, <3>2, <3>4 DEF Attended
      <4>2. v # w
        BY <2>2, <3>2, <4>1 DEF Claim, IInv, JobInv, JobsBelongToABatch
      <4>3. HasJob(v, i)' /\ token'[v][i] = token[v][i]
        BY <3>1, <3>2, <4>1, <4>2 DEF BeginJobs, HasJob, IInv, TypeOK
      <4> QED BY <3>2, <3>4, <4>1, <4>3 DEF Attended, OwnedBy
    <3> QED BY <3>3, <3>4
  <2>3. CASE BatchSettles(w) \/ Wake(w) \/ Start(w) \/ Stop(w)
    <3>1. UNCHANGED <<jpc, token, faults>> /\ UNCHANGED tableVars
      BY <2>3 DEF BatchSettles, Wake, Start, Stop
    <3> QED BY <1>1, <3>1, StillAttended DEF tableVars
  <2> QED BY <1>4, <2>0, <2>1, <2>2, <2>3
      DEF LoopStep, LoopFault, FailExhaustedErrs, ClaimErrs, Crash
<1> QED BY <1>2, <1>3, <1>4, JobStepAttends, StepCases

-----------------------------------------------------------------------------
LEMMA InvInit == Init => IInv
<1> SUFFICES ASSUME Init PROVE IInv
  OBVIOUS
<1>1. TypeInv
  BY TypeInit
<1>2. RowInv
  BY DEF Init, TableInit, RowInv, RowsStartFresh, OnlyRejectionsHaveReasons,
      AttemptsDecideFailure, ProcessingRowsAreLocked, VerdictsAreJustified
<1>3. \A w \in Worker, i \in Image : jpc[w][i] = "none"
  BY DEF Init
<1>4. JobInv
  BY <1>1, <1>3 DEF TypeInv, JobInv, JobsBelongToABatch, TokensWereDrawn, ClaimsAreFenced,
      UserLockIsExclusive, DuplicateQueryStillHolds, HasJob, HoldsUserLock
<1>5. NoAcceptedLookAlikes /\ NoClaimIsAbandoned
  BY DEF Init, TableInit, NoAcceptedLookAlikes, NoClaimIsAbandoned
<1> QED BY <1>1, <1>2, <1>4, <1>5 DEF IInv, TypeInv

LEMMA StepIsMonotone == IInv /\ [Next]_vars => TableMonotone
BY TableSteps, TableStepsAreMonotone DEF IInv

LEMMA InvStep == IInv /\ [Next]_vars => IInv'
<1> SUFFICES ASSUME IInv, [Next]_vars PROVE IInv'
  OBVIOUS
<1>1. TypeOK' /\ JobsFollowFindings'
  BY TypeStep DEF IInv, JobInv, TypeInv
<1>2. TableEffect /\ TableMonotone
  BY TableSteps, StepIsMonotone
<1>3. RowInv'
  BY <1>2, RowStep DEF IInv
<1>4. \A v \in Worker, j \in Image : JobMove(v, j)
  BY JobsMove DEF IInv, JobInv
<1>5. JobInv'
  BY <1>1, <1>2, <1>4, JobInvStep DEF IInv
<1>6. NoAcceptedLookAlikes'
  BY <1>2, LookAlikesStep DEF IInv
<1> QED BY <1>1, <1>3, <1>5, <1>6, AttendedStep DEF IInv

(* The inductive invariant holds for any number of images, users and       *)
(* workers, any limits and any number of faults.                           *)
THEOREM Invariance == Spec => []IInv
BY InvInit, InvStep, PTL DEF Spec

(* However the accept transactions of any number of workers interleave,    *)
(* fail and are retried, no user ever has two accepted look-alikes.        *)
THEOREM AtMostOneLookAlikeAccepted == Spec => []NoAcceptedLookAlikes
<1>1. IInv => NoAcceptedLookAlikes
  BY DEF IInv
<1> QED BY <1>1, Invariance, PTL
(* Verdicts and failures are the ones the findings and the attempts call   *)
(* for, and a PROCESSING row can always be claimed again.                  *)
THEOREM RowsAreSound ==
  Spec => [](VerdictsAreJustified /\ AttemptsDecideFailure /\ ProcessingRowsAreLocked)
<1>1. IInv => VerdictsAreJustified /\ AttemptsDecideFailure /\ ProcessingRowsAreLocked
  BY DEF IInv, RowInv
<1> QED BY <1>1, Invariance, PTL

(* `attempts` is a fencing token: two jobs of a photo never share one. *)
THEOREM ClaimsStayFenced == Spec => []ClaimsAreFenced
<1>1. IInv => ClaimsAreFenced
  BY DEF IInv, JobInv
<1> QED BY <1>1, Invariance, PTL

(* Without faults, no stop or restart leaves a claimed row without a job. *)
THEOREM CleanShutdown == Spec => []NoClaimIsAbandoned
<1>1. IInv => NoClaimIsAbandoned
  BY DEF IInv
<1> QED BY <1>1, Invariance, PTL

(* No step of any worker, late or repeated, changes a recorded verdict. *)
THEOREM VerdictsStayFinal == Spec => VerdictsAreFinal
<1>1. IInv /\ [Next]_vars =>
        [\A i \in Image : status[i] \in Terminal =>
           status'[i] = status[i] /\ reason'[i] = reason[i]]_vars
  BY StepIsMonotone DEF TableMonotone
<1> QED BY <1>1, Invariance, PTL DEF Spec, VerdictsAreFinal

(* What OnlyTheLatestClaimDecides says of one step. *)
DecidedByTheLatestClaim(i) ==
  \/ \E w \in Worker : /\ HasJob(w, i)
                       /\ token[w][i] = attempts[i]
                       /\ jpc'[w][i] # jpc[w][i]
  \/ /\ status'[i] = "FAILED"
     /\ attempts[i] = MaxAttempts
     /\ lock[i] = "stale"

LEMMA OneJobDecides ==
  ASSUME TypeOK, NEW w \in Worker, NEW k \in Image, JobStep(w, k) \/ JobFault(w, k),
         NEW i \in Image, status[i] = "PROCESSING", status'[i] # "PROCESSING"
  PROVE  DecidedByTheLatestClaim(i)
<1>1. /\ HasJob(w, k)
      /\ \/ UNCHANGED tableVars
         \/ \E s, r : UpdateOwned(k, token[w][k], s, r)
      /\ \E pc : pc # jpc[w][k] /\ (JobGoes(w, k, pc) \/ (pc = "none" /\ JobEnds(w, k)))
  BY DEF JobStep, JobFault, Process, ProcessingFails, RejectJob, RejectErrs, LockUser,
      FindDuplicate, Commit, CommitReplyLost, TransactionErrs, Release, ReleaseErrs,
      FinalizeVerdict, Accept, Reject, ReleaseForRetry, HasJob
<1>2. i = k /\ OwnedBy(k, token[w][k])
  BY <1>1 DEF UpdateOwned, tableVars, TypeOK, TableTypeOK
<1>3. jpc'[w][k] # jpc[w][k]
  BY <1>1 DEF JobGoes, JobEnds, TypeOK
<1> QED BY <1>1, <1>2, <1>3 DEF DecidedByTheLatestClaim, OwnedBy

LEMMA StepIsDecided ==
  ASSUME IInv, [Next]_vars, NEW i \in Image, status[i] = "PROCESSING",
         status'[i] # "PROCESSING"
  PROVE  DecidedByTheLatestClaim(i)
<1>0. TypeOK
  BY DEF IInv
<1>1. CASE UNCHANGED vars
  BY <1>1 DEF vars
<1>2. ASSUME NEW k \in Image, Upload(k) \/ Delete(k) \/ TimePasses(k) PROVE FALSE
  BY <1>0, <1>2 DEF Upload, Delete, TimePasses, Insert, Remove, LockGoesStale, TypeOK,
      TableTypeOK
<1>3. ASSUME NEW w \in Worker, LoopStep(w) \/ LoopFault(w) \/ Start(w) \/ Stop(w)
      PROVE  DecidedByTheLatestClaim(i)
  <2>1. CASE FailExhausted
    <3>1. Exhausted(i) /\ status'[i] = "FAILED"
      BY <2>1 DEF FailExhausted
    <3>2. attempts[i] \in 0 .. MaxAttempts
      BY <1>0 DEF TypeOK, TableTypeOK
    <3> QED BY <3>1, <3>2, LimitsArePositive
            DEF Exhausted, AwaitingWorker, DecidedByTheLatestClaim
  <2>2. ~(UNCHANGED tableVars \/ \E batch : ClaimBatch(batch))
    BY DEF tableVars, ClaimBatch
  <2> QED BY <1>3, <2>1, <2>2
      DEF LoopStep, LoopFault, RunFailExhausted, Claim, BatchSettles, Wake,
          FailExhaustedErrs, ClaimErrs, Crash, Start, Stop
<1> QED BY <1>0, <1>1, <1>2, <1>3, OneJobDecides, StepCases

(* Only the latest claim's job decides a PROCESSING row, or failExhausted  *)
(* after the last one went stale: a re-claimed job cannot overwrite.       *)
THEOREM LatestClaimDecides == Spec => OnlyTheLatestClaimDecides
<1>1. IInv /\ [Next]_vars =>
        [\A i \in Image :
           status[i] = "PROCESSING" /\ status'[i] # "PROCESSING" =>
             \/ \E w \in Worker : /\ HasJob(w, i)
                                  /\ token[w][i] = attempts[i]
                                  /\ jpc'[w][i] # jpc[w][i]
             \/ /\ status'[i] = "FAILED"
                /\ attempts[i] = MaxAttempts
                /\ lock[i] = "stale"]_vars
  BY StepIsDecided DEF DecidedByTheLatestClaim
<1> QED BY <1>1, Invariance, PTL DEF Spec, OnlyTheLatestClaimDecides

(* A row that waits can be claimed at once, or will be when its lock has   *)
(* gone stale, or failed if that claim was its last: none matches no       *)
(* branch of AWAITING_WORKER for good.                                     *)
NoRowIsStranded ==
  \A i \in rows :
    /\ status[i] = "PENDING" => Claimable(i)
    /\ status[i] = "PROCESSING" => lock[i] = "live" \/ Claimable(i) \/ Exhausted(i)
    /\ status[i] # "NONE"

(* The safety half of EveryUploadSettles, with RetriesEnd below. *)
THEOREM EveryRowHasAWayOn == Spec => []NoRowIsStranded
<1>1. ASSUME IInv, NEW i \in rows
      PROVE  /\ status[i] = "PENDING" => Claimable(i)
             /\ status[i] = "PROCESSING" => lock[i] = "live" \/ Claimable(i) \/ Exhausted(i)
             /\ status[i] # "NONE"
  <2>1. /\ i \in Image /\ attempts[i] \in 0 .. MaxAttempts
        /\ lock[i] \in {"null", "live", "stale"}
    BY <1>1 DEF IInv, TypeOK, TableTypeOK
  <2> QED BY <1>1, <2>1, LimitsArePositive
          DEF IInv, RowInv, RowsStartFresh, AttemptsDecideFailure, ProcessingRowsAreLocked,
              Claimable, Exhausted, AwaitingWorker
<1>2. IInv => NoRowIsStranded
  BY <1>1 DEF NoRowIsStranded
<1> QED BY <1>2, Invariance, PTL

-----------------------------------------------------------------------------
(* What ORDER BY created_at LIMIT n means: who is passed over, and how     *)
(* many there can be.                                                      *)
LEMMA EarlierAreFinite ==
  ASSUME NEW S \in SUBSET Nat, NEW i \in S
  PROVE  /\ IsFiniteSet({k \in S : k < i})
         /\ Cardinality({k \in S : k < i}) \in Nat
<1> DEFINE A == {k \in S : k < i}
<1>1. i \in Nat /\ \A k \in A : k \in Nat /\ k < i
  OBVIOUS
<1> HIDE DEF A
<1>2. A \in SUBSET Nat
  BY <1>1
<1>3. \A k \in A : k <= i
  BY <1>1
<1>4. IsFiniteSet(A)
  BY <1>1, <1>2, <1>3, FS_BoundedSetOfNaturals
<1>5. Cardinality(A) \in Nat
  BY <1>4, FS_CardinalityType
<1> QED BY <1>4, <1>5 DEF A

(* The later of two photos has more before it.                           *)
LEMMA EarlierCountLess ==
  ASSUME NEW S \in SUBSET Nat, NEW i \in S, NEW j \in S, j < i
  PROVE  Cardinality({k \in S : k < j}) < Cardinality({k \in S : k < i})
<1> DEFINE A == {k \in S : k < j}
           B == {k \in S : k < i}
<1>1. i \in Nat /\ j \in Nat /\ \A k \in S : k \in Nat
  OBVIOUS
<1>2. /\ \A k \in A : k \in B
      /\ j \in B /\ j \notin A
  BY <1>1
<1>3. /\ IsFiniteSet(A) /\ Cardinality(A) \in Nat
      /\ IsFiniteSet(B) /\ Cardinality(B) \in Nat
  BY EarlierAreFinite
<1> HIDE DEF A, B
<1>4. A \cup {j} \in SUBSET B
  BY <1>2
<1>5. Cardinality(A \cup {j}) = Cardinality(A) + 1
  BY <1>2, <1>3, FS_AddElement
<1>6. Cardinality(A \cup {j}) <= Cardinality(B)
  BY <1>3, <1>4, FS_Subset
<1>7. Cardinality(A) < Cardinality(B)
  BY <1>3, <1>5, <1>6
<1> QED BY <1>7 DEF A, B

(* So a batch of the oldest holds whatever is older than one of it.      *)
LEMMA EarlierComeFirst ==
  ASSUME NEW S \in SUBSET Nat, NEW n \in Nat, NEW i \in Oldest(n, S), NEW j \in S, j < i
  PROVE  j \in Oldest(n, S)
<1>1. i \in S /\ Cardinality({k \in S : k < i}) < n
  BY DEF Oldest
<1>2. /\ Cardinality({k \in S : k < j}) \in Nat
      /\ Cardinality({k \in S : k < i}) \in Nat
      /\ Cardinality({k \in S : k < j}) < Cardinality({k \in S : k < i})
  BY <1>1, EarlierAreFinite, EarlierCountLess
<1>3. Cardinality({k \in S : k < j}) < n
  BY <1>1, <1>2
<1> QED BY <1>3 DEF Oldest

(* And it holds no more than the statement's LIMIT.                      *)
LEMMA OldestAreFew ==
  ASSUME NEW S \in SUBSET Nat, NEW n \in Nat
  PROVE  IsFiniteSet(Oldest(n, S)) /\ Cardinality(Oldest(n, S)) <= n
<1> DEFINE before(i) == Cardinality({k \in S : k < i})
           F == Oldest(n, S)
           f == [i \in F |-> before(i)]
<1>1. F \in SUBSET S /\ \A i \in F : before(i) < n
  BY DEF Oldest
<1>2. \A i \in S : before(i) \in Nat
  BY EarlierAreFinite
<1>3. \A i, j \in S : j < i => before(j) < before(i)
  BY EarlierCountLess
<1> HIDE DEF before, F
<1>4. f \in [F -> 0 .. n - 1]
  BY <1>1, <1>2
<1>5. \A i, j \in F : f[i] = f[j] => i = j
  <2>1. SUFFICES ASSUME NEW i \in F, NEW j \in F, f[i] = f[j] PROVE i = j
    OBVIOUS
  <2>2. i \in Nat /\ j \in Nat /\ before(i) = before(j) /\ before(i) \in Nat
    BY <1>1, <1>2, <2>1
  <2> QED BY <1>1, <1>3, <2>2
<1>6. f \in Injection(F, 0 .. n - 1)
  BY <1>4, <1>5 DEF Injection, IsInjective
<1>7. /\ IsFiniteSet(0 .. n - 1)
      /\ Cardinality(0 .. n - 1) = n
  <2>1. /\ IsFiniteSet(0 .. n - 1)
        /\ Cardinality(0 .. n - 1) = IF 0 > n - 1 THEN 0 ELSE n - 1 - 0 + 1
    BY FS_Interval
  <2> QED BY <2>1
<1>8. IsFiniteSet(F) /\ Cardinality(F) <= Cardinality(0 .. n - 1)
  BY <1>6, <1>7, FS_Injection
<1> QED BY <1>7, <1>8 DEF F

(* The statement that claims is the only one that counts an attempt, and   *)
(* the batch it takes is the jobs of the worker that runs it.              *)
LEMMA ClaimsCount ==
  ASSUME IInv, [Next]_vars, NEW i \in Image, attempts'[i] # attempts[i]
  PROVE  \E skipped \in SUBSET RowsInStatement :
           i \in Batch(skipped) /\ ClaimBatch(Batch(skipped))
<1>1. attempts' # attempts
  OBVIOUS
<1>2. ~(UNCHANGED tableVars \/ FailExhausted)
  BY <1>1 DEF tableVars, FailExhausted
<1>3. \A j \in Image : ~Upload(j) /\ ~Delete(j) /\ ~TimePasses(j)
  BY <1>1 DEF Upload, Delete, TimePasses, Insert, Remove, LockGoesStale
<1>4. \A w \in Worker, j \in Image : ~(JobStep(w, j) \/ JobFault(w, j))
  BY <1>1, <1>2 DEF JobStep, JobFault, Process, ProcessingFails, RejectJob, RejectErrs,
      LockUser, FindDuplicate, Commit, CommitReplyLost, TransactionErrs, Release,
      ReleaseErrs, FinalizeVerdict, Accept, Reject, ReleaseForRetry, UpdateOwned, tableVars
<1>5. \E w \in Worker : Claim(w) \/ ClaimErrs(w)
  BY <1>2, <1>3, <1>4, StepCases
  DEF LoopStep, LoopFault, RunFailExhausted, BatchSettles, Wake, FailExhaustedErrs,
      Crash, Start, Stop, vars, tableVars
<1>6. PICK skipped \in SUBSET RowsInStatement : ClaimBatch(Batch(skipped))
  BY <1>2, <1>5 DEF Claim, ClaimErrs
<1>7. i \in Batch(skipped)
  BY <1>6 DEF ClaimBatch, IInv, TypeOK, TableTypeOK
<1> QED BY <1>6, <1>7

(* ORDER BY created_at: a claim passes over an older photo that is due     *)
(* only when another job's statement has its row locked (SKIP LOCKED).     *)
NobodyIsOvertaken ==
  [][\A i, j \in Image :
       /\ attempts'[i] # attempts[i]
       /\ j < i
       /\ Claimable(j)
       /\ j \notin RowsInStatement
       => attempts'[j] # attempts[j]]_vars

(* A due photo is claimed with or before every younger one, unless another*)
(* statement holds its row: SKIP LOCKED is the only way to be overtaken. *)
THEOREM ClaimsGoByAge == Spec => NobodyIsOvertaken
<1>1. ASSUME IInv, [Next]_vars, NEW i \in Image, NEW j \in Image,
             attempts'[i] # attempts[i], j < i, Claimable(j), j \notin RowsInStatement
      PROVE  attempts'[j] # attempts[j]
  <2>1. PICK skipped \in SUBSET RowsInStatement :
          i \in Batch(skipped) /\ ClaimBatch(Batch(skipped))
    BY <1>1, ClaimsCount
  <2> DEFINE S == {k \in Image \ skipped : Claimable(k)}
  <2>2. j \in S /\ S \in SUBSET Nat /\ BatchSize \in Nat
    BY <1>1, <2>1, ImagesAreNumbered, LimitsArePositive
  <2>3. i \in Oldest(BatchSize, S)
    BY <2>1 DEF Batch
  <2> HIDE DEF S
  <2>4. j \in Oldest(BatchSize, S)
    BY <1>1, <2>2, <2>3, EarlierComeFirst
  <2>5. j \in Batch(skipped)
    BY <2>4 DEF S, Batch
  <2>6. attempts'[j] = attempts[j] + 1 /\ attempts[j] \in 0 .. MaxAttempts
    BY <1>1, <2>1, <2>5 DEF ClaimBatch, IInv, TypeOK, TableTypeOK
  <2> QED BY <2>6, LimitsArePositive
<1>2. IInv /\ [Next]_vars =>
        [\A i, j \in Image :
           /\ attempts'[i] # attempts[i]
           /\ j < i
           /\ Claimable(j)
           /\ j \notin RowsInStatement
           => attempts'[j] # attempts[j]]_vars
  BY <1>1
<1> QED BY <1>2, Invariance, PTL DEF Spec, NobodyIsOvertaken

(* The jobs a worker's process runs at once. *)
Jobs(w) == {i \in Image : HasJob(w, i)}

(* BATCH_SIZE bounds them: no new batch begins before the last has settled. *)
BatchesAreBounded ==
  \A w \in Worker : IsFiniteSet(Jobs(w)) /\ Cardinality(Jobs(w)) <= BatchSize

(* A worker's jobs only get fewer, or are those of a new batch.             *)
LEMMA JobsComeInBatches ==
  ASSUME IInv, [Next]_vars, NEW w \in Worker
  PROVE  Jobs(w)' \subseteq Jobs(w) \/ \E skipped : Jobs(w)' = Batch(skipped)
<1>0. TypeOK /\ JobsBelongToABatch
  BY DEF IInv, JobInv
<1>1. CASE Claim(w)
  <2>1. PICK skipped : BeginJobs(w, Batch(skipped))
    BY <1>1 DEF Claim
  <2>2. \A i \in Image : HasJob(w, i)' <=> i \in Batch(skipped)
    BY <1>0, <2>1 DEF BeginJobs, HasJob, TypeOK
  <2>3. Jobs(w)' = Batch(skipped)
    BY <2>2, BatchIsClaimable DEF Jobs
  <2> QED BY <2>3
<1>2. CASE ~Claim(w)
  <2>1. \A i \in Image : JobMove(w, i)
    BY <1>0, JobsMove
  <2>2. ASSUME NEW i \in Image, HasJob(w, i)', ~HasJob(w, i) PROVE FALSE
    <3>1. DrawsToken(w, i)
      BY <2>1, <2>2 DEF JobMove, KeepsJob
    <3>2. /\ loop[w] = "claim" /\ loop'[w] = "batch"
          /\ jpc'[w] # jpc[w]
      BY <2>2, <3>1 DEF DrawsToken, HasJob
    <3>3. \A v \in Worker : v # w => ~(LoopStep(v) \/ LoopFault(v) \/ Start(v) \/ Stop(v))
      BY <1>0, <3>2 DEF LoopStep, LoopFault, RunFailExhausted, Claim, BatchSettles, Wake,
          FailExhaustedErrs, ClaimErrs, Crash, Start, Stop, NextRound, LoopGoes, TypeOK
    <3>4. ~(LoopStep(w) \/ LoopFault(w) \/ Start(w) \/ Stop(w))
      BY <1>0, <1>2, <3>2 DEF LoopStep, LoopFault, RunFailExhausted, BatchSettles, Wake,
          FailExhaustedErrs, ClaimErrs, Crash, Start, Stop, LoopGoes, TypeOK
    <3>5. \A v \in Worker, j \in Image : ~(JobStep(v, j) \/ JobFault(v, j))
      BY <3>2 DEF JobStep, JobFault, Process, ProcessingFails, RejectJob, RejectErrs,
          LockUser, FindDuplicate, Commit, CommitReplyLost, TransactionErrs, Release,
          ReleaseErrs, JobGoes, JobEnds
    <3>6. \A j \in Image : ~Upload(j) /\ ~Delete(j) /\ ~TimePasses(j)
      BY <3>2 DEF Upload, Delete, TimePasses, workerVars
    <3>7. ~UNCHANGED vars
      BY <3>2 DEF vars
    <3> QED BY <3>3, <3>4, <3>5, <3>6, <3>7, StepCases
  <2> QED BY <2>2 DEF Jobs
<1> QED BY <1>1, <1>2

(* Which is no larger than the claim's LIMIT.                               *)
LEMMA BatchesStayBounded ==
  ASSUME IInv, BatchesAreBounded, [Next]_vars
  PROVE  BatchesAreBounded'
<1>1. SUFFICES ASSUME NEW w \in Worker
               PROVE  IsFiniteSet(Jobs(w)') /\ Cardinality(Jobs(w)') <= BatchSize
  BY DEF BatchesAreBounded
<1>2. CASE Jobs(w)' \subseteq Jobs(w)
  <2>1. /\ IsFiniteSet(Jobs(w)) /\ Cardinality(Jobs(w)) <= BatchSize
        /\ BatchSize \in Nat
    BY LimitsArePositive DEF BatchesAreBounded
  <2>2. /\ IsFiniteSet(Jobs(w)')
        /\ Cardinality(Jobs(w)') <= Cardinality(Jobs(w))
    BY <1>2, <2>1, FS_Subset
  <2>3. Cardinality(Jobs(w)) \in Nat /\ Cardinality(Jobs(w)') \in Nat
    BY <2>1, <2>2, FS_CardinalityType
  <2> QED BY <2>1, <2>2, <2>3
<1>3. CASE \E skipped : Jobs(w)' = Batch(skipped)
  <2>1. PICK skipped : Jobs(w)' = Batch(skipped)
    BY <1>3
  <2> DEFINE S == {i \in Image \ skipped : Claimable(i)}
  <2>2. Jobs(w)' = Oldest(BatchSize, S)
    BY <2>1 DEF Batch
  <2>3. S \in SUBSET Nat /\ BatchSize \in Nat
    BY ImagesAreNumbered, LimitsArePositive
  <2> HIDE DEF S
  <2> QED BY <2>2, <2>3, OldestAreFew
<1> QED BY <1>2, <1>3, JobsComeInBatches

(* Through crashes, lost replies and stops, no process ever works on more  *)
(* than BATCH_SIZE photos.                                                 *)
THEOREM ConcurrencyIsBounded == Spec => []BatchesAreBounded
<1>1. Init => BatchesAreBounded
  <2>1. SUFFICES ASSUME Init, NEW w \in Worker
                 PROVE  IsFiniteSet(Jobs(w)) /\ Cardinality(Jobs(w)) <= BatchSize
    BY DEF BatchesAreBounded
  <2>2. Jobs(w) = {}
    BY <2>1 DEF Init, Jobs, HasJob
  <2> QED BY <2>2, FS_EmptySet, LimitsArePositive
<1>2. IInv /\ BatchesAreBounded /\ [Next]_vars => BatchesAreBounded'
  BY BatchesStayBounded
<1> QED BY <1>1, <1>2, Invariance, PTL DEF Spec

(* How many times a photo's row can still change. *)
StepsToGo(i) ==
  LET retries == 4 * (MaxAttempts - attempts[i])
  IN  CASE status[i] = "NONE" -> retries + 2
        [] status[i] = "PENDING" -> retries + 1
        [] status[i] = "PROCESSING" -> retries + (IF lock[i] = "live" THEN 3 ELSE 2)
        [] OTHER -> 0

(* What the worker's statements change in a row.                            *)
Columns(i) == <<status[i], attempts[i], lock[i], reason[i]>>

(* Every change of a row brings it nearer its end, so no photo is tried    *)
(* for ever: after its upload a row changes, or its lock goes stale, at    *)
(* most 4 * MAX_ATTEMPTS + 1 times, whatever crashes in between.           *)
RowsGoForward ==
  [][\A i \in Image : Columns(i)' = Columns(i) \/ StepsToGo(i)' < StepsToGo(i)]_vars

(* The changes there are. *)
RowMove(i) ==
  \/ Columns(i)' = Columns(i)
  \/ /\ status[i] = "NONE" /\ status'[i] = "PENDING"
     /\ attempts'[i] = attempts[i]
  \/ /\ status[i] = "PROCESSING" /\ status'[i] = "PROCESSING"
     /\ lock[i] = "live" /\ lock'[i] = "stale"
     /\ attempts'[i] = attempts[i]
  \/ /\ Claimable(i)
     /\ status'[i] = "PROCESSING" /\ lock'[i] = "live"
     /\ attempts'[i] = attempts[i] + 1
  \/ /\ status[i] \in {"PENDING", "PROCESSING"}
     /\ status'[i] \in Terminal
  \/ /\ status[i] = "PROCESSING" /\ status'[i] = "PENDING"
     /\ attempts'[i] = attempts[i]

(* A statement of a job with the row's token ends or releases the claim.    *)
LEMMA UpdateOwnedMoves ==
  ASSUME TypeOK, NEW k \in Image, NEW t, NEW s \in Terminal \cup {"PENDING"}, NEW r,
         UpdateOwned(k, t, s, r), NEW i \in Image
  PROVE  RowMove(i)
<1>1. CASE UNCHANGED tableVars
  BY <1>1 DEF tableVars, RowMove, Columns
<1>2. CASE ~UNCHANGED tableVars
  <2>1. /\ status[k] = "PROCESSING" /\ status' = [status EXCEPT ![k] = s]
        /\ reason' = [reason EXCEPT ![k] = r]
        /\ lock' = [lock EXCEPT ![k] = "null"]
        /\ attempts' = attempts
    BY <1>2 DEF UpdateOwned, OwnedBy
  <2>2. CASE i = k
    BY <2>1, <2>2 DEF RowMove, TypeOK, TableTypeOK
  <2>3. CASE i # k
    BY <2>1, <2>3 DEF RowMove, Columns, TypeOK, TableTypeOK
  <2> QED BY <2>2, <2>3
<1> QED BY <1>1, <1>2

(* Every step moves a row in one of these ways, or leaves it alone.         *)
LEMMA RowsMove ==
  ASSUME IInv, [Next]_vars, NEW i \in Image
  PROVE  RowMove(i)
<1>0. TypeOK /\ RowInv /\ TableEffect
  BY TableSteps DEF IInv
<1>1. CASE UNCHANGED tableVars
  BY <1>1 DEF tableVars, RowMove, Columns
<1>2. ASSUME NEW k \in Image, Insert(k) \/ Remove(k) \/ LockGoesStale(k)
      PROVE  RowMove(i)
  <2>1. status[k] = "PROCESSING" \/ ~LockGoesStale(k)
    BY <1>0 DEF LockGoesStale, RowInv, ProcessingRowsAreLocked
  <2>2. CASE i = k
    BY <1>0, <1>2, <2>1, <2>2
    DEF Insert, Remove, LockGoesStale, RowMove, Columns, TypeOK, TableTypeOK
  <2>3. CASE i # k
    BY <1>0, <1>2, <2>3
    DEF Insert, Remove, LockGoesStale, RowMove, Columns, TypeOK, TableTypeOK
  <2> QED BY <2>2, <2>3
<1>3. CASE FailExhausted
  BY <1>3 DEF FailExhausted, Exhausted, AwaitingWorker, RowMove, Columns, Terminal
<1>4. ASSUME NEW batch \in SUBSET Image, \A k \in batch : Claimable(k), ClaimBatch(batch)
      PROVE  RowMove(i)
  BY <1>4 DEF ClaimBatch, RowMove, Columns
<1>5. ASSUME NEW w \in Worker, NEW k \in Image,
             \/ FinalizeVerdict(w, k)
             \/ jpc[w][k] = "reject" /\ Reject(k, token[w][k], Findings[k])
             \/ jpc[w][k] = "release" /\ ReleaseForRetry(k, token[w][k])
      PROVE  RowMove(i)
  <2>1. \E s \in Terminal \cup {"PENDING"} : \E r : UpdateOwned(k, token[w][k], s, r)
    BY <1>5 DEF FinalizeVerdict, Accept, Reject, ReleaseForRetry, Terminal
  <2> QED BY <1>0, <2>1, UpdateOwnedMoves
<1> QED BY <1>0, <1>1, <1>2, <1>3, <1>4, <1>5 DEF TableEffect

(* And each of these takes it a step further.                               *)
LEMMA MovesGoForward ==
  ASSUME IInv, NEW i \in Image, RowMove(i), attempts'[i] \in 0 .. MaxAttempts
  PROVE  Columns(i)' = Columns(i) \/ StepsToGo(i)' < StepsToGo(i)
<1> DEFINE a == attempts[i]
           b == attempts'[i]
<1>1. MaxAttempts \in Nat /\ a \in 0 .. MaxAttempts /\ b \in 0 .. MaxAttempts
  BY LimitsArePositive DEF IInv, TypeOK, TableTypeOK
<1>2. /\ status[i] = "NONE" => StepsToGo(i) = 4 * (MaxAttempts - a) + 2
      /\ status[i] = "PENDING" => StepsToGo(i) = 4 * (MaxAttempts - a) + 1
      /\ status[i] = "PROCESSING" =>
           StepsToGo(i) = 4 * (MaxAttempts - a) + (IF lock[i] = "live" THEN 3 ELSE 2)
  BY DEF StepsToGo
<1>3. /\ status'[i] = "PENDING" => StepsToGo(i)' = 4 * (MaxAttempts - b) + 1
      /\ status'[i] = "PROCESSING" =>
           StepsToGo(i)' = 4 * (MaxAttempts - b) + (IF lock'[i] = "live" THEN 3 ELSE 2)
      /\ status'[i] \in Terminal => StepsToGo(i)' = 0
  BY DEF StepsToGo, Terminal
<1>4. Claimable(i) => /\ status[i] \in {"PENDING", "PROCESSING"}
                      /\ status[i] = "PROCESSING" => lock[i] = "stale"
                      /\ a < MaxAttempts
  BY DEF Claimable, AwaitingWorker
<1>5. RowMove(i)
  OBVIOUS
<1> QED BY <1>1, <1>2, <1>3, <1>4, <1>5 DEF RowMove

(* Retries, stale locks and crashes only ever use a photo's attempts up:   *)
(* nothing in the queue can go round in a circle.                          *)
THEOREM RetriesEnd == Spec => RowsGoForward
<1>1. ASSUME IInv, [Next]_vars, NEW i \in Image
      PROVE  Columns(i)' = Columns(i) \/ StepsToGo(i)' < StepsToGo(i)
  <2>1. attempts'[i] \in 0 .. MaxAttempts
    BY <1>1, InvStep DEF IInv, TypeOK, TableTypeOK
  <2> QED BY <1>1, <2>1, RowsMove, MovesGoForward
<1>2. IInv /\ [Next]_vars =>
        [\A i \in Image : Columns(i)' = Columns(i) \/ StepsToGo(i)' < StepsToGo(i)]_vars
  BY <1>1
<1> QED BY <1>2, Invariance, PTL DEF Spec, RowsGoForward

(* How far a worker told to stop, and a job, are from their end. *)
LoopToGo(w) == CASE loop[w] = "failExhausted" -> 4
                 [] loop[w] = "claim" -> 3
                 [] loop[w] = "batch" -> 2
                 [] loop[w] = "idle" -> 1
                 [] OTHER -> 0

JobToGo(w, i) == CASE jpc[w][i] = "working" -> 5
                   [] jpc[w][i] = "lock" -> 4
                   [] jpc[w][i] = "check" -> 3
                   [] jpc[w][i] \in {"reject", "accept", "duplicate"} -> 2
                   [] jpc[w][i] = "release" -> 1
                   [] OTHER -> 0

(* stop() is obeyed: a worker told to stop takes at most one more batch,   *)
(* never begins another round, and forgets the signal only when it ends.   *)
StoppingWorkersWindDown ==
  [][\A w \in Worker :
       stopping[w] /\ loop[w] # "down" =>
         /\ loop'[w] = loop[w] \/ LoopToGo(w)' < LoopToGo(w)
         /\ loop'[w] # "down" => stopping'[w]]_vars

(* The jobs of a batch only come nearer their end: process() never goes    *)
(* back, and no job joins a batch that has begun.                          *)
BatchesWindDown ==
  [][\A w \in Worker, i \in Image :
       loop'[w] = loop[w] =>
         jpc'[w][i] = jpc[w][i] \/ JobToGo(w, i)' < JobToGo(w, i)]_vars

(* How a step may move a worker's loop.                                     *)
LoopMove(w) ==
  \/ loop'[w] = loop[w] /\ (stopping[w] => stopping'[w])
  \/ loop[w] = "down"
  \/ loop'[w] = "down"
  \/ /\ stopping'[w] = stopping[w]
     /\ \/ loop[w] = "failExhausted" /\ loop'[w] \in {"claim", "idle"}
        \/ loop[w] = "claim" /\ loop'[w] \in {"batch", "idle"}
        \/ loop[w] \in {"batch", "idle"} /\ ~stopping[w]

(* No step moves it in any other way.                                       *)
LEMMA LoopsMove ==
  ASSUME TypeOK, [Next]_vars, NEW w \in Worker
  PROVE  LoopMove(w)
<1>1. CASE UNCHANGED <<loop, stopping>>
  BY <1>1 DEF LoopMove
<1>2. ASSUME NEW v \in Worker, LoopStep(v) \/ LoopFault(v) \/ Start(v) \/ Stop(v)
      PROVE  LoopMove(w)
  <2>1. CASE v # w
    <3>1. loop'[w] = loop[w] /\ stopping'[w] = stopping[w]
      BY <1>2, <2>1 DEF LoopStep, LoopFault, RunFailExhausted, Claim, BatchSettles, Wake,
          FailExhaustedErrs, ClaimErrs, Crash, Start, Stop, NextRound, LoopGoes, TypeOK
    <3> QED BY <3>1 DEF LoopMove
  <2>2. CASE v = w
    <3>1. CASE RunFailExhausted(w) \/ FailExhaustedErrs(w)
      BY <3>1 DEF RunFailExhausted, FailExhaustedErrs, LoopGoes, LoopMove, TypeOK
    <3>2. CASE Claim(w) \/ ClaimErrs(w)
      <4>1. PICK pc \in {"batch", "idle"} : LoopGoes(w, pc)
        BY <3>2 DEF Claim, ClaimErrs
      <4>2. loop[w] = "claim" /\ stopping' = stopping
        BY <3>2 DEF Claim, ClaimErrs
      <4> QED BY <4>1, <4>2 DEF LoopGoes, LoopMove, TypeOK
    <3>3. CASE BatchSettles(w) \/ Wake(w)
      BY <3>3 DEF BatchSettles, Wake, NextRound, LoopGoes, LoopMove, TypeOK
    <3>4. CASE Crash(w) \/ Start(w) \/ Stop(w)
      BY <3>4 DEF Crash, Start, Stop, LoopGoes, LoopMove, TypeOK
    <3> QED BY <1>2, <2>2, <3>1, <3>2, <3>3, <3>4 DEF LoopStep, LoopFault
  <2> QED BY <2>1, <2>2
<1>3. (\E i \in Image : Upload(i) \/ Delete(i) \/ TimePasses(i)) => UNCHANGED <<loop, stopping>>
  BY DEF Upload, Delete, TimePasses, workerVars
<1>4. (\E v \in Worker, i \in Image : JobStep(v, i) \/ JobFault(v, i))
        => UNCHANGED <<loop, stopping>>
  BY DEF JobStep, JobFault, Process, ProcessingFails, RejectJob, RejectErrs, LockUser,
      FindDuplicate, Commit, CommitReplyLost, TransactionErrs, Release, ReleaseErrs,
      JobGoes, JobEnds
<1>5. UNCHANGED vars => UNCHANGED <<loop, stopping>>
  BY DEF vars
<1> QED BY <1>1, <1>2, <1>3, <1>4, <1>5, StepCases

(* A step of a job takes that job further and no other job anywhere.        *)
LEMMA OneJobGoesForward ==
  ASSUME TypeOK, NEW v \in Worker, NEW k \in Image, JobStep(v, k) \/ JobFault(v, k),
         NEW w \in Worker, NEW i \in Image
  PROVE  jpc'[w][i] = jpc[w][i] \/ JobToGo(w, i)' < JobToGo(w, i)
<1>1. \E pc \in JobState :
        /\ JobGoes(v, k, pc) \/ (pc = "none" /\ JobEnds(v, k))
        /\ \/ jpc[v][k] = "working" /\ pc \in {"lock", "release", "reject"}
           \/ jpc[v][k] = "lock" /\ pc = "check"
           \/ jpc[v][k] = "check" /\ pc \in {"accept", "duplicate"}
           \/ jpc[v][k] \in {"lock", "check", "reject", "accept", "duplicate"} /\ pc = "release"
           \/ jpc[v][k] \in {"reject", "accept", "duplicate", "release"} /\ pc = "none"
  BY DEF JobStep, JobFault, Process, ProcessingFails, RejectJob, RejectErrs, LockUser,
      FindDuplicate, Commit, CommitReplyLost, TransactionErrs, Release, ReleaseErrs,
      FinalizeVerdict, JobState
<1>2. CASE w = v /\ i = k
  BY <1>1, <1>2 DEF JobGoes, JobEnds, JobToGo, TypeOK
<1>3. CASE ~(w = v /\ i = k)
  BY <1>1, <1>3 DEF JobGoes, JobEnds, TypeOK
<1> QED BY <1>2, <1>3

(* The other steps leave the jobs of a running batch alone.                 *)
LEMMA JobsGoForward ==
  ASSUME IInv, [Next]_vars, NEW w \in Worker, NEW i \in Image, loop'[w] = loop[w]
  PROVE  jpc'[w][i] = jpc[w][i] \/ JobToGo(w, i)' < JobToGo(w, i)
<1>0. TypeOK
  BY DEF IInv
<1>1. ASSUME NEW v \in Worker, LoopStep(v) \/ LoopFault(v) \/ Start(v) \/ Stop(v)
      PROVE  jpc'[w] = jpc[w]
  <2>1. CASE v # w
    BY <1>0, <1>1, <2>1 DEF LoopStep, LoopFault, RunFailExhausted, Claim, BatchSettles,
        Wake, FailExhaustedErrs, ClaimErrs, Crash, Start, Stop, BeginJobs, TypeOK
  <2>2. CASE v = w
    <3>1. ~Claim(w) /\ ~Crash(w)
      BY <1>0 DEF Claim, Crash, LoopGoes, TypeOK
    <3> QED BY <1>1, <2>2, <3>1 DEF LoopStep, LoopFault, RunFailExhausted, BatchSettles,
            Wake, FailExhaustedErrs, ClaimErrs, Start, Stop
  <2> QED BY <2>1, <2>2
<1>2. (\E k \in Image : Upload(k) \/ Delete(k) \/ TimePasses(k)) => UNCHANGED jpc
  BY DEF Upload, Delete, TimePasses, workerVars
<1>3. UNCHANGED vars => UNCHANGED jpc
  BY DEF vars
<1> QED BY <1>0, <1>1, <1>2, <1>3, OneJobGoesForward, StepCases

(* The safety half of StopCompletes, for any number of workers. *)
THEOREM StopsAreObeyed == Spec => StoppingWorkersWindDown
<1>1. ASSUME TypeOK, [Next]_vars, NEW w \in Worker, stopping[w], loop[w] # "down"
      PROVE  /\ loop'[w] = loop[w] \/ LoopToGo(w)' < LoopToGo(w)
             /\ loop'[w] # "down" => stopping'[w]
  <2>1. LoopMove(w) /\ loop[w] \in LoopState
    BY <1>1, LoopsMove DEF TypeOK
  <2>2. /\ \/ loop'[w] = loop[w]
           \/ loop'[w] = "down"
           \/ loop[w] = "failExhausted" /\ loop'[w] \in {"claim", "idle"}
           \/ loop[w] = "claim" /\ loop'[w] \in {"batch", "idle"}
        /\ loop'[w] # "down" => stopping'[w]
    BY <1>1, <2>1 DEF LoopMove
  <2>3. loop'[w] = loop[w] \/ LoopToGo(w)' < LoopToGo(w)
    BY <1>1, <2>1, <2>2 DEF LoopToGo, LoopState
  <2> QED BY <2>2, <2>3
<1>2. IInv /\ [Next]_vars =>
        [\A w \in Worker :
           stopping[w] /\ loop[w] # "down" =>
             /\ loop'[w] = loop[w] \/ LoopToGo(w)' < LoopToGo(w)
             /\ loop'[w] # "down" => stopping'[w]]_vars
  BY <1>1 DEF IInv
<1> QED BY <1>2, Invariance, PTL DEF Spec, StoppingWorkersWindDown

(* So a batch ends: each of its jobs has at most five steps to take. *)
THEOREM BatchesEnd == Spec => BatchesWindDown
<1>1. IInv /\ [Next]_vars =>
        [\A w \in Worker, i \in Image :
           loop'[w] = loop[w] =>
             jpc'[w][i] = jpc[w][i] \/ JobToGo(w, i)' < JobToGo(w, i)]_vars
  BY JobsGoForward
<1> QED BY <1>1, Invariance, PTL DEF Spec, BatchesWindDown

-----------------------------------------------------------------------------
(* The queue and its workers implement ImageVerdicts: every step is one of *)
(* its steps, seen through ClientView, or invisible to clients.            *)

LEMMA LookAlikeIsTheSame == \A i, j : Verdicts!LookAlike(i, j) <=> LookAlike(i, j)
BY DEF LookAlike, Verdicts!LookAlike

(* A step that changes no client's view is a stutter of ImageVerdicts. *)
LEMMA SameViews ==
  ASSUME rows' = rows,
         \A i \in Image : ClientView(i)' = ClientView(i)
  PROVE  UNCHANGED Verdicts!vars
<1>1. ClientViews' = ClientViews
  BY DEF ClientViews
<1> QED BY <1>1 DEF Verdicts!vars

(* What a job's UPDATE changes in the clients' view. *)
LEMMA UpdateIsSeen ==
  ASSUME TypeOK, RowInv, NEW i \in Image, NEW t, NEW s, NEW r, UpdateOwned(i, t, s, r)
  PROVE  \/ UNCHANGED Verdicts!vars
         \/ /\ i \in rows
            /\ rows' = rows
            /\ status[i] = "PROCESSING"
            /\ t = attempts[i]
            /\ ClientViews[i] = Verdicts!Waiting
            /\ ClientViews' = [ClientViews EXCEPT ![i] =
                 IF s \in {"PENDING", "PROCESSING"} THEN Verdicts!Waiting
                 ELSE [status |-> s, reason |-> r]]
<1>1. CASE UNCHANGED tableVars
  BY <1>1, SameViews DEF tableVars, ClientView
<1>2. CASE ~UNCHANGED tableVars
  <2>1. /\ OwnedBy(i, t)
        /\ rows' = rows
        /\ \A j \in Image : /\ status'[j] = IF j = i THEN s ELSE status[j]
                            /\ reason'[j] = IF j = i THEN r ELSE reason[j]
    BY <1>2 DEF UpdateOwned, TypeOK, TableTypeOK
  <2>2. \A j \in Image :
          ClientView(j)' = IF j # i THEN ClientView(j)
                           ELSE IF s \in {"PENDING", "PROCESSING"} THEN Verdicts!Waiting
                           ELSE [status |-> s, reason |-> r]
    BY <2>1 DEF ClientView, Verdicts!Waiting
  <2>3. ClientViews[i] = Verdicts!Waiting
    BY <2>1 DEF OwnedBy, ClientViews, ClientView, Verdicts!Waiting
  <2> QED BY <2>1, <2>2, <2>3 DEF ClientViews, OwnedBy
<1> QED BY <1>1, <1>2

LEMMA AcceptedIsSeen ==
  \A i \in Image : ClientViews[i] = Verdicts!Accepted <=>
                     status[i] = "ACCEPTED" /\ reason[i] = "none"
BY DEF ClientViews, ClientView, Verdicts!Accepted

LEMMA FinalizeRefines ==
  ASSUME TypeOK, RowInv, JobInv, NEW w \in Worker, NEW i \in Image, FinalizeVerdict(w, i)
  PROVE  [Verdicts!Next]_(Verdicts!vars)
<1>1. Findings[i] = "PASS"
  BY DEF FinalizeVerdict, JobInv, JobsFollowFindings
<1>2. CASE jpc[w][i] = "accept" /\ Accept(i, token[w][i])
  <2>1. AcceptedLookAlikes(i) = {}
    BY <1>2 DEF JobInv, DuplicateQueryStillHolds
  <2>2. \A j \in rows : Verdicts!LookAlike(j, i) => ClientViews[j] # Verdicts!Accepted
    BY <2>1, AcceptedIsSeen, LookAlikeIsTheSame DEF AcceptedLookAlikes, TypeOK, TableTypeOK
  <2>3. UNCHANGED Verdicts!vars \/ Verdicts!Settle(i, Verdicts!Accepted)
    BY <1>2, UpdateIsSeen DEF Accept, Verdicts!Settle, Verdicts!Accepted
  <2>4. UNCHANGED Verdicts!vars \/ Verdicts!Accept(i)
    BY <1>1, <2>2, <2>3 DEF Verdicts!Accept
  <2> QED BY <2>4 DEF Verdicts!Next
<1>3. CASE jpc[w][i] = "duplicate" /\ Reject(i, token[w][i], "DUPLICATE")
  <2>1. \E j \in Image : LookAlike(j, i) /\ status[j] = "ACCEPTED"
    BY <1>3 DEF JobInv, DuplicateQueryStillHolds
  <2>2. \E j \in Image : Verdicts!LookAlike(j, i) /\ ClientViews[j] = Verdicts!Accepted
    BY <2>1, AcceptedIsSeen, LookAlikeIsTheSame DEF RowInv, OnlyRejectionsHaveReasons
  <2>3. \/ UNCHANGED Verdicts!vars
        \/ Verdicts!Settle(i, Verdicts!Rejected("DUPLICATE"))
    BY <1>3, UpdateIsSeen DEF Reject, Verdicts!Settle, Verdicts!Rejected
  <2>4. UNCHANGED Verdicts!vars \/ Verdicts!RejectDuplicate(i)
    BY <1>1, <2>2, <2>3 DEF Verdicts!RejectDuplicate
  <2> QED BY <2>4 DEF Verdicts!Next
<1> QED BY <1>2, <1>3 DEF FinalizeVerdict

LEMMA RejectRefines ==
  ASSUME TypeOK, RowInv, JobInv, NEW w \in Worker, NEW i \in Image,
         jpc[w][i] = "reject", Reject(i, token[w][i], Findings[i])
  PROVE  [Verdicts!Next]_(Verdicts!vars)
<1>1. Findings[i] \in CheckReasons
  BY DEF JobInv, JobsFollowFindings
<1>2. UNCHANGED Verdicts!vars \/ Verdicts!Settle(i, Verdicts!Rejected(Findings[i]))
  BY UpdateIsSeen DEF Reject, Verdicts!Settle, Verdicts!Rejected
<1>3. UNCHANGED Verdicts!vars \/ Verdicts!RejectFindings(i)
  BY <1>1, <1>2 DEF Verdicts!RejectFindings, Verdicts!CheckReasons, CheckReasons
<1> QED BY <1>3 DEF Verdicts!Next
LEMMA ReleaseRefines ==
  ASSUME TypeOK, RowInv, NEW w \in Worker, NEW i \in Image,
         ReleaseForRetry(i, token[w][i])
  PROVE  [Verdicts!Next]_(Verdicts!vars)
<1> DEFINE s == IF token[w][i] >= MaxAttempts THEN "FAILED" ELSE "PENDING"
<1>1. s = "FAILED" \/ s = "PENDING"
  OBVIOUS
<1>2. UpdateOwned(i, token[w][i], s, reason[i])
  BY DEF ReleaseForRetry
<1> HIDE DEF s
<1>3. CASE UNCHANGED Verdicts!vars
  BY <1>3
<1>4. CASE ~UNCHANGED Verdicts!vars
  <2>1. /\ i \in rows /\ rows' = rows
        /\ ClientViews[i] = Verdicts!Waiting
        /\ status[i] = "PROCESSING"
        /\ ClientViews' = [ClientViews EXCEPT ![i] =
             IF s \in {"PENDING", "PROCESSING"} THEN Verdicts!Waiting
             ELSE [status |-> s, reason |-> reason[i]]]
    BY <1>2, <1>4, UpdateIsSeen
  <2>2. reason[i] = "none"
    BY <2>1 DEF RowInv, OnlyRejectionsHaveReasons
  <2>3. CASE s = "PENDING"
    BY <1>4, <2>1, <2>3 DEF ClientViews, Verdicts!vars
  <2>4. CASE s = "FAILED"
    <3>1. ClientViews' = [j \in Image |-> IF j \in {i} THEN Verdicts!Failed
                                          ELSE ClientViews[j]]
      BY <2>1, <2>2, <2>4 DEF ClientViews, Verdicts!Failed
    <3>2. Verdicts!GiveUpAll({i})
      BY <2>1, <3>1 DEF Verdicts!GiveUpAll
    <3> QED BY <3>2 DEF Verdicts!Next
  <2> QED BY <1>1, <2>3, <2>4
<1> QED BY <1>3, <1>4

LEMMA FailExhaustedRefines ==
  ASSUME TypeOK, RowInv, FailExhausted
  PROVE  [Verdicts!Next]_(Verdicts!vars)
<1> DEFINE S == {i \in Image : Exhausted(i)}
<1>1. \A i \in S : /\ i \in rows
                   /\ status[i] \in {"PENDING", "PROCESSING"}
                   /\ reason[i] = "none"
  BY DEF Exhausted, AwaitingWorker, RowInv, OnlyRejectionsHaveReasons
<1>2. \A i \in S : ClientViews[i] = Verdicts!Waiting
  BY <1>1 DEF ClientViews, ClientView, Verdicts!Waiting
<1>3. \A i \in Image : /\ status'[i] = IF i \in S THEN "FAILED" ELSE status[i]
                       /\ reason'[i] = reason[i]
  BY DEF FailExhausted
<1>4. \A i \in Image : ClientView(i)' = IF i \in S THEN Verdicts!Failed
                                        ELSE ClientViews[i]
  BY <1>1, <1>3 DEF ClientViews, ClientView, Verdicts!Failed
<1>5. ClientViews' = [i \in Image |-> IF i \in S THEN Verdicts!Failed ELSE ClientViews[i]]
  BY <1>4 DEF ClientViews
<1>6. rows' = rows /\ S \in SUBSET Image
  BY DEF FailExhausted
<1> HIDE DEF S
<1>7. Verdicts!GiveUpAll(S)
  BY <1>1, <1>2, <1>5, <1>6 DEF Verdicts!GiveUpAll
<1> QED BY <1>6, <1>7 DEF Verdicts!Next

LEMMA UserStepRefines ==
  ASSUME TypeOK, RowInv, NEW i \in Image, Insert(i) \/ Remove(i) \/ LockGoesStale(i)
  PROVE  [Verdicts!Next]_(Verdicts!vars)
<1>1. CASE Insert(i)
  <2>1. /\ status[i] = "NONE" /\ reason[i] = "none"
        /\ \A j \in Image : /\ status'[j] = IF j = i THEN "PENDING" ELSE status[j]
                            /\ reason'[j] = reason[j]
        /\ rows' = rows \cup {i}
    BY <1>1 DEF Insert, TypeOK, TableTypeOK, RowInv, OnlyRejectionsHaveReasons
  <2>2. \A j \in Image : ClientView(j)' = IF j = i THEN Verdicts!Waiting
                                          ELSE ClientView(j)
    BY <2>1 DEF ClientView, Verdicts!Waiting
  <2>3. ClientViews[i] = Verdicts!NoVerdict
    BY <2>1 DEF ClientViews, ClientView, Verdicts!NoVerdict
  <2>4. ClientViews' = [ClientViews EXCEPT ![i] = Verdicts!Waiting]
    BY <2>2 DEF ClientViews
  <2>5. Verdicts!Upload(i)
    BY <2>1, <2>3, <2>4 DEF Verdicts!Upload
  <2> QED BY <2>5 DEF Verdicts!Next
<1>2. CASE Remove(i)
  <2>1. ClientViews' = ClientViews
    BY <1>2 DEF Remove, ClientViews, ClientView
  <2>2. Verdicts!Delete(i)
    BY <1>2, <2>1 DEF Remove, Verdicts!Delete
  <2> QED BY <2>2 DEF Verdicts!Next
<1>3. CASE LockGoesStale(i)
  BY <1>3, SameViews DEF LockGoesStale, ClientView
<1> QED BY <1>1, <1>2, <1>3

LEMMA ClaimRefines ==
  ASSUME TypeOK, RowInv, NEW batch \in SUBSET Image, \A i \in batch : Claimable(i),
         ClaimBatch(batch)
  PROVE  UNCHANGED Verdicts!vars
<1>1. /\ rows' = rows
      /\ \A i \in Image : /\ reason'[i] = reason[i]
                          /\ \/ status'[i] = status[i]
                             \/ /\ status[i] \in {"PENDING", "PROCESSING"}
                                /\ status'[i] = "PROCESSING"
  BY DEF ClaimBatch, Claimable, AwaitingWorker
<1>2. \A i \in Image : ClientView(i)' = ClientView(i)
  BY <1>1 DEF ClientView
<1> QED BY <1>1, <1>2, SameViews

LEMMA RefinementStep == IInv /\ [Next]_vars => [Verdicts!Next]_(Verdicts!vars)
<1> SUFFICES ASSUME IInv, [Next]_vars PROVE [Verdicts!Next]_(Verdicts!vars)
  OBVIOUS
<1>1. TypeOK /\ RowInv /\ JobInv /\ TableEffect
  BY TableSteps DEF IInv
<1>2. CASE UNCHANGED tableVars
  BY <1>2, SameViews DEF tableVars, ClientView
<1> QED BY <1>1, <1>2, UserStepRefines, FailExhaustedRefines, ClaimRefines,
           FinalizeRefines, RejectRefines, ReleaseRefines DEF TableEffect

LEMMA RefinementInit == Init => Verdicts!Init
BY DEF Init, TableInit, ClientViews, ClientView, Verdicts!Init, Verdicts!NoVerdict

(* What clients see of any number of workers, claims, retries and crashes  *)
(* is a behaviour of ImageVerdicts.                                        *)
THEOREM WorkersImplementVerdicts == Spec => ImplementsVerdicts
BY RefinementInit, RefinementStep, Invariance, PTL
DEF Spec, ImplementsVerdicts, Verdicts!Spec
=============================================================================
