----------------------------- MODULE ImageQueue -----------------------------
(***************************************************************************)
(* The `images` table used as a work queue, apps/api/src/processing/       *)
(* image-queue.ts.  Each operator below is the effect of one committed SQL *)
(* statement (or, for the verdict, of the UPDATE that ends a transaction); *)
(* PostgreSQL makes each atomic.  Who runs them, in what order, and what a *)
(* failed or unanswered statement leads to is ProcessingWorker's.          *)
(*                                                                         *)
(* A deleted row keeps its last column values here, as history; only ids   *)
(* in `rows` are visible to a statement.                                   *)
(***************************************************************************)
EXTENDS Photos, FiniteSets

CONSTANTS
  MaxAttempts,  (* QUEUE.MAX_ATTEMPTS *)
  BatchSize     (* QUEUE.BATCH_SIZE   *)

ASSUME LimitsArePositive == /\ MaxAttempts \in Nat \ {0}
                            /\ BatchSize \in Nat \ {0}

VARIABLES
  rows,      (* the ids in the table                                       *)
  status,    (* status; "NONE" until the row is inserted                   *)
  attempts,  (* attempts                                                   *)
  lock,      (* locked_at: null, younger or older than STALE_LOCK_MS       *)
  reason     (* rejection_reason                                           *)

tableVars == <<rows, status, attempts, lock, reason>>

Terminal == {"ACCEPTED", "REJECTED", "FAILED"}
Status == {"NONE", "PENDING", "PROCESSING"} \cup Terminal

TableTypeOK == /\ rows \subseteq Image
               /\ status \in [Image -> Status]
               /\ attempts \in [Image -> 0 .. MaxAttempts]
               /\ lock \in [Image -> {"null", "live", "stale"}]
               /\ reason \in [Image -> Reason]

TableInit == /\ rows = {}
             /\ status = [i \in Image |-> "NONE"]
             /\ attempts = [i \in Image |-> 0]
             /\ lock = [i \in Image |-> "null"]
             /\ reason = [i \in Image |-> "none"]

-----------------------------------------------------------------------------
(* What the API's statements do to the table. *)

(* image.create: status and attempts take their schema defaults. *)
Insert(i) == /\ status[i] = "NONE"
             /\ rows' = rows \cup {i}
             /\ status' = [status EXCEPT ![i] = "PENDING"]
             /\ UNCHANGED <<attempts, lock, reason>>

(* image.deleteMany, whatever the worker is doing with the row. *)
Remove(i) == /\ i \in rows
             /\ rows' = rows \ {i}
             /\ UNCHANGED <<status, attempts, lock, reason>>

-----------------------------------------------------------------------------
(* The queue's own statements. *)

(* Mutant: a stale lock is never noticed. *)
AwaitingWorkerIfPending(i) == i \in rows /\ status[i] = "PENDING"

(* AWAITING_WORKER; a null locked_at is older than nothing. *)
AwaitingWorker(i) ==
  /\ i \in rows
  /\ \/ status[i] = "PENDING"
     \/ status[i] = "PROCESSING" /\ lock[i] = "stale"

Claimable(i) == AwaitingWorker(i) /\ attempts[i] < MaxAttempts
Exhausted(i) == AwaitingWorker(i) /\ attempts[i] >= MaxAttempts

(* ORDER BY created_at LIMIT n. *)
Oldest(n, S) == {i \in S : Cardinality({j \in S : j < i}) < n}

(* Mutant: the claim does not count as an attempt. *)
ClaimWithoutCounting(batch) ==
  /\ status' = [i \in Image |-> IF i \in batch THEN "PROCESSING" ELSE status[i]]
  /\ lock' = [i \in Image |-> IF i \in batch THEN "live" ELSE lock[i]]
  /\ UNCHANGED <<rows, attempts, reason>>

(* The rows one claim takes when SKIP LOCKED passes over `skipped`. *)
Batch(skipped) == Oldest(BatchSize, {i \in Image \ skipped : Claimable(i)})

ClaimBatch(batch) ==
  /\ status' = [i \in Image |-> IF i \in batch THEN "PROCESSING" ELSE status[i]]
  /\ attempts' = [i \in Image |-> IF i \in batch THEN attempts[i] + 1 ELSE attempts[i]]
  /\ lock' = [i \in Image |-> IF i \in batch THEN "live" ELSE lock[i]]
  /\ UNCHANGED <<rows, reason>>

FailExhausted ==
  /\ status' = [i \in Image |-> IF Exhausted(i) THEN "FAILED" ELSE status[i]]
  /\ lock' = [i \in Image |-> IF Exhausted(i) THEN "null" ELSE lock[i]]
  /\ UNCHANGED <<rows, attempts, reason>>

(* Mutants: the fencing test forgets the status; it forgets the attempts. *)
OwnedByAttempts(i, token) == i \in rows /\ attempts[i] = token
OwnedByStatus(i, token) == i \in rows /\ status[i] = "PROCESSING"

(* The row is still held by the claim that drew `token`: the fencing test. *)
OwnedBy(i, token) == /\ i \in rows
                     /\ status[i] = "PROCESSING"
                     /\ attempts[i] = token

(* updateMany where ownedBy(job): a row somebody else holds is left alone. *)
UpdateOwned(i, token, newStatus, newReason) ==
  \/ /\ OwnedBy(i, token)
     /\ status' = [status EXCEPT ![i] = newStatus]
     /\ reason' = [reason EXCEPT ![i] = newReason]
     /\ lock' = [lock EXCEPT ![i] = "null"]
     /\ UNCHANGED <<rows, attempts>>
  \/ /\ ~OwnedBy(i, token)
     /\ UNCHANGED tableVars

Accept(i, token) == UpdateOwned(i, token, "ACCEPTED", "none")
Reject(i, token, why) == UpdateOwned(i, token, "REJECTED", why)

(* The status is computed from the claim's own counter, not from the row. *)
ReleaseForRetry(i, token) ==
  UpdateOwned(i, token, IF token >= MaxAttempts THEN "FAILED" ELSE "PENDING",
              reason[i])

(* Mutant: the query does not ask for the status. *)
LookAlikesOfAnyStatus(i) == {j \in rows : LookAlike(j, i)}

(* The accepted photos the duplicate query finds for i. *)
AcceptedLookAlikes(i) ==
  {j \in rows : status[j] = "ACCEPTED" /\ LookAlike(j, i)}

(* Five minutes pass.  Nothing renews locked_at while a job runs, so the   *)
(* lock of a slow worker expires like that of a dead one.                  *)
LockGoesStale(i) == /\ i \in rows
                    /\ lock[i] = "live"
                    /\ lock' = [lock EXCEPT ![i] = "stale"]
                    /\ UNCHANGED <<rows, status, attempts, reason>>
=============================================================================
