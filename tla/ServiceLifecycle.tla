-------------------------- MODULE ServiceLifecycle ---------------------------
(***************************************************************************)
(* The API's and the worker's processes from start to exit: the top-level  *)
(* code of apps/api/src/server.ts and worker.ts, the bucket they may both  *)
(* create (S3StorageService.ensureBucket), and their shutdown on a signal. *)
(* A request or a batch is a unit of work that needs the database pool; a  *)
(* request comes over a connection, which it may lose before it ends.      *)
(***************************************************************************)
EXTENDS Integers, FiniteSets

CONSTANTS
  Api, Worker,    (* processes, started together                            *)
  Signal,         (* SHUTDOWN_SIGNALS                                       *)
  MaxWork         (* bound: units of work a process has under way           *)

ASSUME ProcessesAreDistinct == Api \cap Worker = {}
ASSUME WorkIsBounded == MaxWork \in Nat \ {0}

Process == Api \cup Worker

VARIABLES
  autoCreate,   (* S3_AUTO_CREATE_BUCKET, shared by all processes           *)
  bucket,       (* the bucket exists                                        *)
  stage,        (* where each process is in its top-level code              *)
  faulted,      (* the object store has failed a call of the process        *)
  caught,       (* signals a process's handlers have run for                *)
  connections,  (* connections an API's server holds                        *)
  work,         (* units of work under way                                  *)
  orphans,      (* of them, requests whose connection has gone              *)
  pool          (* a process's database pool: none, open, closed            *)

serving == <<connections, work, orphans>>
vars == <<autoCreate, bucket, stage, faulted, caught, serving, pool>>

StartUp == {"config", "model", "head", "create", "recheck", "detector", "listen"}
Failed == {"no config", "no model", "no bucket", "no detector", "no port"}
Ended == Failed \cup {"killed", "exited", "exited with failure"}

Init == /\ autoCreate \in BOOLEAN
        /\ bucket \in BOOLEAN
        /\ stage = [p \in Process |-> "config"]
        /\ faulted = [p \in Process |-> FALSE]
        /\ caught = [p \in Process |-> {}]
        /\ connections = [p \in Process |-> 0]
        /\ work = [p \in Process |-> 0]
        /\ orphans = [p \in Process |-> 0]
        /\ pool = [p \in Process |-> "none"]

Goes(p, to) == stage' = [stage EXCEPT ![p] = to]

-----------------------------------------------------------------------------
(* Start-up. *)

(* After the bucket: the worker loads its network, the API listens. *)
Ready(p) == IF p \in Worker THEN "detector" ELSE "listen"

(* The clients are created; the bucket is ensured if so configured. *)
Connect(p) == /\ pool' = [pool EXCEPT ![p] = "open"]
              /\ Goes(p, IF autoCreate THEN "head" ELSE Ready(p))

(* loadConfig throws, or yields a configuration. *)
LoadConfig(p) ==
  /\ stage[p] = "config"
  /\ \/ Goes(p, "no config") /\ UNCHANGED pool
     \/ p \in Worker /\ Goes(p, "model") /\ UNCHANGED pool
     \/ p \in Api /\ Connect(p)
  /\ UNCHANGED <<autoCreate, bucket, faulted, caught, serving>>

FindModel(p) ==
  /\ stage[p] = "model"
  /\ \/ Goes(p, "no model") /\ UNCHANGED pool
     \/ Connect(p)
  /\ UNCHANGED <<autoCreate, bucket, faulted, caught, serving>>

Fault(p) == faulted' = [faulted EXCEPT ![p] = TRUE]

(* bucketExists *)
HeadBucket(p) ==
  /\ stage[p] = "head"
  /\ \/ Fault(p) /\ Goes(p, "no bucket")
     \/ bucket /\ Goes(p, Ready(p)) /\ UNCHANGED faulted
     \/ ~bucket /\ Goes(p, "create") /\ UNCHANGED faulted
  /\ UNCHANGED <<autoCreate, bucket, caught, serving, pool>>

(* Mutant: an error of the creation is the process's end. *)
CreateBucketOrFail(p) ==
  /\ stage[p] = "create"
  /\ \/ bucket /\ Goes(p, "no bucket") /\ UNCHANGED <<bucket, faulted>>
     \/ ~bucket /\ bucket' = TRUE /\ Goes(p, Ready(p)) /\ UNCHANGED faulted
  /\ UNCHANGED <<autoCreate, caught, serving, pool>>

(* Mutant: after an error the whole is tried again, without end. *)
CreateBucketWithRetry(p) ==
  /\ stage[p] = "create"
  /\ \/ bucket /\ Goes(p, "head") /\ UNCHANGED <<bucket, faulted>>
     \/ ~bucket /\ bucket' = TRUE /\ Goes(p, Ready(p)) /\ UNCHANGED faulted
     \/ Fault(p) /\ Goes(p, "head") /\ UNCHANGED bucket
  /\ UNCHANGED <<autoCreate, caught, serving, pool>>

(* Creating a bucket that is there by now is an error; so is a fault, which *)
(* may hide that the bucket was created.                                   *)
CreateBucket(p) ==
  /\ stage[p] = "create"
  /\ \/ bucket /\ Goes(p, "recheck") /\ UNCHANGED <<bucket, faulted>>
     \/ ~bucket /\ bucket' = TRUE /\ Goes(p, Ready(p)) /\ UNCHANGED faulted
     \/ Fault(p) /\ bucket' \in {bucket, TRUE} /\ Goes(p, "recheck")
  /\ UNCHANGED <<autoCreate, caught, serving, pool>>

RecheckBucket(p) ==
  /\ stage[p] = "recheck"
  /\ \/ Fault(p) /\ Goes(p, "no bucket")
     \/ bucket /\ Goes(p, Ready(p)) /\ UNCHANGED faulted
     \/ ~bucket /\ Goes(p, "no bucket") /\ UNCHANGED faulted
  /\ UNCHANGED <<autoCreate, bucket, caught, serving, pool>>

(* The signal handlers are there as soon as the process runs or listens. *)
LoadDetector(p) ==
  /\ stage[p] = "detector"
  /\ Goes(p, "running") \/ Goes(p, "no detector")
  /\ UNCHANGED <<autoCreate, bucket, faulted, caught, serving, pool>>

CallListen(p) ==
  /\ stage[p] = "listen"
  /\ Goes(p, "listening")
  /\ UNCHANGED <<autoCreate, bucket, faulted, caught, serving, pool>>

(* listen's callback throws the error it is given. *)
Listening(p) ==
  /\ stage[p] = "listening"
  /\ Goes(p, "running") \/ Goes(p, "no port")
  /\ UNCHANGED <<autoCreate, bucket, faulted, caught, serving, pool>>

-----------------------------------------------------------------------------
(* Work. *)

Opens(p) == connections' = [connections EXCEPT ![p] = @ + 1]
Closes(p) == connections' = [connections EXCEPT ![p] = @ - 1]

(* A server that closes accepts no connection.                             *)
OpenConnection(p) ==
  /\ p \in Api /\ stage[p] = "running"
  /\ connections[p] + orphans[p] < MaxWork
  /\ Opens(p)
  /\ UNCHANGED <<autoCreate, bucket, stage, faulted, caught, work, orphans, pool>>

(* A worker claims one batch after the other.  A connection brings one      *)
(* request after the other, also to an API that is closing.                *)
BeginWork(p) ==
  /\ \/ p \in Worker /\ stage[p] = "running" /\ work[p] = 0
     \/ p \in Api /\ work[p] - orphans[p] < connections[p]
  /\ work' = [work EXCEPT ![p] = @ + 1]
  /\ UNCHANGED <<autoCreate, bucket, stage, faulted, caught, connections, orphans, pool>>

(* The batch is done, or the request is answered: its connection is kept.  *)
EndWork(p) ==
  /\ work[p] > orphans[p]
  /\ work' = [work EXCEPT ![p] = @ - 1]
  /\ UNCHANGED <<autoCreate, bucket, stage, faulted, caught, connections, orphans, pool>>

(* A connection without a request goes. *)
CloseConnection(p) ==
  /\ connections[p] > work[p] - orphans[p]
  /\ Closes(p)
  /\ UNCHANGED <<autoCreate, bucket, stage, faulted, caught, work, orphans, pool>>

(* The client aborts a request: the handler goes on without a connection.  *)
Desert(p) ==
  /\ p \in Api /\ work[p] > orphans[p]
  /\ Closes(p)
  /\ orphans' = [orphans EXCEPT ![p] = @ + 1]
  /\ UNCHANGED <<autoCreate, bucket, stage, faulted, caught, work, pool>>

EndOrphan(p) ==
  /\ orphans[p] > 0
  /\ work' = [work EXCEPT ![p] = @ - 1]
  /\ orphans' = [orphans EXCEPT ![p] = @ - 1]
  /\ UNCHANGED <<autoCreate, bucket, stage, faulted, caught, connections, pool>>

-----------------------------------------------------------------------------
(* Shutdown. *)

HasHandlers(p) == stage[p] \in {"listening", "running", "stopping", "disconnected"}

(* An end that is not waited for takes the process's work with it.         *)
BreaksOff(p) == /\ connections' = [connections EXCEPT ![p] = 0]
                /\ work' = [work EXCEPT ![p] = 0]
                /\ orphans' = [orphans EXCEPT ![p] = 0]

(* server.close() drops the connections that have no request.              *)
ClosesIdle(p) == connections' = [connections EXCEPT
                   ![p] = IF p \in Api THEN work[p] - orphans[p] ELSE @]

(* process.once: a handler runs for the first signal of its kind; without  *)
(* one a signal ends the process at once.                                  *)
Receive(p, signal) ==
  /\ stage[p] \notin Ended
  /\ IF HasHandlers(p) /\ signal \notin caught[p]
     THEN /\ caught' = [caught EXCEPT ![p] = @ \cup {signal}]
          /\ IF stage[p] = "disconnected" THEN UNCHANGED stage ELSE Goes(p, "stopping")
          /\ ClosesIdle(p)
          /\ UNCHANGED <<work, orphans>>
     ELSE /\ Goes(p, "killed")
          /\ BreaksOff(p)
          /\ UNCHANGED caught
  /\ UNCHANGED <<autoCreate, bucket, faulted, pool>>

(* The pool is closed, or $disconnect rejects and the process fails.       *)
ReleasePool(p) ==
  /\ \/ /\ pool' = [pool EXCEPT ![p] = "closed"]
        /\ Goes(p, "disconnected")
        /\ UNCHANGED serving
     \/ Goes(p, "exited with failure") /\ BreaksOff(p) /\ UNCHANGED pool
  /\ UNCHANGED <<autoCreate, bucket, faulted, caught>>

(* Mutant: the pool is closed as soon as the process stops accepting work. *)
DisconnectAtOnce(p) == stage[p] = "stopping" /\ ReleasePool(p)

(* worker.stop() waits for the batch, server.close() for its connections.  *)
Disconnect(p) ==
  /\ stage[p] = "stopping"
  /\ IF p \in Worker THEN work[p] = 0 ELSE connections[p] = 0
  /\ ReleasePool(p)

(* A process whose event loop has nothing left to do is over.              *)
Exit(p) ==
  /\ stage[p] = "disconnected"
  /\ work[p] = 0
  /\ Goes(p, "exited")
  /\ UNCHANGED <<autoCreate, bucket, faulted, caught, serving, pool>>

-----------------------------------------------------------------------------
StartsUp(p) == \/ LoadConfig(p) \/ FindModel(p)
               \/ HeadBucket(p) \/ CreateBucket(p) \/ RecheckBucket(p)
               \/ LoadDetector(p) \/ CallListen(p) \/ Listening(p)

(* What a process does by itself, and what its clients do.                 *)
Step(p) == \/ StartsUp(p)
           \/ p \in Worker /\ EndWork(p)
           \/ EndOrphan(p) \/ Disconnect(p) \/ Exit(p)

Serve(p) == \/ OpenConnection(p) \/ BeginWork(p) \/ EndWork(p)
            \/ CloseConnection(p) \/ Desert(p)

Next == \E p \in Process : \/ Step(p)
                           \/ Serve(p)
                           \/ \E signal \in Signal : Receive(p, signal)

(* A process runs its own code and every call it makes is answered.  Nobody *)
(* has to send requests or signals, to end an upload or to hang up.        *)
Spec == Init /\ [][Next]_vars /\ \A p \in Process : WF_vars(Step(p))

-----------------------------------------------------------------------------
(* Properties.  The first is the type invariant. *)

TypeOK == /\ autoCreate \in BOOLEAN
          /\ bucket \in BOOLEAN
          /\ stage \in [Process -> StartUp \cup Ended \cup {"listening", "running", "stopping", "disconnected"}]
          /\ faulted \in [Process -> BOOLEAN]
          /\ caught \in [Process -> SUBSET Signal]
          /\ \A counter \in {connections, work, orphans} :
               counter \in [Process -> 0 .. MaxWork]
          /\ pool \in [Process -> {"none", "open", "closed"}]

(* s3-storage.service.ts: "losing that race is fine".  With the bucket to  *)
(* be created by whoever comes first, no process ends over it unless the   *)
(* store has failed a call of its own; and one that goes on has a bucket.  *)
LosingTheRaceIsFine ==
  \A p \in Process :
    /\ stage[p] = "no bucket" => faulted[p]
    /\ autoCreate /\ stage[p] \in {"detector", "listen", "listening", "running"} => bucket

(* server.ts: "lets in-flight requests finish, then releases the database  *)
(* pool".  The code keeps this to a batch and to a request whose client is *)
(* still there, but not to one that was deserted.                          *)
PoolOutlivesWork ==
  \A p \in Process : work[p] > 0 => pool[p] = "open"

(* What it keeps: no pool is closed under a batch, or under a request that *)
(* somebody waits for, whatever clients and signals come in between.       *)
PoolOutlivesAttendedWork ==
  \A p \in Process : work[p] > orphans[p] => pool[p] = "open"

(* A worker that has heard a signal ends, whatever it was doing and whether *)
(* a second signal comes; so does an API whose clients have gone for good.  *)
(* A process that starts gets up and running, or says why not.             *)
SignalsEndProcesses ==
  \A p \in Process :
    /\ \/ caught[p] # {} ~> stage[p] \in Ended
       \/ p \in Api /\ ~ <>[](connections[p] = 0)
    /\ stage[p] \in StartUp ~> stage[p] \notin StartUp
=============================================================================
