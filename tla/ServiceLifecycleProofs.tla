------------------------ MODULE ServiceLifecycleProofs ------------------------
(***************************************************************************)
(* For any number of API and worker processes started together: losing the *)
(* race for the bucket ends none of them, and no process releases its      *)
(* database pool under work that somebody waits for.                       *)
(***************************************************************************)
EXTENDS ServiceLifecycle, TLAPS

(* Stages in which a process serves clients or claims batches. *)
Serving == {"running", "stopping"}

(* Stages a process reaches only with its clients. *)
Connected == Serving \cup {"head", "create", "recheck", "detector", "listen",
                           "listening"}

PoolIsThereOnceConnected ==
  \A p \in Process : stage[p] \in Connected => pool[p] = "open"

(* Only orphans are left once the pool is closed, and before a process     *)
(* serves and after its end there is nothing.                              *)
WorkIsServed ==
  \A p \in Process :
    /\ work[p] > orphans[p] \/ connections[p] > 0 => stage[p] \in Serving
    /\ orphans[p] > 0 => stage[p] \in Serving \cup {"disconnected"}

(* A request is on a connection or an orphan; a worker has one batch and no *)
(* connection.                                                             *)
WorkIsAttended ==
  \A p \in Process :
    /\ orphans[p] <= work[p]
    /\ p \in Api => work[p] <= connections[p] + orphans[p]
    /\ p \in Api => connections[p] + orphans[p] <= MaxWork
    /\ p \in Worker => connections[p] = 0 /\ orphans[p] = 0 /\ work[p] <= 1

(* A creation that failed without the bucket being there was a fault. *)
RechecksAreForAReason ==
  \A p \in Process : stage[p] = "recheck" => bucket \/ faulted[p]

IInv == /\ TypeOK
        /\ PoolIsThereOnceConnected
        /\ WorkIsServed
        /\ WorkIsAttended
        /\ RechecksAreForAReason
        /\ LosingTheRaceIsFine

(* What the counters of a process are, as numbers.                         *)
LEMMA CountersAreNumbers ==
  ASSUME TypeOK, NEW p \in Process
  PROVE  /\ MaxWork \in Nat /\ MaxWork > 0
         /\ connections \in [Process -> 0 .. MaxWork]
         /\ work \in [Process -> 0 .. MaxWork]
         /\ orphans \in [Process -> 0 .. MaxWork]
         /\ connections[p] \in Nat /\ work[p] \in Nat /\ orphans[p] \in Nat
         /\ connections[p] <= MaxWork /\ work[p] <= MaxWork /\ orphans[p] <= MaxWork
BY WorkIsBounded DEF TypeOK

(* Before anything runs there is no work and nobody has passed the bucket. *)
LEMMA InitEstablishesIInv == Init => IInv
<1> SUFFICES ASSUME Init PROVE IInv
  OBVIOUS
<1>1. 0 \in 0 .. MaxWork /\ 0 <= MaxWork
  BY WorkIsBounded
<1>2. TypeOK
  BY <1>1 DEF Init, TypeOK, StartUp
<1>3. WorkIsServed /\ WorkIsAttended
  BY <1>1 DEF Init, WorkIsServed, WorkIsAttended
<1> QED
  BY <1>2, <1>3
     DEF Init, IInv, StartUp, Serving, Connected, PoolIsThereOnceConnected,
         RechecksAreForAReason, LosingTheRaceIsFine

(* The steps of start-up have no work, and begin none.                     *)
LEMMA StartUpIsIdle ==
  ASSUME IInv, NEW p \in Process, StartsUp(p)
  PROVE  WorkIsServed' /\ WorkIsAttended'
<1>1. /\ UNCHANGED <<connections, work, orphans>>
      /\ stage[p] \notin Serving \cup {"disconnected"}
      /\ \E to : stage' = [stage EXCEPT ![p] = to]
  BY DEF StartsUp, LoadConfig, FindModel, HeadBucket, CreateBucket, RecheckBucket,
         LoadDetector, CallListen, Listening, Connect, Goes, Serving, serving
<1>2. \A q \in Process : q # p => stage'[q] = stage[q]
  BY <1>1 DEF IInv, TypeOK
<1>3. ASSUME NEW q \in Process
      PROVE  /\ work'[q] > orphans'[q] \/ connections'[q] > 0 => stage'[q] \in Serving
             /\ orphans'[q] > 0 => stage'[q] \in Serving \cup {"disconnected"}
  BY <1>1, <1>2 DEF IInv, WorkIsServed
<1>4. WorkIsServed'
  BY <1>3 DEF WorkIsServed
<1>5. WorkIsAttended'
  BY <1>1 DEF IInv, WorkIsAttended
<1> QED
  BY <1>4, <1>5

(* Nor do they touch the counters.                                         *)
LEMMA StartUpKeepsCounters ==
  ASSUME TypeOK, NEW p \in Process, StartsUp(p)
  PROVE  \A counter \in {connections', work', orphans'} : counter \in [Process -> 0 .. MaxWork]
<1>1. UNCHANGED <<connections, work, orphans>>
  BY DEF StartsUp, LoadConfig, FindModel, HeadBucket, CreateBucket, RecheckBucket,
         LoadDetector, CallListen, Listening, serving
<1> QED
  BY <1>1 DEF TypeOK

(* A bucket, once there, stays; so a process that found or made one need   *)
(* not look again, and one that lost the race finds it.                    *)
LEMMA StartUpKeepsIInv ==
  ASSUME IInv, NEW p \in Process, StartsUp(p)
  PROVE  IInv'
<1> USE DEF IInv, TypeOK, StartUp, Ended, Failed, Serving, Connected, Goes, Ready, Fault
<1>0. /\ WorkIsServed' /\ WorkIsAttended'
      /\ \A counter \in {connections', work', orphans'} : counter \in [Process -> 0 .. MaxWork]
  BY StartUpIsIdle, StartUpKeepsCounters
<1>1. CASE LoadConfig(p)
  <2>1. TypeOK'
    BY <1>0, <1>1 DEF LoadConfig, Connect
  <2>2. PoolIsThereOnceConnected'
    BY <1>1 DEF LoadConfig, Connect, PoolIsThereOnceConnected
  <2>3. RechecksAreForAReason'
    BY <1>1 DEF LoadConfig, Connect, RechecksAreForAReason
  <2>4. LosingTheRaceIsFine'
    BY <1>1, ZenonT(40) DEF LoadConfig, Connect, LosingTheRaceIsFine
  <2> QED
    BY <1>0, <2>1, <2>2, <2>3, <2>4
<1>2. CASE FindModel(p)
  <2>1. TypeOK'
    BY <1>0, <1>2 DEF FindModel, Connect
  <2>2. PoolIsThereOnceConnected'
    BY <1>2 DEF FindModel, Connect, PoolIsThereOnceConnected
  <2>3. RechecksAreForAReason' /\ LosingTheRaceIsFine'
    BY <1>2, ZenonT(40) DEF FindModel, Connect, RechecksAreForAReason, LosingTheRaceIsFine
  <2> QED
    BY <1>0, <2>1, <2>2, <2>3
<1>3. CASE HeadBucket(p)
  <2>1. TypeOK'
    BY <1>0, <1>3 DEF HeadBucket
  <2>2. PoolIsThereOnceConnected'
    BY <1>3 DEF HeadBucket, PoolIsThereOnceConnected
  <2>3. RechecksAreForAReason' /\ LosingTheRaceIsFine'
    BY <1>3, ZenonT(40) DEF HeadBucket, RechecksAreForAReason, LosingTheRaceIsFine
  <2> QED
    BY <1>0, <2>1, <2>2, <2>3
<1>4. CASE CreateBucket(p)
  <2>1. TypeOK'
    BY <1>0, <1>4 DEF CreateBucket
  <2>2. PoolIsThereOnceConnected'
    BY <1>4 DEF CreateBucket, PoolIsThereOnceConnected
  <2>3. RechecksAreForAReason' /\ LosingTheRaceIsFine'
    BY <1>4, ZenonT(40) DEF CreateBucket, RechecksAreForAReason, LosingTheRaceIsFine
  <2> QED
    BY <1>0, <2>1, <2>2, <2>3
<1>5. CASE RecheckBucket(p)
  <2>1. TypeOK'
    BY <1>0, <1>5 DEF RecheckBucket
  <2>2. PoolIsThereOnceConnected'
    BY <1>5 DEF RecheckBucket, PoolIsThereOnceConnected
  <2>3. RechecksAreForAReason' /\ LosingTheRaceIsFine'
    BY <1>5, ZenonT(40) DEF RecheckBucket, RechecksAreForAReason, LosingTheRaceIsFine
  <2> QED
    BY <1>0, <2>1, <2>2, <2>3
<1>6. CASE LoadDetector(p)
  <2>1. TypeOK'
    BY <1>0, <1>6 DEF LoadDetector
  <2>2. PoolIsThereOnceConnected'
    BY <1>6 DEF LoadDetector, PoolIsThereOnceConnected
  <2>3. RechecksAreForAReason' /\ LosingTheRaceIsFine'
    BY <1>6, ZenonT(40) DEF LoadDetector, RechecksAreForAReason, LosingTheRaceIsFine
  <2> QED
    BY <1>0, <2>1, <2>2, <2>3
<1>7. CASE CallListen(p)
  <2>1. TypeOK'
    BY <1>0, <1>7 DEF CallListen
  <2>2. PoolIsThereOnceConnected'
    BY <1>7 DEF CallListen, PoolIsThereOnceConnected
  <2>3. RechecksAreForAReason' /\ LosingTheRaceIsFine'
    BY <1>7, ZenonT(40) DEF CallListen, RechecksAreForAReason, LosingTheRaceIsFine
  <2> QED
    BY <1>0, <2>1, <2>2, <2>3
<1>8. CASE Listening(p)
  <2>1. TypeOK'
    BY <1>0, <1>8 DEF Listening
  <2>2. PoolIsThereOnceConnected'
    BY <1>8 DEF Listening, PoolIsThereOnceConnected
  <2>3. RechecksAreForAReason' /\ LosingTheRaceIsFine'
    BY <1>8, ZenonT(40) DEF Listening, RechecksAreForAReason, LosingTheRaceIsFine
  <2> QED
    BY <1>0, <2>1, <2>2, <2>3
<1> QED
  BY <1>1, <1>2, <1>3, <1>4, <1>5, <1>6, <1>7, <1>8 DEF StartsUp

(* The end of a process, whatever becomes of its pool. *)
StepsOut(p, how) ==
  /\ stage' = [stage EXCEPT ![p] = how]
  /\ BreaksOff(p)
  /\ UNCHANGED <<autoCreate, bucket, faulted, caught, pool>>

(* It takes no work with it, and is of no concern to the other processes.  *)
LEMMA StepsOutKeepIInv ==
  ASSUME IInv, NEW p \in Process,
         NEW how \in Ended \ Failed,
         StepsOut(p, how)
  PROVE  IInv'
<1>0. 0 \in 0 .. MaxWork /\ 0 <= MaxWork
  BY WorkIsBounded
<1>1. /\ connections' = [connections EXCEPT ![p] = 0]
      /\ work' = [work EXCEPT ![p] = 0]
      /\ orphans' = [orphans EXCEPT ![p] = 0]
      /\ stage' = [stage EXCEPT ![p] = how]
      /\ UNCHANGED <<autoCreate, bucket, faulted, caught, pool>>
  BY DEF StepsOut, BreaksOff
<1>2. TypeOK'
  <2>1. \A counter \in {connections', work', orphans'} : counter \in [Process -> 0 .. MaxWork]
    BY <1>0, <1>1, CountersAreNumbers DEF IInv
  <2>2. stage' \in [Process -> StartUp \cup Ended
                                 \cup {"listening", "running", "stopping", "disconnected"}]
    BY <1>1 DEF IInv, TypeOK, Ended
  <2> QED
    BY <1>1, <2>1, <2>2 DEF IInv, TypeOK
<1>3. /\ stage'[p] = how
      /\ how \notin Connected \cup {"recheck", "no bucket"}
      /\ work'[p] = 0 /\ orphans'[p] = 0 /\ connections'[p] = 0
  BY <1>1, CountersAreNumbers DEF IInv, TypeOK, Connected, Serving, Ended, Failed
<1>4. ASSUME NEW q \in Process, q # p
      PROVE  /\ stage'[q] = stage[q] /\ pool'[q] = pool[q]
             /\ work'[q] = work[q] /\ orphans'[q] = orphans[q]
             /\ connections'[q] = connections[q]
  BY <1>1, <1>4, CountersAreNumbers DEF IInv, TypeOK
<1>5. PoolIsThereOnceConnected'
  BY <1>3, <1>4 DEF IInv, PoolIsThereOnceConnected
<1>6. WorkIsServed'
  <2> SUFFICES ASSUME NEW q \in Process
               PROVE  /\ work'[q] > orphans'[q] \/ connections'[q] > 0 => stage'[q] \in Serving
                      /\ orphans'[q] > 0 => stage'[q] \in Serving \cup {"disconnected"}
    BY DEF WorkIsServed
  <2>0. ~(0 > 0)
    OBVIOUS
  <2>1. CASE q = p
    BY <1>3, <2>0, <2>1, Zenon
  <2>2. CASE q # p
    <3>1. /\ work[q] > orphans[q] \/ connections[q] > 0 => stage[q] \in Serving
          /\ orphans[q] > 0 => stage[q] \in Serving \cup {"disconnected"}
      BY DEF IInv, WorkIsServed
    <3> QED
      BY <1>4, <2>2, <3>1
  <2> QED
    BY <2>1, <2>2
<1>7. WorkIsAttended'
  <2> SUFFICES ASSUME NEW q \in Process
               PROVE  /\ orphans'[q] <= work'[q]
                      /\ q \in Api => work'[q] <= connections'[q] + orphans'[q]
                      /\ q \in Api => connections'[q] + orphans'[q] <= MaxWork
                      /\ q \in Worker => connections'[q] = 0 /\ orphans'[q] = 0 /\ work'[q] <= 1
    BY DEF WorkIsAttended
  <2>0. 0 <= 0 /\ 0 <= 0 + 0 /\ 0 + 0 <= MaxWork /\ 0 <= 1
    BY <1>0
  <2>1. CASE q = p
    BY <1>3, <2>0, <2>1, Zenon
  <2>2. CASE q # p
    <3>1. /\ orphans[q] <= work[q]
          /\ q \in Api => work[q] <= connections[q] + orphans[q]
          /\ q \in Api => connections[q] + orphans[q] <= MaxWork
          /\ q \in Worker => connections[q] = 0 /\ orphans[q] = 0 /\ work[q] <= 1
      BY DEF IInv, WorkIsAttended
    <3> QED
      BY <1>4, <2>2, <3>1
  <2> QED
    BY <2>1, <2>2
<1>8. RechecksAreForAReason' /\ LosingTheRaceIsFine'
  BY <1>1, <1>3, <1>4 DEF IInv, RechecksAreForAReason, LosingTheRaceIsFine, Connected, Serving
<1> QED
  BY <1>2, <1>5, <1>6, <1>7, <1>8 DEF IInv

(* What serving does: one process counts, and nothing else changes.        *)
Counts(p, c, w, o) ==
  /\ connections' = [connections EXCEPT ![p] = c]
  /\ work' = [work EXCEPT ![p] = w]
  /\ orphans' = [orphans EXCEPT ![p] = o]
  /\ UNCHANGED <<autoCreate, bucket, stage, faulted, caught, pool>>

LEMMA CountingKeepsIInv ==
  ASSUME IInv, NEW p \in Process,
         NEW c \in Int, NEW w \in Int, NEW o \in Int,
         Counts(p, c, w, o),
         0 <= c, 0 <= o, o <= w,
         p \in Api => w <= c + o /\ c + o <= MaxWork,
         p \in Worker => c = 0 /\ o = 0 /\ w <= 1,
         (w > o \/ c > 0) => stage[p] \in Serving,
         o > 0 => stage[p] \in Serving \cup {"disconnected"}
  PROVE  IInv'
<1> USE DEF Counts
<1>0. MaxWork \in Nat /\ MaxWork > 0
  BY WorkIsBounded
<1>1. c \in 0 .. MaxWork /\ w \in 0 .. MaxWork /\ o \in 0 .. MaxWork
  <2>1. CASE p \in Api
    BY <1>0, <2>1
  <2>2. CASE p \in Worker
    BY <1>0, <2>2
  <2> QED
    BY <2>1, <2>2 DEF Process
<1>2. /\ connections \in [Process -> 0 .. MaxWork]
      /\ work \in [Process -> 0 .. MaxWork]
      /\ orphans \in [Process -> 0 .. MaxWork]
  BY CountersAreNumbers DEF IInv
<1>3. TypeOK'
  <2>1. /\ connections' \in [Process -> 0 .. MaxWork]
        /\ work' \in [Process -> 0 .. MaxWork]
        /\ orphans' \in [Process -> 0 .. MaxWork]
    BY <1>1, <1>2
  <2> QED
    BY <2>1 DEF IInv, TypeOK
<1>4. connections'[p] = c /\ work'[p] = w /\ orphans'[p] = o
  BY <1>2
<1>5. ASSUME NEW q \in Process, q # p
      PROVE  /\ connections'[q] = connections[q] /\ work'[q] = work[q]
             /\ orphans'[q] = orphans[q]
  BY <1>2, <1>5
<1>6. WorkIsServed'
  BY <1>4, <1>5 DEF IInv, WorkIsServed
<1>7. WorkIsAttended'
  BY <1>4, <1>5 DEF IInv, WorkIsAttended
<1> QED
  BY <1>3, <1>6, <1>7
     DEF IInv, PoolIsThereOnceConnected, RechecksAreForAReason, LosingTheRaceIsFine

(* A function is itself with one of its values put back.                   *)
LEMMA CountersStay ==
  ASSUME TypeOK, NEW p \in Process
  PROVE  /\ connections = [connections EXCEPT ![p] = connections[p]]
         /\ work = [work EXCEPT ![p] = work[p]]
         /\ orphans = [orphans EXCEPT ![p] = orphans[p]]
BY CountersAreNumbers

(* Connections, requests and batches.                                      *)
LEMMA ServingKeepsIInv ==
  ASSUME IInv, NEW p \in Process, Serve(p) \/ EndOrphan(p)
  PROVE  IInv'
<1> DEFINE c == connections[p]
           w == work[p]
           o == orphans[p]
<1>1. /\ c \in Nat /\ w \in Nat /\ o \in Nat /\ MaxWork \in Nat /\ MaxWork > 0
      /\ connections = [connections EXCEPT ![p] = c]
      /\ work = [work EXCEPT ![p] = w]
      /\ orphans = [orphans EXCEPT ![p] = o]
  BY CountersAreNumbers, CountersStay DEF IInv
<1>2. /\ o <= w
      /\ p \in Api => w <= c + o /\ c + o <= MaxWork
      /\ p \in Worker => c = 0 /\ o = 0 /\ w <= 1
      /\ w > o \/ c > 0 => stage[p] \in Serving
      /\ o > 0 => stage[p] \in Serving \cup {"disconnected"}
  BY DEF IInv, WorkIsAttended, WorkIsServed
<1>3. p \in Worker => p \notin Api
  BY ProcessesAreDistinct
<1>5. CASE OpenConnection(p)
  <2>1. /\ p \in Api /\ stage[p] \in Serving /\ c + o < MaxWork
        /\ connections' = [connections EXCEPT ![p] = c + 1]
        /\ UNCHANGED <<autoCreate, bucket, stage, faulted, caught, work, orphans, pool>>
    BY <1>5 DEF OpenConnection, Opens, Serving
  <2>3. Counts(p, c + 1, w, o)
    BY <1>1, <2>1, Zenon DEF Counts
  <2> HIDE DEF c, w, o
  <2> QED
    BY <1>1, <1>2, <1>3, <2>1, <2>3, CountingKeepsIInv
<1>6. CASE BeginWork(p)
  <2>1. /\ work' = [work EXCEPT ![p] = w + 1]
        /\ UNCHANGED <<autoCreate, bucket, stage, faulted, caught, connections, orphans, pool>>
        /\ \/ p \in Worker /\ stage[p] \in Serving /\ w = 0
           \/ p \in Api /\ w - o < c
    BY <1>6 DEF BeginWork, Serving
  <2>3. Counts(p, c, w + 1, o)
    BY <1>1, <2>1, Zenon DEF Counts
  <2> HIDE DEF c, w, o
  <2>2. c > 0 \/ p \in Worker
    BY <1>1, <1>2, <2>1
  <2> QED
    BY <1>1, <1>2, <1>3, <2>1, <2>2, <2>3, CountingKeepsIInv
<1>7. CASE EndWork(p)
  <2>1. /\ w > o
        /\ work' = [work EXCEPT ![p] = w - 1]
        /\ UNCHANGED <<autoCreate, bucket, stage, faulted, caught, connections, orphans, pool>>
    BY <1>7 DEF EndWork
  <2>3. Counts(p, c, w - 1, o)
    BY <1>1, <2>1, Zenon DEF Counts
  <2> HIDE DEF c, w, o
  <2> QED
    BY <1>1, <1>2, <1>3, <2>1, <2>3, CountingKeepsIInv
<1>8. CASE CloseConnection(p)
  <2>1. /\ c > w - o
        /\ connections' = [connections EXCEPT ![p] = c - 1]
        /\ UNCHANGED <<autoCreate, bucket, stage, faulted, caught, work, orphans, pool>>
    BY <1>8 DEF CloseConnection, Closes
  <2>3. Counts(p, c - 1, w, o)
    BY <1>1, <2>1, Zenon DEF Counts
  <2> HIDE DEF c, w, o
  <2> QED
    BY <1>1, <1>2, <1>3, <2>1, <2>3, CountingKeepsIInv
<1>9. CASE Desert(p)
  <2>1. /\ p \in Api /\ w > o
        /\ connections' = [connections EXCEPT ![p] = c - 1]
        /\ orphans' = [orphans EXCEPT ![p] = o + 1]
        /\ UNCHANGED <<autoCreate, bucket, stage, faulted, caught, work, pool>>
    BY <1>9 DEF Desert, Closes
  <2>3. Counts(p, c - 1, w, o + 1)
    BY <1>1, <2>1, Zenon DEF Counts
  <2> HIDE DEF c, w, o
  <2> QED
    BY <1>1, <1>2, <1>3, <2>1, <2>3, CountingKeepsIInv
<1>10. CASE EndOrphan(p)
  <2>1. /\ o > 0
        /\ work' = [work EXCEPT ![p] = w - 1]
        /\ orphans' = [orphans EXCEPT ![p] = o - 1]
        /\ UNCHANGED <<autoCreate, bucket, stage, faulted, caught, connections, pool>>
    BY <1>10 DEF EndOrphan
  <2>3. Counts(p, c, w - 1, o - 1)
    BY <1>1, <2>1, Zenon DEF Counts
  <2> HIDE DEF c, w, o
  <2> QED
    BY <1>1, <1>2, <1>3, <2>1, <2>3, CountingKeepsIInv
<1> QED
  BY <1>5, <1>6, <1>7, <1>8, <1>9, <1>10 DEF Serve

(* A signal drops the idle connections of an API, or ends the process.     *)
LEMMA SignalsKeepIInv ==
  ASSUME IInv, NEW p \in Process, NEW signal \in Signal, Receive(p, signal)
  PROVE  IInv'
<1>1. CASE HasHandlers(p) /\ signal \notin caught[p]
  <2> DEFINE c == IF p \in Api THEN work[p] - orphans[p] ELSE connections[p]
             to == IF stage[p] = "disconnected" THEN "disconnected" ELSE "stopping"
  <2>1. /\ stage[p] \in {"listening", "running", "stopping", "disconnected"}
        /\ caught' = [caught EXCEPT ![p] = caught[p] \cup {signal}]
        /\ stage' = [stage EXCEPT ![p] = to]
        /\ connections' = [connections EXCEPT ![p] = c]
        /\ UNCHANGED <<autoCreate, bucket, faulted, work, orphans, pool>>
    BY <1>1 DEF Receive, HasHandlers, Goes, ClosesIdle, IInv, TypeOK
  <2>2. /\ connections[p] \in Nat /\ work[p] \in Nat /\ orphans[p] \in Nat
        /\ MaxWork \in Nat
        /\ work[p] <= MaxWork /\ connections[p] <= MaxWork
        /\ connections \in [Process -> 0 .. MaxWork]
    BY CountersAreNumbers DEF IInv
  <2>3. /\ orphans[p] <= work[p]
        /\ p \in Api => /\ work[p] <= connections[p] + orphans[p]
                        /\ connections[p] + orphans[p] <= MaxWork
        /\ p \in Worker => connections[p] = 0 /\ orphans[p] = 0 /\ work[p] <= 1
        /\ work[p] > orphans[p] \/ connections[p] > 0 => stage[p] \in Serving
        /\ orphans[p] > 0 => stage[p] \in Serving \cup {"disconnected"}
    BY DEF IInv, WorkIsServed, WorkIsAttended
  <2>4. /\ c \in 0 .. MaxWork
        /\ p \in Api => work[p] <= c + orphans[p] /\ c + orphans[p] <= MaxWork
        /\ p \in Worker => c = 0
        /\ c > 0 => work[p] > orphans[p]
    BY <2>2, <2>3, ProcessesAreDistinct DEF Process
  <2>5. /\ connections'[p] = c
        /\ \A q \in Process : q # p => connections'[q] = connections[q]
        /\ connections' \in [Process -> 0 .. MaxWork]
    BY <2>1, <2>2, <2>4
  <2>6. /\ stage'[p] = to
        /\ \A q \in Process : q # p => stage'[q] = stage[q]
        /\ stage' \in [Process -> StartUp \cup Ended
                                   \cup {"listening", "running", "stopping", "disconnected"}]
    BY <2>1 DEF IInv, TypeOK
  <2>7. TypeOK'
    BY <2>1, <2>5, <2>6 DEF IInv, TypeOK
  <2>8. PoolIsThereOnceConnected'
    BY <2>1, <2>6 DEF IInv, PoolIsThereOnceConnected, Connected, Serving
  <2>9. WorkIsServed'
    <3> HIDE DEF c
    <3>1. /\ work[p] > orphans[p] \/ c > 0 => to \in Serving
          /\ orphans[p] > 0 => to \in Serving \cup {"disconnected"}
      BY <2>1, <2>3, <2>4 DEF Serving
    <3> HIDE DEF to
    <3> QED
      BY <2>1, <2>5, <2>6, <3>1 DEF IInv, WorkIsServed
  <2>10. WorkIsAttended'
    <3> HIDE DEF c
    <3> QED
      BY <2>1, <2>3, <2>4, <2>5 DEF IInv, WorkIsAttended
  <2>11. RechecksAreForAReason' /\ LosingTheRaceIsFine'
    BY <2>1, <2>6 DEF IInv, RechecksAreForAReason, LosingTheRaceIsFine
  <2> QED
    BY <2>7, <2>8, <2>9, <2>10, <2>11 DEF IInv
<1>2. CASE ~(HasHandlers(p) /\ signal \notin caught[p])
  <2>1. StepsOut(p, "killed") /\ "killed" \in Ended \ Failed
    BY <1>2 DEF Receive, Goes, StepsOut, Ended, Failed
  <2> QED
    BY <2>1, StepsOutKeepIInv
<1> QED
  BY <1>1, <1>2

(* The pool is closed when at most orphans are left.                       *)
LEMMA ShutdownKeepsIInv ==
  ASSUME IInv, NEW p \in Process, Disconnect(p) \/ Exit(p)
  PROVE  IInv'
<1>1. /\ connections[p] \in Nat /\ work[p] \in Nat /\ orphans[p] \in Nat
      /\ orphans[p] <= work[p]
      /\ p \in Api => work[p] <= connections[p] + orphans[p]
      /\ p \in Worker => connections[p] = 0 /\ orphans[p] = 0
      /\ work[p] > orphans[p] \/ connections[p] > 0 => stage[p] \in Serving
      /\ orphans[p] > 0 => stage[p] \in Serving \cup {"disconnected"}
  BY CountersAreNumbers DEF IInv, WorkIsAttended, WorkIsServed
<1>2. ASSUME NEW to \in {"disconnected", "exited"},
             stage' = [stage EXCEPT ![p] = to],
             UNCHANGED <<autoCreate, bucket, faulted, caught, serving>>,
             pool' \in {pool, [pool EXCEPT ![p] = "closed"]},
             work[p] = orphans[p], connections[p] = 0,
             to = "exited" => orphans[p] = 0
      PROVE  IInv'
  <2>1. /\ stage'[p] = to /\ to \in Ended \cup {"disconnected"}
        /\ to \notin Connected \cup {"recheck", "no bucket"}
        /\ stage' \in [Process -> StartUp \cup Ended
                                   \cup {"listening", "running", "stopping", "disconnected"}]
    BY <1>2 DEF IInv, TypeOK, Ended, Failed, Connected, Serving
  <2>2. /\ \A q \in Process : q # p => stage'[q] = stage[q] /\ pool'[q] = pool[q]
        /\ pool' \in [Process -> {"none", "open", "closed"}]
    BY <1>2 DEF IInv, TypeOK
  <2>3. UNCHANGED <<autoCreate, bucket, faulted, caught, connections, work, orphans>>
    BY <1>2 DEF serving
  <2>4. TypeOK'
    BY <2>1, <2>2, <2>3 DEF IInv, TypeOK
  <2>5. PoolIsThereOnceConnected'
    BY <2>1, <2>2 DEF IInv, PoolIsThereOnceConnected
  <2>6. WorkIsServed'
    <3> SUFFICES ASSUME NEW q \in Process
                 PROVE  /\ work[q] > orphans[q] \/ connections[q] > 0 => stage'[q] \in Serving
                        /\ orphans[q] > 0 => stage'[q] \in Serving \cup {"disconnected"}
      BY <2>3 DEF WorkIsServed
    <3>1. CASE q = p
      <4>1. ~(work[p] > orphans[p] \/ connections[p] > 0)
        BY <1>1, <1>2
      <4>2. orphans[p] > 0 => to = "disconnected"
        BY <1>1, <1>2
      <4> QED
        BY <2>1, <3>1, <4>1, <4>2, Zenon
    <3>2. CASE q # p
      <4>1. /\ work[q] > orphans[q] \/ connections[q] > 0 => stage[q] \in Serving
            /\ orphans[q] > 0 => stage[q] \in Serving \cup {"disconnected"}
        BY DEF IInv, WorkIsServed
      <4> QED
        BY <2>2, <3>2, <4>1
    <3> QED
      BY <3>1, <3>2
  <2>7. WorkIsAttended'
    BY <2>3 DEF IInv, WorkIsAttended
  <2>8. RechecksAreForAReason' /\ LosingTheRaceIsFine'
    BY <2>1, <2>2, <2>3 DEF IInv, RechecksAreForAReason, LosingTheRaceIsFine, Connected, Serving
  <2> QED
    BY <2>4, <2>5, <2>6, <2>7, <2>8 DEF IInv
<1>3. CASE Disconnect(p)
  <2>1. work[p] = orphans[p] /\ connections[p] = 0
    BY <1>1, <1>3 DEF Disconnect, Process
  <2>2. CASE /\ pool' = [pool EXCEPT ![p] = "closed"]
             /\ Goes(p, "disconnected")
             /\ UNCHANGED serving
    BY <1>2, <1>3, <2>1, <2>2 DEF Disconnect, ReleasePool, Goes
  <2>3. CASE Goes(p, "exited with failure") /\ BreaksOff(p) /\ UNCHANGED pool
    <3>1. /\ StepsOut(p, "exited with failure")
          /\ "exited with failure" \in Ended \ Failed
      BY <1>3, <2>3 DEF Disconnect, ReleasePool, Goes, StepsOut, Ended, Failed
    <3> QED
      BY <3>1, StepsOutKeepIInv
  <2> QED
    BY <1>3, <2>2, <2>3 DEF Disconnect, ReleasePool
<1>4. CASE Exit(p)
  <2>1. work[p] = orphans[p] /\ connections[p] = 0 /\ orphans[p] = 0
    BY <1>1, <1>4 DEF Exit, Serving
  <2> QED
    BY <1>2, <1>4, <2>1 DEF Exit, Goes
<1> QED
  BY <1>3, <1>4

(* The invariant behind both theorems.                                     *)
THEOREM LifecycleInvariance == Spec => []IInv
<1>1. Init => IInv
  BY InitEstablishesIInv
<1>2. IInv /\ [Next]_vars => IInv'
  <2> SUFFICES ASSUME IInv, [Next]_vars PROVE IInv'
    OBVIOUS
  <2>1. CASE UNCHANGED vars
    BY <2>1 DEF vars, serving, IInv, TypeOK, PoolIsThereOnceConnected, WorkIsServed,
                WorkIsAttended, RechecksAreForAReason, LosingTheRaceIsFine
  <2>2. CASE Next
    BY <2>2, StartUpKeepsIInv, ServingKeepsIInv, SignalsKeepIInv, ShutdownKeepsIInv
       DEF Next, Step, Serve
  <2> QED
    BY <2>1, <2>2
<1> QED
  BY <1>1, <1>2, PTL DEF Spec

(* s3-storage.service.ts: "losing that race is fine", however many         *)
(* processes take part in it.                                              *)
THEOREM RacesAreLostSafely == Spec => []LosingTheRaceIsFine
<1>1. IInv => LosingTheRaceIsFine
  BY DEF IInv
<1> QED
  BY <1>1, LifecycleInvariance, PTL

(* server.ts and worker.ts: no process releases its pool, or ends in a way  *)
(* that leaves it released, under a batch or under a request whose client   *)
(* is there, whichever connections come and go and are deserted meanwhile.  *)
THEOREM PoolsOutliveAttendedWork == Spec => []PoolOutlivesAttendedWork
<1>1. IInv => PoolOutlivesAttendedWork
  BY DEF IInv, WorkIsServed, PoolIsThereOnceConnected, Connected, PoolOutlivesAttendedWork
<1> QED
  BY <1>1, LifecycleInvariance, PTL

-----------------------------------------------------------------------------
(* The end of a process.                                                   *)

(* How far the top-level code of a process has to go. *)
StagesAfter(s) == CASE s = "config" -> 10
                    [] s = "model" -> 9
                    [] s = "head" -> 8
                    [] s = "create" -> 7
                    [] s = "recheck" -> 6
                    [] s \in {"detector", "listen"} -> 5
                    [] s = "listening" -> 4
                    [] s = "running" -> 3
                    [] s = "stopping" -> 2
                    [] s = "disconnected" -> 1
                    [] OTHER -> 0

(* Neither start-up nor shutdown goes round in a circle: ensureBucket does *)
(* not try again without end, and a process that stops does not serve      *)
(* again, whatever the other processes and the signals do.                 *)
StagesGoForward ==
  [][\A p \in Process :
       stage'[p] = stage[p] \/ StagesAfter(stage'[p]) < StagesAfter(stage[p])]_vars

(* What a step does to the stage of its process.                           *)
StageMove(p) ==
  \/ stage'[p] = stage[p]
  \/ stage[p] = "config" /\ stage'[p] \in {"no config", "model", "head", "detector", "listen"}
  \/ stage[p] = "model" /\ stage'[p] \in {"no model", "head", "detector", "listen"}
  \/ stage[p] = "head" /\ stage'[p] \in {"no bucket", "create", "detector", "listen"}
  \/ stage[p] = "create" /\ stage'[p] \in {"recheck", "detector", "listen"}
  \/ stage[p] = "recheck" /\ stage'[p] \in {"no bucket", "detector", "listen"}
  \/ stage[p] = "detector" /\ stage'[p] \in {"running", "no detector"}
  \/ stage[p] = "listen" /\ stage'[p] = "listening"
  \/ stage[p] = "listening" /\ stage'[p] \in {"running", "no port"}
  \/ stage[p] \in {"listening", "running"} /\ stage'[p] = "stopping"
  \/ stage[p] = "stopping" /\ stage'[p] \in {"disconnected", "exited with failure"}
  \/ stage[p] = "disconnected" /\ stage'[p] = "exited"
  \/ stage[p] \notin Ended /\ stage'[p] = "killed"

(* There is one for every step; the other processes stay where they are.   *)
LEMMA StagesMove ==
  ASSUME TypeOK, [Next]_vars, NEW q \in Process
  PROVE  StageMove(q)
<1> USE DEF TypeOK, Goes
<1>1. ASSUME NEW p \in Process, StartsUp(p)
      PROVE  StageMove(q)
  <2>1. q = p \/ stage'[q] = stage[q]
    BY <1>1 DEF StartsUp, LoadConfig, FindModel, HeadBucket, CreateBucket, RecheckBucket,
           LoadDetector, CallListen, Listening, Connect
  <2>2. StageMove(p)
    <3>1. CASE LoadConfig(p) \/ FindModel(p)
      BY <3>1 DEF LoadConfig, FindModel, Connect, Ready, StageMove
    <3>2. CASE HeadBucket(p) \/ CreateBucket(p) \/ RecheckBucket(p)
      BY <3>2 DEF HeadBucket, CreateBucket, RecheckBucket, Ready, StageMove
    <3>3. CASE LoadDetector(p) \/ CallListen(p) \/ Listening(p)
      BY <3>3 DEF LoadDetector, CallListen, Listening, StageMove
    <3> QED
      BY <1>1, <3>1, <3>2, <3>3 DEF StartsUp
  <2>3. stage'[q] = stage[q] => StageMove(q)
    BY Zenon DEF StageMove
  <2>4. q = p => StageMove(q)
    BY <2>2, Zenon
  <2> QED
    BY <2>1, <2>3, <2>4, Zenon
<1>2. ASSUME NEW p \in Process, NEW signal \in Signal, Receive(p, signal)
      PROVE  StageMove(q)
  BY <1>2 DEF Receive, HasHandlers, StageMove
<1>3. ASSUME NEW p \in Process, Serve(p) \/ EndOrphan(p) \/ Disconnect(p) \/ Exit(p)
      PROVE  StageMove(q)
  <2>1. CASE Serve(p) \/ EndOrphan(p)
    BY <2>1 DEF Serve, OpenConnection, BeginWork, EndWork, CloseConnection, Desert,
                EndOrphan, StageMove
  <2>2. CASE Disconnect(p) \/ Exit(p)
    BY <2>2 DEF Disconnect, ReleasePool, Exit, StageMove
  <2> QED
    BY <1>3, <2>1, <2>2
<1>4. CASE UNCHANGED vars
  BY <1>4 DEF vars, StageMove
<1> QED
  BY <1>1, <1>2, <1>3, <1>4 DEF Next, Step, Serve

(* So every process is started, serves and is stopped at most once.        *)
THEOREM ProcessesGoForward == Spec => StagesGoForward
<1>1. ASSUME TypeOK, [Next]_vars, NEW p \in Process
      PROVE  stage'[p] = stage[p] \/ StagesAfter(stage'[p]) < StagesAfter(stage[p])
  <2>1. StageMove(p)
    BY <1>1, StagesMove
  <2>2. /\ StagesAfter("config") = 10 /\ StagesAfter("model") = 9
        /\ StagesAfter("head") = 8 /\ StagesAfter("create") = 7
        /\ StagesAfter("recheck") = 6
        /\ StagesAfter("detector") = 5 /\ StagesAfter("listen") = 5
        /\ StagesAfter("listening") = 4 /\ StagesAfter("running") = 3
        /\ StagesAfter("stopping") = 2 /\ StagesAfter("disconnected") = 1
        /\ \A s \in Ended : StagesAfter(s) = 0
    BY DEF StagesAfter, Ended, Failed
  <2>3. stage'[p] \in Ended /\ stage[p] \notin Ended =>
          StagesAfter(stage'[p]) < StagesAfter(stage[p])
    BY <1>1, <2>2 DEF TypeOK, StartUp
  <2>4. CASE stage'[p] = stage[p] \/ stage'[p] \in Ended
    BY <2>1, <2>3, <2>4 DEF StageMove, Ended, Failed
  <2>5. CASE stage'[p] # stage[p] /\ stage'[p] \notin Ended
    <3> DEFINE from == stage[p]
               to == stage'[p]
    <3>1. \/ from = "config" /\ to \in {"model", "head", "detector", "listen"}
          \/ from = "model" /\ to \in {"head", "detector", "listen"}
          \/ from = "head" /\ to \in {"create", "detector", "listen"}
          \/ from = "create" /\ to \in {"recheck", "detector", "listen"}
          \/ from = "recheck" /\ to \in {"detector", "listen"}
          \/ from = "detector" /\ to = "running"
          \/ from = "listen" /\ to = "listening"
          \/ from = "listening" /\ to = "running"
          \/ from \in {"listening", "running"} /\ to = "stopping"
          \/ from = "stopping" /\ to = "disconnected"
      BY <2>1, <2>5 DEF StageMove, Ended, Failed
    <3> HIDE DEF from, to
    <3>2. StagesAfter(to) < StagesAfter(from)
      BY <2>2, <3>1
    <3> QED
      BY <3>2 DEF from, to
  <2> QED
    BY <2>4, <2>5
<1>2. IInv /\ [Next]_vars =>
        [\A p \in Process :
           stage'[p] = stage[p] \/ StagesAfter(stage'[p]) < StagesAfter(stage[p])]_vars
  BY <1>1 DEF IInv
<1> QED
  BY <1>2, LifecycleInvariance, PTL DEF Spec, StagesGoForward

(* process.once: a process that has heard a signal is stopping or over; it *)
(* never takes up serving again, not even when its port is bound only then. *)
SignalsAreHeeded == \A p \in Process : caught[p] # {} => stage[p] \in Ended \cup {"stopping", "disconnected"}

(* The safety half of SignalsEndProcesses.                                 *)
THEOREM SignalsStayHeeded == Spec => []SignalsAreHeeded
<1>1. Init => SignalsAreHeeded
  BY DEF Init, SignalsAreHeeded
<1>2. ASSUME TypeOK, SignalsAreHeeded, [Next]_vars
      PROVE  SignalsAreHeeded'
  <2> SUFFICES ASSUME NEW q \in Process, caught'[q] # {}
               PROVE  stage'[q] \in Ended \cup {"stopping", "disconnected"}
    BY DEF SignalsAreHeeded
  <2>1. CASE caught'[q] = caught[q]
    <3>1. stage[q] \in Ended \cup {"stopping", "disconnected"} /\ StageMove(q)
      BY <1>2, <2>1, StagesMove DEF SignalsAreHeeded
    <3> QED
      BY <3>1 DEF StageMove, Ended, Failed
  <2>2. CASE caught'[q] # caught[q]
    <3>1. PICK p \in Process : \E signal \in Signal : Receive(p, signal)
      BY <1>2, <2>2 DEF Next, Step, StartsUp, Serve, vars, LoadConfig, FindModel,
         HeadBucket, CreateBucket, RecheckBucket, LoadDetector, CallListen, Listening,
         OpenConnection, BeginWork, EndWork, CloseConnection, Desert, EndOrphan,
         Disconnect, ReleasePool, Exit
    <3>2. stage'[q] \in {"stopping", "disconnected"}
      BY <1>2, <2>2, <3>1 DEF Receive, Goes, TypeOK
    <3> QED
      BY <3>2
  <2> QED
    BY <2>1, <2>2
<1>3. IInv => TypeOK
  BY DEF IInv
<1> QED
  BY <1>1, <1>2, <1>3, LifecycleInvariance, PTL DEF Spec
=============================================================================
