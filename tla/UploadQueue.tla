----------------------------- MODULE UploadQueue -----------------------------
(***************************************************************************)
(* One browser tab's upload queue, apps/web/src/hooks/useUploads.ts over   *)
(* the reducer of lib/uploads-reducer.ts, and the anonymous session it     *)
(* waits for (apps/api/src/http/session.ts behind POST /api/images).       *)
(*                                                                         *)
(* React is asynchronous twice: the effect that starts uploads sees the    *)
(* items of the last commit, not those dispatched since; and it is passive *)
(* and runs some time after that commit.  A click may come in between.     *)
(*                                                                         *)
(* A request is <<file, n>>, the nth try of a file.  Aborting it, or       *)
(* losing its connection, ends it for the browser only: the server may     *)
(* still serve it.                                                         *)
(***************************************************************************)
EXTENDS Integers, FiniteSets

CONSTANTS
  File,               (* files, numbered in the order they are added       *)
  Concurrency,        (* UPLOADS.CONCURRENCY                               *)
  MaxTries            (* bound: uploads of each file                       *)

ASSUME FilesAreNumbered == File \subseteq Nat
ASSUME ConcurrencyIsPositive == Concurrency \in Nat \ {0}
ASSUME TriesAreBounded == MaxTries \in [File -> Nat \ {0}]

VARIABLES
  phase,      (* item.phase, as of the last dispatch                       *)
  shown,      (* the phases the last commit rendered                       *)
  session,    (* hasSession, as of the last commit                         *)
  effectDue,  (* the commit's effect has still to run                      *)
  tries,      (* requests made for each file                               *)
  active,     (* controllers: files with a request nobody aborted          *)
  gallery,    (* requests whose image is in the images query cache         *)
  cookie,     (* the user id in the browser's session cookie               *)
  served,     (* what the server has done with each request                *)
  carried,    (* the cookie each request was sent with                     *)
  escaped     (* history: requests begun for files that were gone by then  *)

reactVars == <<phase, shown, session, effectDue>>
vars == <<phase, shown, session, effectDue, tries, active, gallery, cookie,
          served, carried, escaped>>

Request == UNION {{f} \X (1 .. MaxTries[f]) : f \in File}

(* A user is known by the request that created it. *)
NoUser == <<0, 0>>

(* "none": not added yet; "gone": uploaded, or removed by the user. *)
Phase == {"none", "queued", "uploading", "failed", "rejected", "gone"}

Init == /\ phase = [f \in File |-> "none"]
        /\ shown = phase
        /\ session = FALSE
        /\ effectDue = FALSE
        /\ tries = [f \in File |-> 0]
        /\ active = {}
        /\ gallery = {}
        /\ cookie = NoUser
        /\ served = [r \in Request |-> "unsent"]
        /\ carried = [r \in Request |-> NoUser]
        /\ escaped = {}

-----------------------------------------------------------------------------
(* The reducer.  `transition` ignores an action the item's phase rules out. *)

Current(f) == <<f, tries[f]>>

Dispatch(f, from, to) ==
  phase' = IF phase[f] = from THEN [phase EXCEPT ![f] = to] ELSE phase

(* selectUploadsToStart, on the items the effect's closure holds. *)
Uploading == {f \in File : shown[f] = "uploading"}
Waiting == {f \in File : shown[f] = "queued"}

(* Mutant: running uploads do not take up a slot. *)
FreeSlotsIgnoringUploads(limit) == limit

FreeSlots(limit) == limit - Cardinality(Uploading)
UploadsToStart(limit) ==
  {f \in Waiting : Cardinality({g \in Waiting : g < f}) < FreeSlots(limit)}

(* Mutant: parallel uploads at once. *)
LimitRegardlessOfSession == Concurrency

Limit == IF session THEN Concurrency ELSE 1

-----------------------------------------------------------------------------
(* The user. *)

(* addFiles: `added`, each file queued or rejected by validateFile. *)
AddFiles(n) ==
  LET new == {f \in File : phase[f] = "none" /\ f <= n}
  IN  /\ new # {}
      /\ \E bad \in SUBSET new :
           phase' = [f \in File |-> IF f \in bad THEN "rejected"
                                    ELSE IF f \in new THEN "queued" ELSE phase[f]]
      /\ UNCHANGED <<shown, session, effectDue, tries, active, gallery, cookie,
                     served, carried, escaped>>

(* The bound on tries is the model's, not the code's. *)
Retry(f) == /\ shown[f] = "failed"
            /\ tries[f] < MaxTries[f]
            /\ Dispatch(f, "failed", "queued")
            /\ UNCHANGED <<shown, session, effectDue, tries, active, gallery,
                           cookie, served, carried, escaped>>

(* Mutant: the request is not aborted. *)
RemoveWithoutAbort(f) == /\ shown[f] \notin {"none", "gone"}
                         /\ phase' = [phase EXCEPT ![f] = "gone"]
                         /\ UNCHANGED <<shown, session, effectDue, tries, active,
                                        gallery, cookie, served, carried, escaped>>

(* remove: the abort rejects the request's promise at once.  A file whose  *)
(* effect is still due has none to abort.                                  *)
Remove(f) == /\ shown[f] \notin {"none", "gone"}
             /\ phase' = [phase EXCEPT ![f] = "gone"]
             /\ active' = active \ {f}
             /\ UNCHANGED <<shown, session, effectDue, tries, gallery, cookie,
                            served, carried, escaped>>

(* A server image is deleted; the gallery may become empty again. *)
DeleteImage(r) == /\ r \in gallery
                  /\ gallery' = gallery \ {r}
                  /\ served' = [served EXCEPT ![r] = "deleted"]
                  /\ UNCHANGED <<reactVars, tries, active, cookie, carried, escaped>>

-----------------------------------------------------------------------------
(* React. *)

(* Effects of one commit run before the next. *)
Commit == /\ ~effectDue
          /\ <<phase, gallery # {}>> # <<shown, session>>
          /\ shown' = phase
          /\ session' = (gallery # {})
          /\ effectDue' = TRUE
          /\ UNCHANGED <<phase, tries, active, gallery, cookie, served, carried, escaped>>

(* `continue` on a file that already has a controller. *)
StartedFiles == UploadsToStart(Limit) \ active

RunEffect ==
  LET started == StartedFiles
      sent == {<<f, tries[f] + 1>> : f \in started}
  IN  /\ effectDue
      /\ effectDue' = FALSE
      /\ active' = active \cup started
      /\ tries' = [f \in File |-> IF f \in started THEN tries[f] + 1 ELSE tries[f]]
      /\ served' = [r \in Request |-> IF r \in sent THEN "sent" ELSE served[r]]
      /\ carried' = [r \in Request |-> IF r \in sent THEN cookie ELSE carried[r]]
      /\ phase' = [f \in File |-> IF f \in started /\ phase[f] = "queued"
                                  THEN "uploading" ELSE phase[f]]
      /\ escaped' = escaped \cup {r \in sent : phase[r[1]] = "gone"}
      /\ UNCHANGED <<shown, session, gallery, cookie>>

-----------------------------------------------------------------------------
(* The server: POST /api/images.  The gate refuses before any user exists; *)
(* ensureUserId then creates one for a request without a cookie, whether   *)
(* or not the photo can be stored after that.                              *)

(* A 429 makes no user and may be retried: for the tab it is what a        *)
(* connection lost on the way to the server is, Lose.                      *)
Outcome == {"refused", "broken", "stored"}

Serve(r, outcome) == /\ served[r] = "sent"
                     /\ served' = [served EXCEPT ![r] = outcome]
                     /\ UNCHANGED <<reactVars, tries, active, gallery, cookie, carried, escaped>>

HasUser(r) == served[r] \in {"broken", "stored", "deleted"}

(* ensureUserId. *)
UserOf(r) == IF carried[r] = NoUser THEN r ELSE carried[r]

-----------------------------------------------------------------------------
(* What the browser hears of its requests. *)

SetCookie(r) == cookie' = IF HasUser(r) /\ carried[r] = NoUser THEN r ELSE cookie

(* GET /api/images, polled or after an insert. *)
Refetch == /\ gallery' = {r \in Request : served[r] = "stored" /\ UserOf(r) = cookie}
           /\ UNCHANGED <<reactVars, tries, active, cookie, served, carried, escaped>>

(* toFailureAction: a refused file is rejected, the rest may be retried. *)
Settle(f, outcome) ==
  Dispatch(f, "uploading", IF outcome = "stored" THEN "gone"
                           ELSE IF outcome = "refused" THEN "rejected" ELSE "failed")

(* insertImage runs even if the item is gone by then. *)
Hear(f) == /\ f \in active
           /\ served[Current(f)] \in Outcome
           /\ SetCookie(Current(f))
           /\ Settle(f, served[Current(f)])
           /\ gallery' = IF served[Current(f)] = "stored"
                         THEN gallery \cup {Current(f)} ELSE gallery
           /\ active' = active \ {f}
           /\ UNCHANGED <<shown, session, effectDue, tries, served, carried, escaped>>

(* Mutant: the controller is kept, so a retry is taken for started. *)
LoseKeepingController(f) ==
  /\ f \in active
  /\ Settle(f, "lost")
  /\ UNCHANGED <<shown, session, effectDue, tries, active, gallery, cookie,
                 served, carried, escaped>>

(* xhr.onerror; the request, or only its response, was lost. *)
Lose(f) == /\ f \in active
           /\ Settle(f, "lost")
           /\ active' = active \ {f}
           /\ UNCHANGED <<shown, session, effectDue, tries, gallery, cookie,
                          served, carried, escaped>>

-----------------------------------------------------------------------------
TabStep == Commit \/ RunEffect

UserStep == \/ \E f \in File : AddFiles(f) \/ Retry(f) \/ Remove(f)
            \/ \E r \in Request : DeleteImage(r)

Next == \/ TabStep
        \/ UserStep
        \/ \E r \in Request, o \in Outcome : Serve(r, o)
        \/ \E f \in File : Hear(f) \/ Lose(f)
        \/ Refetch

Spec == Init /\ [][Next]_vars

(* React commits and runs effects, and while there are requests one of     *)
(* them ends somehow.                                                      *)
Fairness == /\ WF_vars(TabStep)
            /\ WF_vars(\E f \in File : Hear(f) \/ Lose(f))

FairSpec == Spec /\ Fairness

-----------------------------------------------------------------------------
(* Properties.  The first is the type invariant. *)

TypeOK == /\ phase \in [File -> Phase]
          /\ shown \in [File -> Phase]
          /\ session \in BOOLEAN
          /\ effectDue \in BOOLEAN
          /\ \A f \in File : tries[f] \in 0 .. MaxTries[f]
          /\ active \subseteq File
          /\ gallery \subseteq Request
          /\ cookie \in Request \cup {NoUser}
          /\ served \in [Request -> {"unsent", "sent", "deleted"} \cup Outcome]
          /\ carried \in [Request -> Request \cup {NoUser}]
          /\ escaped \subseteq Request

Allowed == IF cookie = NoUser THEN 1 ELSE Concurrency

(* useUploads.ts: "uploads at most `UPLOADS.CONCURRENCY` at a time (one at *)
(* a time until a session exists)".  Not so if a queued file is removed    *)
(* before the effect that is to start it.                                  *)
ConcurrencyIsCapped == Cardinality(active) <= Allowed

(* But those begun for a file the user still has are within the limit,     *)
(* though the effect decides by the phases and the session of an earlier   *)
(* render.                                                                 *)
ListedUploadsAreCapped == Cardinality({f \in active : Current(f) \notin escaped}) <= Allowed

(* useUploads.ts on `remove`: "Removes a local item, cancelling its upload *)
(* if it is in flight".  What was in flight when its file was removed is   *)
(* not any more; and no file is shown as uploading without a request.      *)
UploadsAreShownOrEscaped ==
  \A f \in File : /\ phase[f] = "uploading" => f \in active
                  /\ f \in active => phase[f] = "uploading" \/ Current(f) \in escaped

(* The photos in the gallery are of the user in the cookie, and will be    *)
(* there in the next list, however first uploads were lost, refused,       *)
(* aborted or retried: unless one of the two users is there because of an  *)
(* upload that should not have begun.                                      *)
OnlyEscapesMixSessions ==
  \A r \in gallery : \/ UserOf(r) = cookie
                    \/ UserOf(r) \in escaped
                    \/ cookie \in escaped

(* useUploads.test.tsx: "uploads one file at a time until the browser has  *)
(* a session, so only one anonymous user is created".                      *)
OneAnonymousUser ==
  \A r1, r2 \in Request : HasUser(r1) /\ HasUser(r2) => UserOf(r1) = UserOf(r2)

(* Again and again no file is queued: each is uploaded, or removed, and no *)
(* slot is lost to a request that failed, was aborted, or was started with *)
(* stale items.  (A user does not add or retry files for ever.)            *)
QueuedFilesAreSent == []<>(\A f \in File : phase[f] # "queued")
=============================================================================
