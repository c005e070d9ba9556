--------------------------- MODULE ImagesApiProofs ---------------------------
(***************************************************************************)
(* For any browsers, any number of requests under way at once, any upload  *)
(* limit and any number of faults and database resets: sessions are kept   *)
(* apart, refused uploads leave nothing, accepted photos stay reachable,   *)
(* the limiter's windows are kept, and no request fails without a cause.   *)
(***************************************************************************)
EXTENDS ImagesApi, FiniteSetTheorems, TLAPS

USE RequestsAreNumbered DEF NoUser

-----------------------------------------------------------------------------
(* The invariant. *)

(* What was not answered has shown nothing; a user is known of those only  *)
(* that passed the session step; a phase is one of the request's own route. *)
AnswersComeLast ==
  \A r \in Request :
    /\ req[r].at = "unsent" => /\ ~req[r].waiting
                               /\ ~req[r].stray
                               /\ req[r].carried = NoUser
    /\ req[r].at # "answered" => /\ req[r].status = 0
                                 /\ req[r].shown = {}
                                 /\ ~req[r].heard
    /\ req[r].user # NoUser =>
         \/ req[r].at = "create"
         \/ req[r].at = "answered" /\ req[r].status \in {202, InternalServerError}
    /\ req[r].at = "create" \/ req[r].status = 202 => req[r].user # NoUser
    /\ req[r].user # NoUser => req[r].user = UserOf(r)
    /\ req[r].at \in {"limit", "parse"} => req[r].shape.op = "POST"
    /\ req[r].at = "insert" => req[r].carried # NoUser
    /\ req[r].at = "handle" => req[r].shape.op # "POST"
    /\ req[r].at = "remove" => req[r].shape.op = "DELETE"

(* A user id stays with the browser whose request made the user.           *)
SessionsAreOfOneBrowser ==
  /\ \A b \in Browser : cookie[b] # NoUser => By[cookie[b]] = b
  /\ \A r \in Request :
       /\ req[r].carried # NoUser => By[req[r].carried] = By[r]
       /\ owner[r] # NoUser => owner[r] = req[r].user
       /\ req[r].at = "remove" => By[req[r].shape.photo] = By[r]

(* Whoever is known as a user is a request that got to the session step.   *)
IsUser(u) == \/ u \in users
             \/ \E b \in Browser : cookie[b] = u
             \/ \E r \in Request : req[r].carried = u \/ req[r].user = u

UsersPassedTheGate ==
  \A u \in Request :
    IsUser(u) => \/ req[u].at = "create"
                 \/ req[u].at = "answered" /\ req[u].status \in {202, InternalServerError}

(* The users a browser may come to have in its cookie, and those its       *)
(* requests carry or its photos were accepted for.                         *)
IsKnown(u, b) ==
  \/ cookie[b] = u
  \/ \E r \in Request : /\ By[r] = b
                        /\ \/ req[r].carried = u
                           \/ r = u /\ req[r].waiting /\ req[r].carried = NoUser
                           \/ req[r].user = u /\ req[r].heard /\ req[r].status = 202

(* They are one, but for those of strays.                                  *)
OneUserIsKnown ==
  \A b \in Browser, u, v \in Request :
    IsKnown(u, b) /\ IsKnown(v, b) /\ ~req[u].stray /\ ~req[v].stray => u = v

(* Who carries a cookie or heard of its photo has one, and nobody has one  *)
(* by an answer that is still to come.                                     *)
CookiesComeFirst ==
  \A r \in Request :
    /\ req[r].carried # NoUser => cookie[By[r]] # NoUser
    /\ req[r].heard /\ req[r].status = 202 => cookie[By[r]] # NoUser
    /\ req[r].waiting => cookie[By[r]] # r

(* A user that was ensured is there for the insert, but for a reset.       *)
EnsuredUsersAreThere ==
  \A r \in Request :
    req[r].at = "create" /\ ~req[r].spoiled => req[r].user \in users

(* A user that was missing and is there again has been re-created.         *)
LosersWereOvertaken ==
  \A r \in Request :
    req[r].at = "insert" /\ Caller(r) \in users => req[r].spoiled \/ LostTheRace(r)

IInv == /\ TypeOK
        /\ AnswersComeLast
        /\ SessionsAreOfOneBrowser
        /\ UsersPassedTheGate
        /\ OneUserIsKnown
        /\ CookiesComeFirst
        /\ EnsuredUsersAreThere
        /\ LosersWereOvertaken
        /\ PhotosStayPrivate
        /\ OnlyFaultsAndRacesFailRequests
        /\ IsFiniteSet(window)
        /\ AdmissionsAreLimited

-----------------------------------------------------------------------------
(* Types. *)

(* The record of a request that was sent.                                  *)
IsSent(r, shape, x) == /\ req' = [req EXCEPT ![r] = x]
                       /\ x.at = IF shape.op = "POST" THEN "limit" ELSE "handle"
                       /\ x.shape = shape
                       /\ x.carried = cookie[By[r]]
                       /\ x.user = NoUser
                       /\ x.status = 0
                       /\ x.shown = {}
                       /\ x.waiting \in BOOLEAN
                       /\ x.waiting <=> shape.op = "POST"
                       /\ ~x.heard
                       /\ x.spoiled = FALSE
                       /\ x.stray <=> IsStray(r, shape)
                       /\ x \in RequestState

(* Such a record there is.                                                  *)
LEMMA SentRequest ==
  ASSUME TypeOK, NEW r \in Request, NEW shape \in Shape, Send(r, shape)
  PROVE  \E x : IsSent(r, shape, x)
<1> DEFINE phase == IF shape.op = "POST" THEN "limit" ELSE "handle"
           sent(w, s) == [Unsent EXCEPT !.at = phase, !.shape = shape,
                                        !.carried = cookie[By[r]],
                                        !.waiting = w, !.stray = s]
<1>1. (shape.op = "POST") \in BOOLEAN /\ IsStray(r, shape) \in BOOLEAN
  BY DEF IsStray
<1>2. PICK w \in BOOLEAN, s \in BOOLEAN :
        /\ w <=> shape.op = "POST"
        /\ s <=> IsStray(r, shape)
        /\ req' = [req EXCEPT ![r] = sent(w, s)]
  BY <1>1, Zenon DEF Send
<1>3. Unsent \in RequestState
  BY DEF Unsent, RequestState, Phase, Shape, Other, Status
<1>4. cookie[By[r]] \in Request \cup {NoUser} /\ phase \in Phase
  BY DEF TypeOK, Phase
<1>5. sent(w, s) \in RequestState
  <2> HIDE DEF phase
  <2> QED
    BY <1>3, <1>4 DEF RequestState
<1>6. /\ sent(w, s).at = phase
      /\ sent(w, s).shape = shape
      /\ sent(w, s).carried = cookie[By[r]]
      /\ sent(w, s).user = NoUser
      /\ sent(w, s).status = 0
      /\ sent(w, s).shown = {}
      /\ sent(w, s).waiting = w
      /\ sent(w, s).heard = FALSE
      /\ sent(w, s).spoiled = FALSE
      /\ sent(w, s).stray = s
  BY DEF Unsent
<1> DEFINE x == sent(w, s)
<1>7. IsSent(r, shape, x)
  <2> HIDE DEF sent
  <2>1. /\ req' = [req EXCEPT ![r] = x] /\ x \in RequestState
        /\ x.at = phase /\ x.waiting = w /\ x.stray = s
        /\ w <=> shape.op = "POST"
        /\ s <=> IsStray(r, shape)
    BY <1>2, <1>5, <1>6
  <2> QED
    BY <1>6, <2>1 DEF IsSent
<1> HIDE DEF x
<1> QED
  BY <1>7

(* Sending keeps the types.                                                *)
LEMMA SendType ==
  ASSUME TypeOK, NEW r \in Request, NEW shape \in Shape, Send(r, shape)
  PROVE  TypeOK'
<1>1. UNCHANGED <<users, owner, window, cookie, faults>>
  BY DEF Send, Unchanged
<1>2. PICK x : IsSent(r, shape, x)
  BY SentRequest
<1>3. req' \in [Request -> RequestState]
  <2>1. req' = [req EXCEPT ![r] = x] /\ x \in RequestState
    BY <1>2 DEF IsSent
  <2> QED
    BY <2>1 DEF TypeOK
<1> QED
  BY <1>1, <1>3 DEF TypeOK

-----------------------------------------------------------------------------
(* What the steps do to a request that was sent.                           *)

Becomes(r, x) == /\ x \in RequestState
                 /\ req' = [req EXCEPT ![r] = x]
                 /\ x.shape = req[r].shape
                 /\ x.carried = req[r].carried
                 /\ x.stray = req[r].stray

IsServed(r, x) == /\ Becomes(r, x)
                  /\ x.waiting = req[r].waiting
                  /\ x.heard = req[r].heard

SameBut(r, x) == /\ x.status = req[r].status
                 /\ x.shown = req[r].shown
                 /\ x.spoiled = req[r].spoiled

(* The next phase.                                                         *)
LEMMA GoingOn ==
  ASSUME TypeOK, NEW r \in Request, NEW phase \in Phase, Goes(r, phase)
  PROVE  \E x : /\ IsServed(r, x)
                /\ SameBut(r, x)
                /\ x.at = phase
                /\ x.user = req[r].user
<1> DEFINE x == [req[r] EXCEPT !.at = phase]
<1>1. req[r] \in RequestState
  BY DEF TypeOK
<1>2. x \in RequestState
  BY <1>1 DEF RequestState
<1>3. req' = [req EXCEPT ![r] = x]
  BY DEF Goes
<1>4. /\ x.at = phase /\ x.shape = req[r].shape
      /\ x.carried = req[r].carried /\ x.user = req[r].user
      /\ x.status = req[r].status /\ x.shown = req[r].shown
      /\ x.waiting = req[r].waiting /\ x.heard = req[r].heard
      /\ x.spoiled = req[r].spoiled /\ x.stray = req[r].stray
  BY <1>1 DEF RequestState
<1> QED
  BY <1>2, <1>3, <1>4 DEF IsServed, Becomes, SameBut

(* An answer.                                                              *)
LEMMA Answering ==
  ASSUME TypeOK, NEW r \in Request, NEW status \in Status,
         NEW shown \in SUBSET Request, Answers(r, status, shown)
  PROVE  \E x : /\ IsServed(r, x)
                /\ x.at = "answered"
                /\ x.status = status
                /\ x.shown = shown
                /\ x.user = req[r].user
                /\ x.spoiled = req[r].spoiled
<1> DEFINE x == [req[r] EXCEPT !.at = "answered", !.status = status, !.shown = shown]
<1>1. req[r] \in RequestState
  BY DEF TypeOK
<1>2. x \in RequestState
  <2>1. "answered" \in Phase
    BY DEF Phase
  <2> QED
    BY <1>1, <2>1 DEF RequestState
<1>3. req' = [req EXCEPT ![r] = x]
  BY DEF Answers
<1>4. /\ x.at = "answered" /\ x.shape = req[r].shape
      /\ x.carried = req[r].carried /\ x.user = req[r].user
      /\ x.status = status /\ x.shown = shown
      /\ x.waiting = req[r].waiting /\ x.heard = req[r].heard
      /\ x.spoiled = req[r].spoiled /\ x.stray = req[r].stray
  BY <1>1 DEF RequestState
<1> QED
  BY <1>2, <1>3, <1>4 DEF IsServed, Becomes

(* An answer that a failure caused.                                        *)
LEMMA Failing ==
  ASSUME TypeOK, NEW r \in Request, NEW status \in ErrorStatus, Fails(r, status)
  PROVE  \E x : /\ IsServed(r, x)
                /\ x.at = "answered"
                /\ x.status = status
                /\ x.shown = req[r].shown
                /\ x.user = req[r].user
                /\ x.spoiled
<1> DEFINE x == [req[r] EXCEPT !.at = "answered", !.status = status, !.spoiled = TRUE]
<1>1. req[r] \in RequestState
  BY DEF TypeOK
<1>2. x \in RequestState
  <2>1. "answered" \in Phase
    BY DEF Phase
  <2>2. status \in Status
    BY DEF Status
  <2> QED
    BY <1>1, <2>1, <2>2 DEF RequestState
<1>3. req' = [req EXCEPT ![r] = x]
  BY DEF Fails
<1>4. /\ x.at = "answered" /\ x.shape = req[r].shape
      /\ x.carried = req[r].carried /\ x.user = req[r].user
      /\ x.status = status /\ x.shown = req[r].shown
      /\ x.waiting = req[r].waiting /\ x.heard = req[r].heard
      /\ x.spoiled = TRUE /\ x.stray = req[r].stray
  BY <1>1 DEF RequestState
<1> QED
  BY <1>2, <1>3, <1>4 DEF IsServed, Becomes

(* A session.                                                              *)
LEMMA Ensuring ==
  ASSUME TypeOK, NEW r \in Request, HasUser(r)
  PROVE  \E x : /\ IsServed(r, x)
                /\ SameBut(r, x)
                /\ x.at = "create"
                /\ x.user = UserOf(r)
<1> DEFINE x == [req[r] EXCEPT !.at = "create", !.user = UserOf(r)]
<1>1. req[r] \in RequestState
  BY DEF TypeOK
<1>2. UserOf(r) \in Request
  BY <1>1 DEF UserOf, Caller, RequestState
<1>3. x \in RequestState
  BY <1>1, <1>2 DEF RequestState, Phase
<1>4. req' = [req EXCEPT ![r] = x]
  BY DEF HasUser
<1>5. /\ x.at = "create" /\ x.shape = req[r].shape
      /\ x.carried = req[r].carried /\ x.user = UserOf(r)
      /\ x.status = req[r].status /\ x.shown = req[r].shown
      /\ x.waiting = req[r].waiting /\ x.heard = req[r].heard
      /\ x.spoiled = req[r].spoiled /\ x.stray = req[r].stray
  BY <1>1 DEF RequestState
<1> QED
  BY <1>3, <1>4, <1>5 DEF IsServed, Becomes, SameBut

(* The answer is heard.                                                    *)
LEMMA Hearing ==
  ASSUME TypeOK, NEW r \in Request, Hear(r)
  PROVE  \E x : /\ Becomes(r, x)
                /\ SameBut(r, x)
                /\ x.at = req[r].at
                /\ x.user = req[r].user
                /\ ~x.waiting
                /\ x.heard
<1> DEFINE x == [req[r] EXCEPT !.waiting = FALSE, !.heard = TRUE]
<1>1. req[r] \in RequestState
  BY DEF TypeOK
<1>2. x \in RequestState
  BY <1>1 DEF RequestState
<1>3. req' = [req EXCEPT ![r] = x]
  BY DEF Hear
<1>4. /\ x.at = req[r].at /\ x.shape = req[r].shape
      /\ x.carried = req[r].carried /\ x.user = req[r].user
      /\ x.status = req[r].status /\ x.shown = req[r].shown
      /\ x.waiting = FALSE /\ x.heard = TRUE
      /\ x.spoiled = req[r].spoiled /\ x.stray = req[r].stray
  BY <1>1 DEF RequestState
<1> QED
  BY <1>2, <1>3, <1>4 DEF Becomes, SameBut

(* The upload is given up.                                                 *)
LEMMA Abandoning ==
  ASSUME TypeOK, NEW r \in Request, Abandon(r)
  PROVE  \E x : /\ Becomes(r, x)
                /\ SameBut(r, x)
                /\ x.at = req[r].at
                /\ x.user = req[r].user
                /\ ~x.waiting
                /\ x.heard = req[r].heard
<1> DEFINE x == [req[r] EXCEPT !.waiting = FALSE]
<1>1. req[r] \in RequestState
  BY DEF TypeOK
<1>2. x \in RequestState
  BY <1>1 DEF RequestState
<1>3. req' = [req EXCEPT ![r] = x]
  BY DEF Abandon
<1>4. /\ x.at = req[r].at /\ x.shape = req[r].shape
      /\ x.carried = req[r].carried /\ x.user = req[r].user
      /\ x.status = req[r].status /\ x.shown = req[r].shown
      /\ x.waiting = FALSE /\ x.heard = req[r].heard
      /\ x.spoiled = req[r].spoiled /\ x.stray = req[r].stray
  BY <1>1 DEF RequestState
<1> QED
  BY <1>2, <1>3, <1>4 DEF Becomes, SameBut

-----------------------------------------------------------------------------
(* The steps of the server, by what they do.                               *)

Limited(r, x) ==
  /\ req[r].at = "limit"
  /\ window' = window \cup {r}
  /\ IF IsOverLimit(By[r], window')
     THEN x.at = "answered" /\ x.status = TooManyRequests /\ x.shown = {}
     ELSE x.at = "parse" /\ x.status = req[r].status /\ x.shown = req[r].shown
  /\ x.user = req[r].user
  /\ x.spoiled = req[r].spoiled
  /\ UNCHANGED <<users, owner, cookie>>

Received(r, x) ==
  /\ req[r].at = "parse"
  /\ \/ x.at = "session" /\ x.status = req[r].status /\ x.shown = req[r].shown
     \/ x.at = "answered" /\ x.status \in 400 .. 428 /\ x.shown = {}
  /\ x.user = req[r].user
  /\ x.spoiled = req[r].spoiled
  /\ UNCHANGED <<users, owner, window, cookie>>

(* With a user, without one yet, too late, or failed.                      *)
Ensured(r, x) ==
  /\ req[r].at \in {"session", "insert"}
  /\ \/ /\ x.at = "create" /\ x.user = UserOf(r) /\ SameBut(r, x)
        /\ users' = users \cup {UserOf(r)}
     \/ /\ x.at = "insert" /\ x.user = req[r].user /\ SameBut(r, x)
        /\ req[r].at = "session"
        /\ Caller(r) # NoUser /\ Caller(r) \notin users /\ users' = users
     \/ /\ x.at = "answered" /\ x.status = InternalServerError
        /\ x.user = req[r].user /\ x.shown = {} /\ x.spoiled = req[r].spoiled
        /\ req[r].at = "insert" /\ Caller(r) \in users /\ users' = users
     \/ /\ x.at = "answered" /\ x.status = InternalServerError /\ x.spoiled
        /\ x.user = req[r].user /\ x.shown = req[r].shown
        /\ users' \in {users, users \cup {UserOf(r)}}
  /\ UNCHANGED <<owner, window, cookie>>

Created(r, x) ==
  /\ req[r].at = "create"
  /\ \/ /\ x.status = 202 /\ x.shown = {} /\ x.spoiled = req[r].spoiled
        /\ owner' = WithPhoto(r)
     \/ /\ x.status = InternalServerError
        /\ req[r].user \notin users \/ x.spoiled
        /\ x.shown \in {{}, req[r].shown}
        /\ req[r].spoiled => x.spoiled
        /\ owner' \in {owner, WithPhoto(r)}
  /\ x.at = "answered"
  /\ x.user = req[r].user
  /\ UNCHANGED <<users, window, cookie>>

Handled(r, x) ==
  /\ req[r].at = "handle"
  /\ x.at = "answered"
  /\ \/ x.status \in {200, BadRequest, NotFound} /\ x.spoiled = req[r].spoiled
     \/ x.status \in {InternalServerError, ServiceUnavailable} /\ x.spoiled
  /\ \A p \in x.shown : Owns(r, p) \/ p \in req[r].shown
  /\ x.user = req[r].user
  /\ UNCHANGED <<users, owner, window, cookie>>

Found(r, x) ==
  /\ req[r].at = "handle"
  /\ req[r].shape.op = "DELETE"
  /\ Owns(r, req[r].shape.photo)
  /\ x.at = "remove"
  /\ x.user = req[r].user
  /\ SameBut(r, x)
  /\ UNCHANGED <<users, owner, window, cookie>>

Removed(r, x) ==
  /\ req[r].at = "remove"
  /\ x.at = "answered"
  /\ \/ x.status = 204 /\ x.shown = {req[r].shape.photo} /\ x.spoiled = req[r].spoiled
     \/ x.status = InternalServerError /\ x.shown = req[r].shown /\ x.spoiled
  /\ owner' \in {owner, Without(r, req[r].shape.photo)}
  /\ x.user = req[r].user
  /\ UNCHANGED <<users, window, cookie>>

Effect(r, x) == \/ Limited(r, x) \/ Received(r, x) \/ Ensured(r, x) \/ Created(r, x)
                \/ Handled(r, x) \/ Found(r, x) \/ Removed(r, x)

(* The statuses in use.                                                    *)
LEMMA Statuses == /\ ErrorStatus \subseteq Status
                  /\ {200, 202, 204} \subseteq Status
                  /\ {BadRequest, NotFound, TooManyRequests, InternalServerError,
                      ServiceUnavailable} \subseteq ErrorStatus
BY DEF Status, ErrorStatus

(* A request refused is answered, and shows nothing.                       *)
LEMMA Refusing ==
  ASSUME TypeOK, NEW r \in Request, NEW status \in ErrorStatus, Answers(r, status, {})
  PROVE  \E x : /\ IsServed(r, x)
                /\ x.at = "answered"
                /\ x.status = status
                /\ x.shown = {}
                /\ x.user = req[r].user
                /\ x.spoiled = req[r].spoiled
<1>1. status \in Status
  BY Statuses
<1>2. {} \in SUBSET Request
  OBVIOUS
<1> QED
  BY <1>1, <1>2, Answering

(* What an upload and a request for a photo carry.                         *)
LEMMA UploadHasBody ==
  ASSUME NEW s \in Shape, s.op = "POST"
  PROVE  s.body \in Body
BY DEF Shape, Upload, OnPhoto, Other

(* The photo of a request for one.                                        *)
LEMMA OpHasPhoto ==
  ASSUME NEW s \in Shape, s.op \in {"GET", "DELETE"}
  PROVE  s.photo \in Request
BY DEF Shape, Upload, OnPhoto, Other

(* Every step of an upload is one of those.                                *)
LEMMA EffectsOfUploads ==
  ASSUME TypeOK, AnswersComeLast, NEW r \in Request,
         \/ RateLimit(r) \/ ReceiveUpload(r) \/ EnsureUser(r) \/ InsertUser(r)
         \/ EnsureUserErrs(r) \/ CreateImage(r) \/ CreateImageErrs(r)
  PROVE  faults' \in 0 .. MaxFaults /\ \E x : IsServed(r, x) /\ Effect(r, x)
<1> USE DEF Effect
<1>0. faults \in 0 .. MaxFaults
  BY DEF TypeOK
<1>1. CASE RateLimit(r)
  <2>1. CASE IsOverLimit(By[r], window')
    <3>1. Answers(r, TooManyRequests, {}) /\ TooManyRequests \in Status
      BY <1>1, <2>1, Statuses DEF RateLimit
    <3>2. PICK x : /\ IsServed(r, x) /\ x.at = "answered" /\ x.status = TooManyRequests
                   /\ x.shown = {} /\ x.user = req[r].user /\ x.spoiled = req[r].spoiled
      BY <3>1, Answering
    <3>3. Limited(r, x) /\ UNCHANGED faults
      BY <1>1, <2>1, <3>2, Zenon DEF RateLimit, Limited, At
    <3> QED
      BY <1>0, <3>2, <3>3
  <2>2. CASE ~IsOverLimit(By[r], window')
    <3>1. Goes(r, "parse") /\ "parse" \in Phase
      BY <1>1, <2>2 DEF RateLimit, Phase
    <3>2. PICK x : /\ IsServed(r, x) /\ SameBut(r, x) /\ x.at = "parse"
                   /\ x.user = req[r].user
      BY <3>1, GoingOn
    <3> QED
      <4>1. Limited(r, x) /\ UNCHANGED faults
        BY <1>1, <2>2, <3>2, Zenon DEF RateLimit, Limited, At, SameBut
      <4> QED
        BY <1>0, <3>2, <4>1
  <2> QED
    BY <2>1, <2>2
<1>2. CASE ReceiveUpload(r)
  <2>1. CASE Goes(r, "session")
    <3>1. "session" \in Phase
      BY DEF Phase
    <3>2. PICK x : /\ IsServed(r, x) /\ SameBut(r, x) /\ x.at = "session"
                   /\ x.user = req[r].user
      BY <2>1, <3>1, GoingOn
    <3> QED
      BY <1>0, <1>2, <3>2 DEF ReceiveUpload, Received, At, SameBut, Unchanged
  <2>2. CASE ~Goes(r, "session")
    <3>1. PICK status \in ErrorStatus : status \in 400 .. 428 /\ Answers(r, status, {})
      <4>1. req[r].shape.body # "photo" /\ Answers(r, RefusalOf[req[r].shape.body], {})
        BY <1>2, <2>2 DEF ReceiveUpload
      <4>2. req[r].shape.body \in Body
        <5>1. req[r].at = "parse"
          BY <1>2 DEF ReceiveUpload, At
        <5>2. req[r].shape.op = "POST"
          BY <5>1 DEF AnswersComeLast
        <5>3. req[r].shape \in Shape
          BY DEF TypeOK, RequestState
        <5> QED
          BY <5>2, <5>3, UploadHasBody
      <4>3. RefusalOf[req[r].shape.body] \in {PayloadTooLarge, BadRequest, UnsupportedMediaType}
        BY <4>1, <4>2 DEF RefusalOf, Body
      <4> QED
        BY <4>1, <4>3 DEF ErrorStatus, PayloadTooLarge, BadRequest, UnsupportedMediaType
    <3>2. PICK x : /\ IsServed(r, x)
                   /\ x.at = "answered"
                   /\ x.status = status
                   /\ x.shown = {}
                   /\ x.user = req[r].user
                   /\ x.spoiled = req[r].spoiled
      BY <3>1, Refusing
    <3>3. Received(r, x)
      BY <1>2, <3>1, <3>2 DEF ReceiveUpload, Received, At, Unchanged
    <3>4. UNCHANGED faults
      BY <1>2 DEF ReceiveUpload, Unchanged
    <3> QED
      BY <1>0, <3>2, <3>3, <3>4
  <2> QED
    BY <2>1, <2>2
<1>3. CASE EnsureUser(r)
  <2>1. /\ req[r].at = "session" /\ UNCHANGED <<owner, window, cookie, faults>>
        /\ UserOf(r) = IF Caller(r) = NoUser THEN r ELSE Caller(r)
    BY <1>3 DEF EnsureUser, UserOf, At
  <2>2. CASE HasUser(r) /\ users' = users \cup {UserOf(r)}
    <3>1. PICK x : /\ IsServed(r, x) /\ SameBut(r, x) /\ x.at = "create"
                   /\ x.user = UserOf(r)
      BY <2>2, Ensuring
    <3> QED
      BY <1>0, <2>1, <2>2, <3>1 DEF Ensured
  <2>3. CASE Goes(r, "insert") /\ users' = users /\ Caller(r) # NoUser /\ Caller(r) \notin users
    <3>1. "insert" \in Phase
      BY DEF Phase
    <3>2. PICK x : /\ IsServed(r, x) /\ SameBut(r, x) /\ x.at = "insert"
                   /\ x.user = req[r].user
      BY <2>3, <3>1, GoingOn
    <3> QED
      BY <1>0, <2>1, <2>3, <3>2 DEF Ensured
  <2>4. CASE Caller(r) = NoUser
    BY <1>3, <2>2, <2>4 DEF EnsureUser
  <2>5. CASE Caller(r) # NoUser /\ Caller(r) \in users
    <3>1. HasUser(r) /\ users' = users
      BY <1>3, <2>5 DEF EnsureUser, HasUserRow
    <3> QED
      BY <2>1, <2>2, <2>5, <3>1
  <2>6. CASE Caller(r) # NoUser /\ Caller(r) \notin users
    BY <1>3, <2>3, <2>6 DEF EnsureUser, HasUserRow
  <2> QED
    BY <2>4, <2>5, <2>6
<1>4. CASE InsertUser(r)
  <2>1. /\ req[r].at = "insert" /\ UNCHANGED <<owner, window, cookie, faults>>
        /\ users' = users \cup {Caller(r)} /\ UserOf(r) = Caller(r)
    BY <1>4 DEF InsertUser, UserOf, At, Caller, AnswersComeLast
  <2>2. CASE Caller(r) \in users
    <3>1. Answers(r, InternalServerError, {}) /\ users' = users
      BY <1>4, <2>1, <2>2 DEF InsertUser
    <3>2. PICK x : /\ IsServed(r, x) /\ x.at = "answered" /\ x.status = InternalServerError
                   /\ x.shown = {} /\ x.user = req[r].user /\ x.spoiled = req[r].spoiled
      BY <3>1, Statuses, Answering
    <3> QED
      BY <1>0, <2>1, <2>2, <3>1, <3>2 DEF Ensured
  <2>3. CASE Caller(r) \notin users
    <3>1. HasUser(r)
      BY <1>4, <2>3 DEF InsertUser
    <3>2. PICK x : /\ IsServed(r, x) /\ SameBut(r, x) /\ x.at = "create"
                   /\ x.user = UserOf(r)
      BY <3>1, Ensuring
    <3> QED
      BY <1>0, <2>1, <3>2 DEF Ensured
  <2> QED
    BY <2>2, <2>3
<1>5. CASE EnsureUserErrs(r)
  <2>1. Fails(r, InternalServerError)
    BY <1>5 DEF EnsureUserErrs
  <2>2. PICK x : /\ IsServed(r, x) /\ x.at = "answered" /\ x.status = InternalServerError
                 /\ x.shown = req[r].shown /\ x.user = req[r].user /\ x.spoiled
    BY <2>1, Statuses, Failing
  <2>3. faults' \in 0 .. MaxFaults
    BY <1>0, <1>5, FaultsAreBounded DEF EnsureUserErrs, Fault
  <2>4. /\ req[r].at \in {"session", "insert"} /\ UNCHANGED <<owner, window, cookie>>
        /\ users' \in {users, users \cup {UserOf(r)}}
    BY <1>5 DEF EnsureUserErrs, At, UserOf, Caller, AnswersComeLast
  <2> QED
    BY <2>2, <2>3, <2>4 DEF Ensured
<1>6. CASE CreateImage(r)
  <2>1. CASE req[r].user \in users
    <3>1. Answers(r, 202, {}) /\ owner' = WithPhoto(r)
      BY <1>6, <2>1 DEF CreateImage
    <3>2. PICK x : /\ IsServed(r, x) /\ x.at = "answered" /\ x.status = 202
                   /\ x.shown = {} /\ x.user = req[r].user /\ x.spoiled = req[r].spoiled
      BY <3>1, Statuses, Answering
    <3> QED
      BY <1>0, <1>6, <3>1, <3>2 DEF CreateImage, Created, At
  <2>2. CASE req[r].user \notin users
    <3>1. Answers(r, InternalServerError, {}) /\ owner' = owner
      BY <1>6, <2>2 DEF CreateImage
    <3>2. PICK x : /\ IsServed(r, x) /\ x.at = "answered" /\ x.status = InternalServerError
                   /\ x.shown = {} /\ x.user = req[r].user /\ x.spoiled = req[r].spoiled
      BY <3>1, Statuses, Answering
    <3> QED
      BY <1>0, <1>6, <2>2, <3>1, <3>2 DEF CreateImage, Created, At
  <2> QED
    BY <2>1, <2>2
<1>7. CASE CreateImageErrs(r)
  <2>1. Fails(r, InternalServerError)
    BY <1>7 DEF CreateImageErrs
  <2>2. PICK x : /\ IsServed(r, x) /\ x.at = "answered" /\ x.status = InternalServerError
                 /\ x.shown = req[r].shown /\ x.user = req[r].user /\ x.spoiled
    BY <2>1, Statuses, Failing
  <2>3. faults' \in 0 .. MaxFaults
    BY <1>0, <1>7, FaultsAreBounded DEF CreateImageErrs, Fault
  <2> QED
    BY <1>7, <2>2, <2>3 DEF CreateImageErrs, Created, At
<1> QED
  BY <1>1, <1>2, <1>3, <1>4, <1>5, <1>6, <1>7

(* So is every step of the other routes.                                   *)
LEMMA EffectsOfOtherRoutes ==
  ASSUME TypeOK, AnswersComeLast, NEW r \in Request,
         \/ ListImages(r) \/ GetImage(r) \/ FindImage(r) \/ RemoveImage(r)
         \/ RemoveImageErrs(r) \/ LookUpErrs(r) \/ CheckHealth(r) \/ RefuseRequest(r)
  PROVE  faults' \in 0 .. MaxFaults /\ \E x : IsServed(r, x) /\ Effect(r, x)
<1> USE DEF Effect
<1>0. faults \in 0 .. MaxFaults /\ req[r].shape \in Shape /\ req[r].shown \subseteq Request
  BY DEF TypeOK, RequestState
<1>a. ASSUME NEW status \in {200, BadRequest, NotFound}, NEW shown \in SUBSET Request,
             At(r, "handle"), Answers(r, status, shown), Unchanged,
             \A p \in shown : Owns(r, p)
      PROVE  faults' \in 0 .. MaxFaults /\ \E x : IsServed(r, x) /\ Effect(r, x)
  <2>1. status \in Status
    BY Statuses
  <2>2. PICK x : /\ IsServed(r, x) /\ x.at = "answered" /\ x.status = status
                 /\ x.shown = shown /\ x.user = req[r].user /\ x.spoiled = req[r].spoiled
    BY <1>a, <2>1, Answering
  <2>3. Handled(r, x)
    BY <1>a, <2>2 DEF Handled, At, Unchanged
  <2> QED
    BY <1>0, <1>a, <2>2, <2>3 DEF Unchanged
<1>b. ASSUME NEW status \in {InternalServerError, ServiceUnavailable},
             At(r, "handle"), Fault, Fails(r, status), UNCHANGED <<users, owner, window, cookie>>
      PROVE  faults' \in 0 .. MaxFaults /\ \E x : IsServed(r, x) /\ Effect(r, x)
  <2>1. status \in ErrorStatus
    BY Statuses
  <2>2. PICK x : /\ IsServed(r, x) /\ x.at = "answered" /\ x.status = status
                 /\ x.shown = req[r].shown /\ x.user = req[r].user /\ x.spoiled
    BY <1>b, <2>1, Failing
  <2>3. Handled(r, x)
    BY <1>b, <2>2 DEF Handled, At
  <2>4. faults' \in 0 .. MaxFaults
    BY <1>0, <1>b, FaultsAreBounded DEF Fault
  <2> QED
    BY <2>2, <2>3, <2>4
<1>1. CASE ListImages(r)
  <2> DEFINE own == {p \in Request : Owns(r, p)}
  <2>1. At(r, "handle") /\ Answers(r, 200, own) /\ Unchanged
    BY <1>1 DEF ListImages
  <2> QED
    BY <2>1, <1>a
<1>2. CASE GetImage(r)
  <2> DEFINE p == req[r].shape.photo
  <2>1. At(r, "handle") /\ Unchanged /\ p \in Request
    BY <1>0, <1>2, OpHasPhoto DEF GetImage, Is
  <2>2. CASE Owns(r, p)
    BY <1>2, <1>a, <2>1, <2>2 DEF GetImage
  <2>3. CASE ~Owns(r, p)
    BY <1>2, <1>a, <2>1, <2>3 DEF GetImage
  <2> QED
    BY <2>2, <2>3
<1>3. CASE FindImage(r)
  <2> DEFINE p == req[r].shape.photo
  <2>1. At(r, "handle") /\ Unchanged
    BY <1>3 DEF FindImage
  <2>2. CASE Owns(r, p)
    <3>1. Goes(r, "remove") /\ "remove" \in Phase /\ req[r].shape.op = "DELETE"
      BY <1>3, <2>2 DEF FindImage, Phase, Is
    <3>2. PICK x : /\ IsServed(r, x) /\ SameBut(r, x) /\ x.at = "remove"
                   /\ x.user = req[r].user
      BY <3>1, GoingOn
    <3>3. Found(r, x)
      BY <2>1, <2>2, <3>1, <3>2 DEF Found, At, Unchanged
    <3> QED
      BY <1>0, <2>1, <3>2, <3>3 DEF Unchanged
  <2>3. CASE ~Owns(r, p)
    BY <1>3, <1>a, <2>1, <2>3 DEF FindImage
  <2> QED
    BY <2>2, <2>3
<1>4. CASE RemoveImage(r)
  <2> DEFINE p == req[r].shape.photo
  <2>1. req[r].at = "remove" /\ Answers(r, 204, {p}) /\ p \in Request
    <3>1. req[r].at = "remove" /\ Answers(r, 204, {p})
      BY <1>4 DEF RemoveImage, At
    <3>2. req[r].shape.op = "DELETE"
      BY <3>1 DEF AnswersComeLast
    <3> QED
      BY <1>0, <3>1, <3>2, OpHasPhoto
  <2>2. PICK x : /\ IsServed(r, x) /\ x.at = "answered" /\ x.status = 204
                 /\ x.shown = {p} /\ x.user = req[r].user /\ x.spoiled = req[r].spoiled
    BY <2>1, Statuses, Answering
  <2>3. Removed(r, x) /\ UNCHANGED faults
    BY <1>4, <2>1, <2>2 DEF RemoveImage, Removed
  <2> QED
    BY <1>0, <2>2, <2>3
<1>5. CASE RemoveImageErrs(r)
  <2>1. PICK x : /\ IsServed(r, x) /\ x.at = "answered" /\ x.status = InternalServerError
                 /\ x.shown = req[r].shown /\ x.user = req[r].user /\ x.spoiled
    BY <1>5, Statuses, Failing DEF RemoveImageErrs
  <2>2. Removed(r, x)
    BY <1>5, <2>1 DEF RemoveImageErrs, Removed, At
  <2>3. faults' \in 0 .. MaxFaults
    BY <1>0, <1>5, FaultsAreBounded DEF RemoveImageErrs, Fault
  <2> QED
    BY <2>1, <2>2, <2>3
<1>6. CASE LookUpErrs(r)
  BY <1>6, <1>b DEF LookUpErrs
<1>7. CASE CheckHealth(r)
  <2>1. At(r, "handle") /\ UNCHANGED <<users, owner, window, cookie>>
    BY <1>7 DEF CheckHealth
  <2>2. CASE Answers(r, 200, {}) /\ UNCHANGED faults
    BY <1>a, <2>1, <2>2 DEF Unchanged
  <2>3. CASE Fault /\ Fails(r, ServiceUnavailable)
    BY <1>b, <2>1, <2>3
  <2> QED
    BY <1>7, <2>2, <2>3 DEF CheckHealth
<1>8. CASE RefuseRequest(r)
  <2>1. At(r, "handle") /\ Unchanged
    BY <1>8 DEF RefuseRequest
  <2>2. CASE Answers(r, BadRequest, {})
    BY <1>a, <2>1, <2>2
  <2>3. CASE Answers(r, NotFound, {})
    BY <1>a, <2>1, <2>3
  <2> QED
    BY <1>8, <2>2, <2>3 DEF RefuseRequest
<1> QED
  BY <1>1, <1>2, <1>3, <1>4, <1>5, <1>6, <1>7, <1>8

(* Every step of the server has one of the effects.                        *)
LEMMA EffectsOfServer ==
  ASSUME TypeOK, AnswersComeLast, NEW r \in Request, ServerStep(r) \/ ServerFault(r)
  PROVE  faults' \in 0 .. MaxFaults /\ \E x : IsServed(r, x) /\ Effect(r, x)
BY EffectsOfUploads, EffectsOfOtherRoutes DEF ServerStep, ServerFault

(* They keep the types.                                                    *)
LEMMA ServerType ==
  ASSUME TypeOK, NEW r \in Request, NEW x, IsServed(r, x), Effect(r, x),
         faults' \in 0 .. MaxFaults
  PROVE  TypeOK'
<1>1. req' \in [Request -> RequestState]
  BY DEF TypeOK, IsServed, Becomes
<1>2. req[r] \in RequestState
  BY DEF TypeOK
<1>3. UserOf(r) \in Request /\ req[r].user \in Request \cup {NoUser}
  BY <1>2 DEF UserOf, Caller, RequestState
<1>4. users' \subseteq Request /\ window' \subseteq Request
  BY <1>3 DEF TypeOK, Effect, Limited, Received, Ensured, Created, Handled, Found, Removed
<1>5. cookie' = cookie
  BY DEF Effect, Limited, Received, Ensured, Created, Handled, Found, Removed
<1>6. owner' \in {owner, WithPhoto(r), Without(r, req[r].shape.photo)}
  BY DEF Effect, Limited, Received, Ensured, Created, Handled, Found, Removed
<1>7. owner' \in [Request -> Request \cup {NoUser}]
  BY <1>3, <1>6 DEF TypeOK, WithPhoto, Without
<1> QED
  BY <1>1, <1>4, <1>5, <1>7 DEF TypeOK

-----------------------------------------------------------------------------
(* Each step keeps the invariant. *)

(* Users, and with them photos, are of the browser of their requests.      *)
LEMMA UsersAreOfOneBrowser ==
  ASSUME IInv, NEW r \in Request
  PROVE  /\ By[UserOf(r)] = By[r]
         /\ req[r].user # NoUser => By[req[r].user] = By[r]
         /\ owner[r] # NoUser => By[owner[r]] = By[r]
<1>1. By[UserOf(r)] = By[r]
  BY DEF IInv, SessionsAreOfOneBrowser, UserOf, Caller
<1> QED
  BY <1>1 DEF IInv, SessionsAreOfOneBrowser, AnswersComeLast

(* What a request finds or lists is of its own browser.                    *)
LEMMA OwnersAreOfTheBrowser ==
  ASSUME IInv, NEW r \in Request, NEW p \in Request, Owns(r, p)
  PROVE  By[p] = By[r]
<1>1. By[owner[p]] = By[p] /\ By[owner[p]] = By[r]
  BY UsersAreOfOneBrowser DEF IInv, SessionsAreOfOneBrowser, Owns, Caller
<1> QED
  BY <1>1

(* An answer is shown or refused for what the request was.                 *)
LEMMA ServerKeepsAnswers ==
  ASSUME IInv, NEW r \in Request, NEW x, IsServed(r, x), Effect(r, x)
  PROVE  AnswersComeLast' /\ PhotosStayPrivate'
<1> USE DEF IsServed, Becomes, BadRequest, NotFound, TooManyRequests, InternalServerError,
        ServiceUnavailable
<1>1. /\ \A q \in Request : req'[q] = IF q = r THEN x ELSE req[q]
      /\ \A q \in Request : UserOf(q)' = UserOf(q)
  BY DEF IInv, TypeOK, UserOf, Caller
<1>2. UserOf(r) # NoUser
  BY DEF UserOf, Caller
<1>3. CASE Limited(r, x)
  BY <1>1, <1>3 DEF Limited, IInv, AnswersComeLast, PhotosStayPrivate
<1>4. CASE Received(r, x)
  <2>1. AnswersComeLast'
    BY <1>1, <1>4 DEF Received, IInv, AnswersComeLast
  <2>2. PhotosStayPrivate'
    BY <1>1, <1>4 DEF Received, IInv, PhotosStayPrivate
  <2> QED
    BY <2>1, <2>2
<1>5. CASE Ensured(r, x)
  <2>1. AnswersComeLast'
    BY <1>1, <1>2, <1>5 DEF Ensured, SameBut, IInv, AnswersComeLast, Caller
  <2>2. PhotosStayPrivate'
    BY <1>1, <1>5 DEF Ensured, SameBut, IInv, PhotosStayPrivate
  <2> QED
    BY <2>1, <2>2
<1>6. CASE Created(r, x)
  BY <1>1, <1>6 DEF Created, IInv, AnswersComeLast,
     EnsuredUsersAreThere, PhotosStayPrivate
<1>7. CASE Handled(r, x)
  <2>1. ASSUME NEW p \in x.shown PROVE By[p] = By[r]
    <3>1. p \in Request /\ (Owns(r, p) \/ p \in req[r].shown)
      BY <1>7, <2>1 DEF Handled, RequestState
    <3> QED
      BY <3>1, OwnersAreOfTheBrowser DEF IInv, PhotosStayPrivate
  <2> QED
    BY <1>1, <1>7, <2>1 DEF Handled, IInv, AnswersComeLast, PhotosStayPrivate
<1>8. CASE Found(r, x)
  BY <1>1, <1>8 DEF Found, SameBut, IInv, AnswersComeLast, PhotosStayPrivate
<1>9. CASE Removed(r, x)
  BY <1>1, <1>9 DEF Removed, IInv, AnswersComeLast, SessionsAreOfOneBrowser,
     PhotosStayPrivate
<1> QED
  BY <1>3, <1>4, <1>5, <1>6, <1>7, <1>8, <1>9 DEF Effect

(* A race, once lost, stays lost.                                          *)
LEMMA RacesStayLost ==
  ASSUME NEW p \in Request, LostTheRace(p),
         \A q \in Request : req[q].carried # NoUser =>
           /\ req'[q].carried = req[q].carried
           /\ req[q].user # NoUser => req'[q].user = req[q].user
           /\ req[q].spoiled => req'[q].spoiled
  PROVE  LostTheRace(p)'
<1>1. Caller(p) # NoUser /\ Caller(p)' = Caller(p)
  BY DEF LostTheRace, Caller
<1>2. PICK q \in Request \ {p} : /\ Caller(q) = Caller(p)
                                 /\ req[q].user = Caller(p) \/ req[q].spoiled
  BY DEF LostTheRace
<1>3. /\ Caller(q)' = Caller(q)
      /\ req'[q].user = Caller(p) \/ req'[q].spoiled
  BY <1>1, <1>2 DEF Caller
<1> QED
  BY <1>1, <1>2, <1>3 DEF LostTheRace

(* What a step of the server leaves of the user a request has and of what  *)
(* went wrong with it.                                                     *)
LEMMA ServerForgetsNothing ==
  ASSUME IInv, NEW r \in Request, NEW x, IsServed(r, x), Effect(r, x)
  PROVE  \A q \in Request : /\ req'[q].carried = req[q].carried
                            /\ req[q].user # NoUser => req'[q].user = req[q].user
                            /\ req[q].spoiled => req'[q].spoiled
<1>1. \A q \in Request : req'[q] = IF q = r THEN x ELSE req[q]
  BY DEF IInv, TypeOK, IsServed, Becomes
<1>2. x.carried = req[r].carried
  BY DEF IsServed, Becomes
<1>3. req[r].user # NoUser => x.user = req[r].user
  BY DEF Effect, Limited, Received, Ensured, Created, Handled, Found, Removed,
     IInv, AnswersComeLast
<1>4. req[r].spoiled => x.spoiled
  BY DEF Effect, Limited, Received, Ensured, Created, Handled, Found, Removed, SameBut
<1> QED
  BY <1>1, <1>2, <1>3, <1>4

(* A failure was a fault, or a race that another upload won: who finds its *)
(* user inserted was overtaken by one that carries the same cookie.        *)
LEMMA ServerKeepsCauses ==
  ASSUME IInv, NEW r \in Request, NEW x, IsServed(r, x), Effect(r, x)
  PROVE  OnlyFaultsAndRacesFailRequests' /\ LosersWereOvertaken'
<1>1. /\ \A q \in Request : req'[q] = IF q = r THEN x ELSE req[q]
      /\ x.carried = req[r].carried
  BY DEF IInv, TypeOK, IsServed, Becomes
<1>2. \A q \in Request : LostTheRace(q) => LostTheRace(q)'
  BY ServerForgetsNothing, RacesStayLost
<1>3. \A q \in Request : req[q].spoiled => req'[q].spoiled
  BY ServerForgetsNothing
<1>4. x.status >= 500 => x.spoiled \/ LostTheRace(r)
  <2>1. req[r].status = 0
    BY DEF Effect, Limited, Received, Ensured, Created, Handled, Found, Removed,
       IInv, AnswersComeLast
  <2>2. CASE Limited(r, x) \/ Received(r, x) \/ Found(r, x)
    BY <2>1, <2>2 DEF Limited, Received, Found, SameBut, TooManyRequests
  <2>3. CASE Ensured(r, x)
    <3>1. req[r].at = "insert" /\ Caller(r) \in users => req[r].spoiled \/ LostTheRace(r)
      BY DEF IInv, LosersWereOvertaken
    <3>2. \/ x.status = 0
          \/ x.spoiled
          \/ req[r].at = "insert" /\ Caller(r) \in users /\ x.spoiled = req[r].spoiled
      BY <2>1, <2>3 DEF Ensured, SameBut
    <3> QED
      BY <3>1, <3>2
  <2>4. CASE Created(r, x)
    <3>1. req[r].at = "create" /\ ~req[r].spoiled => req[r].user \in users
      BY DEF IInv, EnsuredUsersAreThere
    <3>2. \/ x.status = 202
          \/ x.spoiled
          \/ req[r].at = "create" /\ req[r].user \notin users /\ (req[r].spoiled => x.spoiled)
      BY <2>4 DEF Created
    <3> QED
      BY <3>1, <3>2
  <2>5. CASE Handled(r, x) \/ Removed(r, x)
    BY <2>5 DEF Handled, Removed, BadRequest, NotFound
  <2> QED
    BY <2>2, <2>3, <2>4, <2>5 DEF Effect
<1>5. OnlyFaultsAndRacesFailRequests'
  <2>1. ASSUME NEW q \in Request, req'[q].status >= 500
        PROVE  req'[q].spoiled \/ LostTheRace(q)'
    BY <1>1, <1>2, <1>3, <1>4, <2>1 DEF IInv, OnlyFaultsAndRacesFailRequests
  <2> QED
    BY <2>1 DEF OnlyFaultsAndRacesFailRequests
<1>6. ASSUME NEW q \in Request, req'[q].at = "insert", req[q].carried \in users'
      PROVE  req'[q].spoiled \/ LostTheRace(q)'
  <2>1. q # r
    <3>1. x.at = "insert" => req[r].carried \notin users'
      BY DEF Effect, Limited, Received, Ensured, Created, Handled, Found, Removed, Caller
    <3> QED
      BY <1>1, <1>6, <3>1
  <2>2. req[q].at = "insert" /\ req[q].carried # NoUser
    BY <1>1, <1>6, <2>1 DEF IInv, AnswersComeLast
  <2>3. CASE req[q].carried \in users
    BY <1>2, <1>3, <2>2, <2>3 DEF IInv, LosersWereOvertaken, Caller
  <2>4. CASE req[q].carried \notin users
    <3>1. /\ req[r].at \in {"session", "insert"} /\ req[q].carried = UserOf(r)
          /\ x.user = UserOf(r) \/ x.spoiled
      BY <1>6, <2>4 DEF Effect, Limited, Received, Ensured, Created, Handled, Found, Removed
    <3>2. req[r].carried = req[q].carried
      <4>1. req[q].carried # r
        <5>1. req[q].carried = r => IsUser(r)
          BY DEF IsUser
        <5> QED
          BY <3>1, <5>1 DEF IInv, UsersPassedTheGate
      <4> QED
        BY <3>1, <4>1 DEF UserOf, Caller
    <3>3. /\ Caller(q)' = req[q].carried /\ Caller(r)' = req[q].carried
          /\ req'[r].user = req[q].carried \/ req'[r].spoiled
      BY <1>1, <2>1, <3>1, <3>2 DEF Caller
    <3> QED
      BY <2>1, <2>2, <3>3 DEF LostTheRace
  <2> QED
    BY <2>3, <2>4
<1>7. LosersWereOvertaken'
  <2>1. \A q \in Request : Caller(q)' = req[q].carried
    BY <1>1 DEF Caller
  <2> QED
    BY <1>6, <2>1 DEF LosersWereOvertaken
<1> QED
  BY <1>5, <1>7

(* Photos and sessions stay with the browser of their user.                *)
LEMMA ServerKeepsSessions ==
  ASSUME IInv, NEW r \in Request, NEW x, IsServed(r, x), Effect(r, x)
  PROVE  SessionsAreOfOneBrowser'
<1> USE DEF IsServed, Becomes
<1>1. /\ \A q \in Request : req'[q] = IF q = r THEN x ELSE req[q]
      /\ cookie' = cookie
  BY DEF IInv, TypeOK, Effect, Limited, Received, Ensured, Created, Handled, Found, Removed
<1>2. ASSUME NEW q \in Request, owner'[q] # NoUser
      PROVE  owner'[q] = req'[q].user
  <2>1. owner' \in {owner, WithPhoto(r), Without(r, req[r].shape.photo)}
    BY DEF Effect, Limited, Received, Ensured, Created, Handled, Found, Removed
  <2>2. owner'[q] \in {owner[q], NoUser} \/ (q = r /\ owner'[q] = req[q].user)
    BY <2>1 DEF WithPhoto, Without, IInv, TypeOK
  <2>3. x.user # req[r].user => req[r].at \in {"session", "insert"}
    BY DEF Effect, Limited, Received, Ensured, Created, Handled, Found, Removed
  <2>4. owner[q] # NoUser => owner[q] = req[q].user
    BY DEF IInv, SessionsAreOfOneBrowser
  <2>5. req[r].at \in {"session", "insert"} => req[r].user = NoUser
    BY DEF IInv, AnswersComeLast
  <2> QED
    BY <1>1, <1>2, <2>2, <2>3, <2>4, <2>5
<1>3. ASSUME x.at = "remove" PROVE By[x.shape.photo] = By[r]
  <2>1. Found(r, x)
    BY <1>3 DEF Effect, Limited, Received, Ensured, Created, Handled, Found, Removed
  <2>2. req[r].shape \in Shape /\ req[r].shape.op = "DELETE"
    BY <2>1 DEF Found, IInv, TypeOK, RequestState
  <2>3. req[r].shape.photo \in Request
    BY <2>2, OpHasPhoto
  <2> QED
    BY <2>1, <2>3, OwnersAreOfTheBrowser DEF Found
<1>4. ASSUME NEW q \in Request
      PROVE  /\ req'[q].carried = req[q].carried
             /\ req'[q].at = "remove" => By[req'[q].shape.photo] = By[q]
  BY <1>1, <1>3 DEF IInv, SessionsAreOfOneBrowser
<1>5. cookie' = cookie
  BY DEF Effect, Limited, Received, Ensured, Created, Handled, Found, Removed
<1> QED
  BY <1>2, <1>4, <1>5 DEF IInv, SessionsAreOfOneBrowser

(* A user that appears is that of a request past its gate.                 *)
LEMMA ServerKeepsUsers ==
  ASSUME IInv, NEW r \in Request, NEW x, IsServed(r, x), Effect(r, x)
  PROVE  UsersPassedTheGate' /\ EnsuredUsersAreThere'
<1> USE DEF IsServed, Becomes, InternalServerError
<1> DEFINE Passed(q) == \/ req[q].at = "create"
                        \/ req[q].at = "answered" /\ req[q].status \in {202, InternalServerError}
<1>1. /\ \A q \in Request : req'[q] = IF q = r THEN x ELSE req[q]
      /\ cookie' = cookie
  BY DEF IInv, TypeOK, Effect, Limited, Received, Ensured, Created, Handled, Found, Removed
<1>2. req[r].at \notin {"unsent", "answered"}
  BY DEF Effect, Limited, Received, Ensured, Created, Handled, Found, Removed
<1>3. \A q \in Request : Passed(q) => Passed(q)'
  <2>1. Passed(r) => req[r].at = "create"
    BY <1>2
  <2>2. req[r].at = "create" => Created(r, x)
    BY DEF Effect, Limited, Received, Ensured, Created, Handled, Found, Removed
  <2>3. Passed(r) => x.at = "answered" /\ x.status \in {202, InternalServerError}
    BY <2>1, <2>2 DEF Created
  <2> QED
    BY <1>1, <2>3
<1>4. ASSUME NEW u \in Request, IsUser(u)' PROVE Passed(u)'
  <2>1. CASE IsUser(u)
    BY <1>3, <2>1 DEF IInv, UsersPassedTheGate
  <2>2. CASE ~IsUser(u)
    <3>1. users' # users \/ x.user # req[r].user =>
            /\ req[r].at \in {"session", "insert"}
            /\ x.at = "create" \/ (x.at = "answered" /\ x.status = InternalServerError)
            /\ users' \subseteq users \cup {UserOf(r)}
            /\ x.user \in {req[r].user, UserOf(r)}
      BY DEF Effect, Limited, Received, Ensured, Created, Handled, Found, Removed
    <3>2. u = UserOf(r) /\ (users' # users \/ x.user # req[r].user)
      BY <1>1, <1>4, <2>2, <3>1 DEF IsUser
    <3>3. u = r
      BY <2>2, <3>2 DEF IsUser, UserOf, Caller
    <3> QED
      BY <1>1, <3>1, <3>2, <3>3
  <2> QED
    BY <2>1, <2>2
<1>5. UsersPassedTheGate'
  BY <1>4 DEF UsersPassedTheGate
<1>6. EnsuredUsersAreThere'
  <2>1. users \subseteq users'
    BY DEF Effect, Limited, Received, Ensured, Created, Handled, Found, Removed
  <2>2. x.at = "create" => Ensured(r, x)
    BY DEF Effect, Limited, Received, Ensured, Created, Handled, Found, Removed
  <2>3. x.at = "create" => x.user \in users'
    BY <2>2 DEF Ensured
  <2> QED
    BY <1>1, <2>1, <2>3 DEF IInv, EnsuredUsersAreThere
<1> QED
  BY <1>5, <1>6

(* Where nobody new is known, one user stays known.                        *)
LEMMA NobodyNewIsKnown ==
  ASSUME IInv, \A q \in Request : req'[q].stray = req[q].stray,
         \A u \in Request, b \in Browser : IsKnown(u, b)' => IsKnown(u, b)
  PROVE  OneUserIsKnown'
<1>1. ASSUME NEW b \in Browser, NEW u \in Request, NEW v \in Request,
             IsKnown(u, b)', IsKnown(v, b)', ~req'[u].stray, ~req'[v].stray
      PROVE  u = v
  <2>1. IsKnown(u, b) /\ IsKnown(v, b) /\ ~req[u].stray /\ ~req[v].stray
    BY <1>1
  <2> QED
    BY <2>1 DEF IInv, OneUserIsKnown
<1> QED
  BY <1>1 DEF OneUserIsKnown

(* The server changes no cookie that a browser has.                        *)
LEMMA ServerKeepsCookies ==
  ASSUME IInv, NEW r \in Request, NEW x, IsServed(r, x), Effect(r, x)
  PROVE  OneUserIsKnown' /\ CookiesComeFirst'
<1> USE DEF IsServed, Becomes
<1>1. /\ \A q \in Request : req'[q] = IF q = r THEN x ELSE req[q]
      /\ cookie' = cookie
  BY DEF IInv, TypeOK, Effect, Limited, Received, Ensured, Created, Handled, Found, Removed
<1>2. ~req[r].heard
  <2>1. req[r].at # "answered"
    BY DEF Effect, Limited, Received, Ensured, Created, Handled, Found, Removed
  <2> QED
    BY <2>1 DEF IInv, AnswersComeLast
<1>3. ASSUME NEW u \in Request, NEW b \in Browser, IsKnown(u, b)'
      PROVE  IsKnown(u, b)
  BY <1>1, <1>2, <1>3 DEF IsKnown
<1>4. OneUserIsKnown'
  BY <1>1, <1>3, NobodyNewIsKnown
<1>5. CookiesComeFirst'
  BY <1>1, <1>2 DEF IInv, CookiesComeFirst
<1> QED
  BY <1>4, <1>5

(* The uploads of a browser that the limiter let through.                  *)
Admitted(b) == {q \in Counted(b, window) : req[q].status # TooManyRequests}

(* Fewer admitted uploads are within the limit as well.                    *)
LEMMA WindowsMayShrink ==
  ASSUME IInv, NEW b \in Browser, Admitted(b)' \subseteq Admitted(b)
  PROVE  Cardinality(Admitted(b)') <= UploadLimit
<1>1. Admitted(b) \subseteq window
  BY DEF Admitted, Counted
<1>2. IsFiniteSet(Admitted(b))
  BY <1>1, FS_Subset DEF IInv
<1>3. /\ IsFiniteSet(Admitted(b)')
      /\ Cardinality(Admitted(b)') <= Cardinality(Admitted(b))
  BY <1>2, FS_Subset
<1>4. Cardinality(Admitted(b)) \in Nat /\ Cardinality(Admitted(b)') \in Nat
  BY <1>2, <1>3, FS_CardinalityType
<1>5. Cardinality(Admitted(b)) <= UploadLimit
  BY DEF IInv, AdmissionsAreLimited, Admitted
<1> QED
  BY <1>3, <1>4, <1>5, UploadLimitIsPositive

(* What the limiter lets through is within the limit.                      *)
LEMMA ServerKeepsWindow ==
  ASSUME IInv, NEW r \in Request, NEW x, IsServed(r, x), Effect(r, x)
  PROVE  IsFiniteSet(window)' /\ AdmissionsAreLimited'
<1> USE DEF IsServed, Becomes
<1>1. \A q \in Request : req'[q] = IF q = r THEN x ELSE req[q]
  BY DEF IInv, TypeOK
<1>2. req[r].status # TooManyRequests
  <2>1. req[r].at # "answered"
    BY DEF Effect, Limited, Received, Ensured, Created, Handled, Found, Removed
  <2> QED
    BY <2>1 DEF IInv, AnswersComeLast, TooManyRequests
<1>3. window' \in {window, window \cup {r}}
  BY DEF Effect, Limited, Received, Ensured, Created, Handled, Found, Removed
<1>4. IsFiniteSet(window')
  BY <1>3, FS_AddElement DEF IInv
<1>5. window \subseteq Request
  BY DEF IInv, TypeOK
<1>6. ASSUME NEW b \in Browser PROVE Cardinality(Admitted(b)') <= UploadLimit
  <2>1. CASE window' = window \/ b # By[r] \/ x.status = TooManyRequests
    <3>1. Admitted(b)' \subseteq Admitted(b)
      BY <1>1, <1>2, <1>3, <1>5, <2>1 DEF Admitted, Counted
    <3> QED
      BY <3>1, WindowsMayShrink
  <2>2. CASE window' # window /\ b = By[r] /\ x.status # TooManyRequests
    <3>1. Limited(r, x)
      BY <2>2 DEF Effect, Limited, Received, Ensured, Created, Handled, Found, Removed
    <3>2. ~(Cardinality(Counted(b, window')) > UploadLimit)
      BY <2>2, <3>1 DEF Limited, IsOverLimit
    <3>3. Counted(b, window') \subseteq window' /\ Admitted(b)' \subseteq Counted(b, window')
      BY DEF Admitted, Counted
    <3>4. IsFiniteSet(Counted(b, window'))
      BY <1>4, <3>3, FS_Subset
    <3>5. /\ IsFiniteSet(Admitted(b)')
          /\ Cardinality(Admitted(b)') <= Cardinality(Counted(b, window'))
      BY <3>3, <3>4, FS_Subset
    <3>6. Cardinality(Counted(b, window')) \in Nat /\ Cardinality(Admitted(b)') \in Nat
      BY <3>4, <3>5, FS_CardinalityType
    <3> QED
      BY <3>2, <3>5, <3>6, UploadLimitIsPositive
  <2> QED
    BY <2>1, <2>2
<1> QED
  BY <1>4, <1>6 DEF AdmissionsAreLimited, Admitted

(* Every step of the server keeps the invariant.                           *)
LEMMA ServerKeepsIInv ==
  ASSUME IInv, NEW r \in Request, ServerStep(r) \/ ServerFault(r)
  PROVE  IInv'
<1>1. TypeOK /\ AnswersComeLast
  BY DEF IInv
<1>2. faults' \in 0 .. MaxFaults
  BY <1>1, EffectsOfServer
<1>3. PICK x : IsServed(r, x) /\ Effect(r, x)
  BY <1>1, EffectsOfServer
<1> QED
  BY <1>1, <1>2, <1>3, ServerType, ServerKeepsAnswers, ServerKeepsCauses,
     ServerKeepsSessions, ServerKeepsUsers, ServerKeepsCookies, ServerKeepsWindow DEF IInv

(* A request that is sent knows nothing but its browser's cookie.          *)
LEMMA SendKeepsIInv ==
  ASSUME IInv, NEW r \in Request, NEW shape \in Shape, Send(r, shape)
  PROVE  IInv'
<1>0. TypeOK /\ TypeOK'
  BY SendType DEF IInv
<1>s. PICK x : IsSent(r, shape, x)
  BY <1>0, SentRequest
<1>1. /\ req' = [req EXCEPT ![r] = x]
      /\ x.at = IF shape.op = "POST" THEN "limit" ELSE "handle"
      /\ x.shape = shape /\ x.carried = cookie[By[r]] /\ x.user = NoUser
      /\ x.status = 0 /\ x.shown = {} /\ ~x.heard
      /\ x.waiting <=> shape.op = "POST"
      /\ x.stray <=> IsStray(r, shape)
  BY <1>s DEF IsSent
<1>2. \A q \in Request : req'[q] = IF q = r THEN x ELSE req[q]
  BY <1>0, <1>1 DEF TypeOK
<1>3. /\ UNCHANGED <<users, owner, window, cookie>>
      /\ req[r].at = "unsent"
  BY DEF Send, Unchanged, At
<1>4. AnswersComeLast'
  BY <1>1, <1>2 DEF IInv, AnswersComeLast, UserOf, Caller
<1>5. SessionsAreOfOneBrowser'
  <2>1. owner[r] = NoUser
    BY <1>3 DEF IInv, SessionsAreOfOneBrowser, AnswersComeLast
  <2>2. By[r] \in Browser /\ x.at # "remove"
    BY <1>1
  <2>3. x.carried # NoUser => By[x.carried] = By[r]
    BY <1>1, <2>2 DEF IInv, SessionsAreOfOneBrowser
  <2> QED
    BY <1>2, <1>3, <2>1, <2>2, <2>3 DEF IInv, SessionsAreOfOneBrowser
<1>6. UsersPassedTheGate'
  <2>1. ASSUME NEW u \in Request, IsUser(u)' PROVE IsUser(u)
    BY <1>1, <1>2, <1>3, <2>1 DEF IsUser
  <2>2. ~IsUser(r)
    BY <1>3 DEF IInv, UsersPassedTheGate
  <2>3. ASSUME NEW u \in Request, IsUser(u)
        PROVE  \/ req'[u].at = "create"
               \/ /\ req'[u].at = "answered"
                  /\ req'[u].status \in {202, InternalServerError}
    BY <1>2, <2>2, <2>3 DEF IInv, UsersPassedTheGate
  <2> QED
    BY <2>1, <2>3, Zenon DEF UsersPassedTheGate
<1>7. OneUserIsKnown' /\ CookiesComeFirst'
  <2>1. By[r] \in Browser /\ ~req[r].waiting /\ ~IsUser(r)
    BY <1>3 DEF IInv, AnswersComeLast, UsersPassedTheGate
  <2>2. ASSUME NEW u \in Request, NEW b \in Browser, IsKnown(u, b)'
        PROVE  \/ IsKnown(u, b)
               \/ u = r /\ b = By[r] /\ shape.op = "POST" /\ cookie[b] = NoUser
    BY <1>1, <1>2, <1>3, <2>2 DEF IsKnown
  <2>3. ASSUME NEW b \in Browser PROVE ~IsKnown(r, b)
    BY <2>1 DEF IsKnown, IsUser
  <2>4. ASSUME NEW u \in Request, IsKnown(u, By[r]), ~req[u].stray,
               shape.op = "POST", cookie[By[r]] = NoUser
        PROVE  IsStray(r, shape)
    <3>1. u \in OpenUploads(By[r])
      BY <2>1, <2>4 DEF IsKnown, OpenUploads, IInv, CookiesComeFirst
    <3> QED
      BY <2>4, <3>1 DEF IsStray
  <2>5. ASSUME NEW b \in Browser, NEW u \in Request, NEW v \in Request,
               IsKnown(u, b)', IsKnown(v, b)', ~req'[u].stray, ~req'[v].stray
        PROVE  u = v
    <3>1. u # r => ~req[u].stray
      BY <1>2, <2>5
    <3>2. v # r => ~req[v].stray
      BY <1>2, <2>5
    <3>3. u = r \/ v = r => ~IsStray(r, shape)
      BY <1>1, <1>2, <2>5
    <3>4. CASE IsKnown(u, b) /\ IsKnown(v, b)
      <4>1. u # r /\ v # r
        BY <2>3, <3>4
      <4> QED
        BY <3>1, <3>2, <3>4, <4>1 DEF IInv, OneUserIsKnown
    <3>5. CASE ~IsKnown(u, b)
      <4>1. u = r /\ b = By[r] /\ shape.op = "POST" /\ cookie[b] = NoUser
        BY <2>2, <2>5, <3>5
      <4>2. IsKnown(v, b) => v = r
        BY <2>4, <3>2, <3>3, <4>1
      <4> QED
        BY <2>2, <2>5, <4>1, <4>2
    <3>6. CASE ~IsKnown(v, b)
      <4>1. v = r /\ b = By[r] /\ shape.op = "POST" /\ cookie[b] = NoUser
        BY <2>2, <2>5, <3>6
      <4>2. IsKnown(u, b) => u = r
        BY <2>4, <3>1, <3>3, <4>1
      <4> QED
        BY <2>2, <2>5, <4>1, <4>2
    <3> QED
      BY <3>4, <3>5, <3>6
  <2>6. OneUserIsKnown'
    BY <2>5 DEF OneUserIsKnown
  <2>7. cookie[By[r]] # r
    BY <2>1 DEF IsUser
  <2>8. CookiesComeFirst'
    BY <1>1, <1>2, <1>3, <2>7 DEF IInv, CookiesComeFirst
  <2> QED
    BY <2>6, <2>8
<1>8. /\ EnsuredUsersAreThere' /\ PhotosStayPrivate'
      /\ OnlyFaultsAndRacesFailRequests' /\ LosersWereOvertaken'
  <2>1. EnsuredUsersAreThere'
    <3>1. ASSUME NEW q \in Request, req'[q].at = "create"
          PROVE  req'[q] = req[q]
      BY <1>1, <1>2, <3>1
    <3>2. \A q \in Request : req[q].at = "create" /\ ~req[q].spoiled => req[q].user \in users
      BY DEF IInv, EnsuredUsersAreThere
    <3> QED
      BY <1>3, <3>1, <3>2 DEF EnsuredUsersAreThere
  <2>2. PhotosStayPrivate'
    BY <1>1, <1>2, <1>3 DEF IInv, PhotosStayPrivate
  <2>3. req[r].carried = NoUser
    BY <1>3 DEF IInv, AnswersComeLast
  <2>4. ASSUME NEW q \in Request, LostTheRace(q) PROVE LostTheRace(q)'
    BY <1>2, <2>3, <2>4, RacesStayLost
  <2>5. OnlyFaultsAndRacesFailRequests'
    <3>1. ASSUME NEW q \in Request, req'[q].status >= 500
          PROVE  req'[q].spoiled \/ LostTheRace(q)'
      <4>1. q # r /\ req'[q] = req[q]
        BY <1>1, <1>2, <3>1
      <4> QED
        BY <2>4, <3>1, <4>1 DEF IInv, OnlyFaultsAndRacesFailRequests
    <3> QED
      BY <3>1 DEF OnlyFaultsAndRacesFailRequests
  <2>6. LosersWereOvertaken'
    <3>1. ASSUME NEW q \in Request, req'[q].at = "insert", Caller(q)' \in users
          PROVE  req'[q].spoiled \/ LostTheRace(q)'
      <4>1. q # r /\ req'[q] = req[q] /\ Caller(q)' = Caller(q)
        BY <1>1, <1>2, <3>1 DEF Caller
      <4> QED
        BY <2>4, <3>1, <4>1 DEF IInv, LosersWereOvertaken
    <3> QED
      BY <1>3, <3>1 DEF LosersWereOvertaken
  <2> QED
    BY <2>1, <2>2, <2>5, <2>6
<1>9. IsFiniteSet(window)' /\ AdmissionsAreLimited'
  <2>1. req[r].status # TooManyRequests
    <3>1. req[r].status = 0
      BY <1>3, Zenon DEF IInv, AnswersComeLast
    <3> QED
      BY <3>1 DEF TooManyRequests
  <2>2. ASSUME NEW b \in Browser PROVE Admitted(b)' \subseteq Admitted(b)
    BY <1>0, <1>2, <1>3, <2>1 DEF Admitted, Counted, TypeOK
  <2> QED
    BY <1>3, <2>2, WindowsMayShrink DEF IInv, AdmissionsAreLimited, Admitted
<1> QED
  BY <1>0, <1>4, <1>5, <1>6, <1>7, <1>8, <1>9 DEF IInv

(* Hearing an answer may set the cookie, for the first time.               *)
LEMMA HearKeepsIInv ==
  ASSUME IInv, NEW r \in Request, Hear(r)
  PROVE  IInv'
<1>0. TypeOK
  BY DEF IInv
<1>1. PICK x : /\ Becomes(r, x) /\ SameBut(r, x) /\ x.at = req[r].at
               /\ x.user = req[r].user /\ ~x.waiting /\ x.heard
  BY <1>0, Hearing
<1>2. \A q \in Request : req'[q] = IF q = r THEN x ELSE req[q]
  BY <1>0, <1>1 DEF TypeOK, Becomes
<1>3. /\ UNCHANGED <<users, owner, window, faults>>
      /\ req[r].at = "answered" /\ req[r].waiting
      /\ cookie' = IF SetsCookie(r) THEN [cookie EXCEPT ![By[r]] = req[r].user] ELSE cookie
  BY DEF Hear, At
<1>4. By[r] \in Browser /\ req[r] \in RequestState
  BY <1>0 DEF TypeOK
<1>5. TypeOK'
  <2>1. req' \in [Request -> RequestState]
    BY <1>0, <1>1 DEF TypeOK, Becomes
  <2>2. req[r].user \in Request \cup {NoUser}
    BY <1>4 DEF RequestState
  <2>3. cookie' \in [Browser -> Request \cup {NoUser}]
    BY <1>0, <1>3, <1>4, <2>2 DEF TypeOK
  <2> QED
    BY <1>0, <1>3, <2>1, <2>3 DEF TypeOK
<1>6. /\ ~SetsCookie(r) => cookie' = cookie
      /\ SetsCookie(r) => /\ req[r].carried = NoUser /\ req[r].user = r
                          /\ \A b \in Browser : cookie'[b] = IF b = By[r] THEN r
                                                              ELSE cookie[b]
  <2>1. ~SetsCookie(r) => cookie' = cookie
    BY <1>3
  <2>2. ASSUME SetsCookie(r) PROVE req[r].carried = NoUser /\ req[r].user = r
    BY <2>2 DEF IInv, AnswersComeLast, SetsCookie, UserOf, Caller
  <2>3. ASSUME SetsCookie(r), NEW b \in Browser
        PROVE  cookie'[b] = IF b = By[r] THEN r ELSE cookie[b]
    <3>1. cookie' = [cookie EXCEPT ![By[r]] = r]
      BY <1>3, <2>2, <2>3
    <3> QED
      BY <1>0, <3>1 DEF TypeOK
  <2> QED
    BY <2>1, <2>2, <2>3
<1>7. AnswersComeLast'
  BY <1>1, <1>2, <1>3 DEF IInv, AnswersComeLast, UserOf, Caller, Becomes, SameBut
<1>8. SessionsAreOfOneBrowser'
  <2>1. \A b \in Browser : cookie'[b] # NoUser => By[cookie'[b]] = b
    BY <1>3, <1>6, UsersAreOfOneBrowser DEF IInv, SessionsAreOfOneBrowser, SetsCookie
  <2> QED
    BY <1>1, <1>2, <1>3, <2>1 DEF IInv, SessionsAreOfOneBrowser, Becomes
<1>9. UsersPassedTheGate'
  <2>1. ASSUME NEW u \in Request, IsUser(u)' PROVE IsUser(u)
    <3>1. \A b \in Browser : cookie'[b] \in {cookie[b], req[r].user}
      BY <1>3, <1>6
    <3> QED
      BY <1>1, <1>2, <1>3, <2>1, <3>1 DEF IsUser, Becomes
  <2> QED
    BY <1>1, <1>2, <2>1 DEF IInv, UsersPassedTheGate, SameBut
<1>10. OneUserIsKnown' /\ CookiesComeFirst'
  <2>1. ASSUME NEW q \in Request
        PROVE  /\ req'[q].carried = req[q].carried /\ req'[q].user = req[q].user
               /\ req'[q].status = req[q].status /\ req'[q].stray = req[q].stray
               /\ req'[q].waiting => q # r /\ req[q].waiting
               /\ req'[q].heard => q = r \/ req[q].heard
    BY <1>1, <1>2 DEF Becomes, SameBut
  <2>2. ASSUME NEW u \in Request, req[r].user = u PROVE IsKnown(u, By[r])
    <3>1. u = UserOf(r)
      BY <2>2 DEF IInv, AnswersComeLast
    <3> QED
      BY <1>3, <3>1 DEF IsKnown, UserOf, Caller
  <2>3. ASSUME NEW u \in Request, NEW b \in Browser, IsKnown(u, b)' PROVE IsKnown(u, b)
    <3>1. cookie'[b] = u => IsKnown(u, b)
      BY <1>6, <2>2 DEF IsKnown
    <3> QED
      BY <2>1, <2>2, <2>3, <3>1 DEF IsKnown
  <2>4. OneUserIsKnown'
    BY <2>1, <2>3, NobodyNewIsKnown
  <2>5. ASSUME NEW b \in Browser, cookie[b] # NoUser PROVE cookie'[b] # NoUser
    BY <1>6, <2>5
  <2>6. ASSUME NEW q \in Request, req'[q].heard, req'[q].status = 202
        PROVE  cookie'[By[q]] # NoUser
    <3>1. CASE q = r
      <4>1. req[r].user # NoUser
        BY <2>1, <2>6, <3>1 DEF IInv, AnswersComeLast
      <4>2. ~SetsCookie(r) => cookie[By[r]] # NoUser
        BY <4>1 DEF SetsCookie, Caller, IInv, CookiesComeFirst
      <4>3. CASE SetsCookie(r)
        BY <1>4, <1>6, <3>1, <4>3
      <4>4. CASE ~SetsCookie(r)
        BY <1>6, <3>1, <4>2, <4>4
      <4> QED
        BY <4>3, <4>4
    <3>2. CASE q # r
      <4>1. cookie[By[q]] # NoUser /\ By[q] \in Browser
        BY <2>1, <2>6, <3>2 DEF IInv, CookiesComeFirst
      <4> QED
        BY <2>5, <4>1
    <3> QED
      BY <3>1, <3>2
  <2>7. ASSUME NEW q \in Request
        PROVE  /\ req'[q].carried # NoUser => cookie'[By[q]] # NoUser
               /\ req'[q].waiting => cookie'[By[q]] # q
    <3>1. By[q] \in Browser /\ req'[q].carried = req[q].carried
      BY <1>0, <2>1 DEF TypeOK
    <3>2. req'[q].carried # NoUser => cookie'[By[q]] # NoUser
      BY <2>5, <3>1 DEF IInv, CookiesComeFirst
    <3>3. req'[q].waiting => q # r /\ cookie[By[q]] # q
      BY <2>1 DEF IInv, CookiesComeFirst
    <3>4. cookie'[By[q]] \in {r, cookie[By[q]]}
      BY <1>6, <3>1
    <3> QED
      BY <3>2, <3>3, <3>4
  <2> QED
    BY <2>4, <2>6, <2>7 DEF CookiesComeFirst
<1>11. /\ EnsuredUsersAreThere' /\ PhotosStayPrivate'
       /\ OnlyFaultsAndRacesFailRequests' /\ LosersWereOvertaken'
  <2>1. EnsuredUsersAreThere'
    BY <1>1, <1>2, <1>3 DEF IInv, EnsuredUsersAreThere, SameBut
  <2>2. PhotosStayPrivate'
    BY <1>1, <1>2 DEF IInv, PhotosStayPrivate, SameBut
  <2>3. ASSUME NEW q \in Request
        PROVE  /\ req'[q].carried = req[q].carried /\ req'[q].user = req[q].user
               /\ req'[q].status = req[q].status /\ req'[q].spoiled = req[q].spoiled
               /\ req'[q].at = req[q].at
    BY <1>1, <1>2 DEF Becomes, SameBut
  <2>4. \A q \in Request : LostTheRace(q) => LostTheRace(q)'
    BY <2>3, RacesStayLost
  <2>5. OnlyFaultsAndRacesFailRequests'
    BY <2>3, <2>4 DEF IInv, OnlyFaultsAndRacesFailRequests
  <2>6. LosersWereOvertaken'
    BY <1>3, <2>3, <2>4 DEF IInv, LosersWereOvertaken, Caller
  <2> QED
    BY <2>1, <2>2, <2>5, <2>6
<1>12. IsFiniteSet(window)' /\ AdmissionsAreLimited'
  <2>1. ASSUME NEW b \in Browser PROVE Admitted(b)' \subseteq Admitted(b)
    BY <1>0, <1>1, <1>2, <1>3 DEF Admitted, Counted, TypeOK, SameBut
  <2> QED
    BY <1>3, <2>1, WindowsMayShrink DEF IInv, AdmissionsAreLimited, Admitted
<1> QED
  BY <1>5, <1>7, <1>8, <1>9, <1>10, <1>11, <1>12 DEF IInv

(* A browser that gives up an upload has one upload fewer under way.       *)
LEMMA AbandonKeepsIInv ==
  ASSUME IInv, NEW r \in Request, Abandon(r)
  PROVE  IInv'
<1>0. TypeOK
  BY DEF IInv
<1>1. PICK x : /\ Becomes(r, x) /\ SameBut(r, x) /\ x.at = req[r].at
               /\ x.user = req[r].user /\ ~x.waiting /\ x.heard = req[r].heard
  BY <1>0, Abandoning
<1>2. \A q \in Request : req'[q] = IF q = r THEN x ELSE req[q]
  BY <1>0, <1>1 DEF TypeOK, Becomes
<1>3. UNCHANGED <<users, owner, window, cookie, faults>>
  BY DEF Abandon, Unchanged
<1>4. TypeOK'
  <2>1. req' \in [Request -> RequestState]
    BY <1>0, <1>1 DEF TypeOK, Becomes
  <2> QED
    BY <1>0, <1>3, <2>1 DEF TypeOK
<1>5. ASSUME NEW q \in Request
      PROVE  /\ req'[q].at = req[q].at /\ req'[q].shape = req[q].shape
             /\ req'[q].carried = req[q].carried /\ req'[q].user = req[q].user
             /\ req'[q].status = req[q].status /\ req'[q].shown = req[q].shown
             /\ req'[q].stray = req[q].stray /\ req'[q].heard = req[q].heard
             /\ req'[q].waiting => req[q].waiting
  BY <1>1, <1>2 DEF Becomes, SameBut
<1>6. AnswersComeLast'
  BY <1>5 DEF IInv, AnswersComeLast, UserOf, Caller
<1>7. SessionsAreOfOneBrowser'
  <2>1. ASSUME NEW q \in Request
        PROVE  /\ req'[q].carried # NoUser => By[req'[q].carried] = By[q]
               /\ owner[q] # NoUser => owner[q] = req'[q].user
               /\ req'[q].at = "remove" => By[req'[q].shape.photo] = By[q]
    BY <1>5 DEF IInv, SessionsAreOfOneBrowser
  <2> QED
    BY <1>3, <2>1 DEF IInv, SessionsAreOfOneBrowser
<1>8. UsersPassedTheGate'
  <2>1. ASSUME NEW u \in Request, IsUser(u)' PROVE IsUser(u)
    BY <1>3, <1>5, <2>1 DEF IsUser
  <2> QED
    BY <1>5, <2>1 DEF IInv, UsersPassedTheGate
<1>9. OneUserIsKnown' /\ CookiesComeFirst'
  <2>1. ASSUME NEW u \in Request, NEW b \in Browser, IsKnown(u, b)' PROVE IsKnown(u, b)
    BY <1>3, <1>5, <2>1 DEF IsKnown
  <2>2. OneUserIsKnown'
    BY <1>5, <2>1, NobodyNewIsKnown
  <2>3. CookiesComeFirst'
    <3>1. ASSUME NEW q \in Request
          PROVE  /\ req'[q].carried # NoUser => cookie[By[q]] # NoUser
                 /\ req'[q].heard /\ req'[q].status = 202 => cookie[By[q]] # NoUser
                 /\ req'[q].waiting => cookie[By[q]] # q
      <4>1. /\ req[q].carried # NoUser => cookie[By[q]] # NoUser
            /\ req[q].heard /\ req[q].status = 202 => cookie[By[q]] # NoUser
            /\ req[q].waiting => cookie[By[q]] # q
        BY DEF IInv, CookiesComeFirst
      <4> QED
        BY <1>5, <4>1
    <3> QED
      BY <1>3, <3>1 DEF CookiesComeFirst
  <2> QED
    BY <2>2, <2>3
<1>10. /\ EnsuredUsersAreThere' /\ PhotosStayPrivate'
       /\ OnlyFaultsAndRacesFailRequests' /\ LosersWereOvertaken'
  <2>1. EnsuredUsersAreThere'
    BY <1>1, <1>2, <1>3 DEF IInv, EnsuredUsersAreThere, SameBut
  <2>2. PhotosStayPrivate'
    BY <1>1, <1>2 DEF IInv, PhotosStayPrivate, SameBut
  <2>3. ASSUME NEW q \in Request
        PROVE  /\ req'[q].carried = req[q].carried /\ req'[q].user = req[q].user
               /\ req'[q].status = req[q].status /\ req'[q].spoiled = req[q].spoiled
               /\ req'[q].at = req[q].at
    BY <1>1, <1>2 DEF Becomes, SameBut
  <2>4. \A q \in Request : LostTheRace(q) => LostTheRace(q)'
    BY <2>3, RacesStayLost
  <2>5. OnlyFaultsAndRacesFailRequests'
    BY <2>3, <2>4 DEF IInv, OnlyFaultsAndRacesFailRequests
  <2>6. LosersWereOvertaken'
    BY <1>3, <2>3, <2>4 DEF IInv, LosersWereOvertaken, Caller
  <2> QED
    BY <2>1, <2>2, <2>5, <2>6
<1>11. IsFiniteSet(window)' /\ AdmissionsAreLimited'
  <2>1. ASSUME NEW b \in Browser PROVE Admitted(b)' \subseteq Admitted(b)
    BY <1>0, <1>1, <1>2, <1>3 DEF Admitted, Counted, TypeOK, SameBut
  <2> QED
    BY <1>3, <2>1, WindowsMayShrink DEF IInv, AdmissionsAreLimited, Admitted
<1> QED
  BY <1>4, <1>6, <1>7, <1>8, <1>9, <1>10, <1>11 DEF IInv

(* A reset takes users and photos away, and spoils what is under way.      *)
LEMMA ResetKeepsIInv ==
  ASSUME IInv, ResetDatabase
  PROVE  IInv'
<1> DEFINE at(r) == req[r].at \notin {"unsent", "answered"}
           spoilt(r) == [req[r] EXCEPT !.spoiled = @ \/ at(r)]
<1>0. TypeOK /\ users' = {} /\ UNCHANGED <<window, cookie>>
  BY DEF IInv, ResetDatabase
<1>1. \A r \in Request : req'[r] = spoilt(r) /\ owner'[r] = NoUser
  BY DEF ResetDatabase
<1>2. ASSUME NEW r \in Request
      PROVE  /\ req'[r] \in RequestState
             /\ req'[r].at = req[r].at /\ req'[r].shape = req[r].shape
             /\ req'[r].carried = req[r].carried /\ req'[r].user = req[r].user
             /\ req'[r].status = req[r].status /\ req'[r].shown = req[r].shown
             /\ req'[r].waiting = req[r].waiting /\ req'[r].heard = req[r].heard
             /\ req'[r].stray = req[r].stray
             /\ req'[r].spoiled <=> (req[r].spoiled \/ at(r))
  <2>1. req[r] \in RequestState
    BY <1>0 DEF TypeOK
  <2>2. PICK w \in BOOLEAN : /\ w <=> (req[r].spoiled \/ at(r))
                             /\ req'[r] = [req[r] EXCEPT !.spoiled = w]
    <3>1. (req[r].spoiled \/ at(r)) \in BOOLEAN
      OBVIOUS
    <3> QED
      BY <1>1, <3>1, Zenon
  <2>3. [req[r] EXCEPT !.spoiled = w] \in RequestState
    BY <2>1 DEF RequestState
  <2> HIDE DEF at
  <2> QED
    BY <2>1, <2>2, <2>3 DEF RequestState
<1>3. TypeOK'
  <2>1. req' \in [Request -> RequestState] /\ owner' \in [Request -> Request \cup {NoUser}]
    <3>1. req' = [r \in Request |-> req'[r]]
      BY DEF ResetDatabase
    <3>2. req' \in [Request -> RequestState]
      BY <1>2, <3>1
    <3> QED
      BY <3>2 DEF ResetDatabase
  <2>2. faults' \in 0 .. MaxFaults
    BY <1>0, FaultsAreBounded DEF TypeOK, ResetDatabase, Fault
  <2> QED
    BY <1>0, <2>1, <2>2 DEF TypeOK
<1> HIDE DEF spoilt
<1>4. AnswersComeLast'
  BY <1>2 DEF IInv, AnswersComeLast, UserOf, Caller
<1>5. SessionsAreOfOneBrowser'
  <2>1. \A b \in Browser : cookie'[b] # NoUser => By[cookie'[b]] = b
    BY <1>0 DEF IInv, SessionsAreOfOneBrowser
  <2>2. ASSUME NEW r \in Request
        PROVE  /\ req'[r].carried # NoUser => By[req'[r].carried] = By[r]
               /\ req'[r].at = "remove" => By[req'[r].shape.photo] = By[r]
    <3>1. /\ req'[r].carried = req[r].carried
          /\ req'[r].at = req[r].at /\ req'[r].shape = req[r].shape
      BY <1>2
    <3> QED
      BY <3>1 DEF IInv, SessionsAreOfOneBrowser
  <2> QED
    BY <1>1, <2>1, <2>2 DEF SessionsAreOfOneBrowser
<1>6. UsersPassedTheGate'
  <2>1. ASSUME NEW u \in Request, IsUser(u)' PROVE IsUser(u)
    BY <1>0, <1>2, <2>1 DEF IsUser
  <2> QED
    BY <1>2, <2>1 DEF IInv, UsersPassedTheGate
<1>7. OneUserIsKnown' /\ CookiesComeFirst'
  <2>1. ASSUME NEW r \in Request
        PROVE  /\ req'[r].carried = req[r].carried /\ req'[r].user = req[r].user
               /\ req'[r].waiting = req[r].waiting /\ req'[r].heard = req[r].heard
               /\ req'[r].status = req[r].status /\ req'[r].stray = req[r].stray
    BY <1>2, <2>1, Zenon
  <2> HIDE DEF at
  <2>2. ASSUME NEW u \in Request, NEW b \in Browser, IsKnown(u, b)' PROVE IsKnown(u, b)
    <3>1. CASE cookie'[b] = u
      BY <1>0, <3>1 DEF IsKnown
    <3>2. CASE cookie'[b] # u
      <4>1. PICK q \in Request :
              /\ By[q] = b
              /\ \/ req'[q].carried = u
                 \/ q = u /\ req'[q].waiting /\ req'[q].carried = NoUser
                 \/ req'[q].user = u /\ req'[q].heard /\ req'[q].status = 202
        BY <2>2, <3>2, Zenon DEF IsKnown
      <4>2. /\ req'[q].carried = req[q].carried /\ req'[q].user = req[q].user
            /\ req'[q].waiting => req[q].waiting
            /\ req'[q].heard => req[q].heard
            /\ req'[q].status = req[q].status
        BY <2>1
      <4> QED
        <5>1. CASE req'[q].carried = u
          <6>1. By[q] = b /\ req[q].carried = u
            BY <4>1, <4>2, <5>1
          <6> QED
            BY <6>1, Zenon DEF IsKnown
        <5>2. CASE q = u /\ req'[q].waiting /\ req'[q].carried = NoUser
          <6>1. By[q] = b /\ q = u /\ req[q].waiting /\ req[q].carried = NoUser
            BY <4>1, <4>2, <5>2
          <6> QED
            BY <6>1, Zenon DEF IsKnown
        <5>3. CASE req'[q].user = u /\ req'[q].heard /\ req'[q].status = 202
          <6>1. By[q] = b /\ req[q].user = u /\ req[q].heard /\ req[q].status = 202
            BY <4>1, <4>2, <5>3
          <6> QED
            BY <6>1, Zenon DEF IsKnown
        <5> QED
          BY <4>1, <5>1, <5>2, <5>3
    <3> QED
      BY <3>1, <3>2
  <2>3. OneUserIsKnown'
    BY <2>1, <2>2, NobodyNewIsKnown
  <2>4. CookiesComeFirst'
    BY <1>0, <2>1 DEF IInv, CookiesComeFirst
  <2> QED
    BY <2>3, <2>4
<1>8. /\ EnsuredUsersAreThere' /\ PhotosStayPrivate'
      /\ OnlyFaultsAndRacesFailRequests' /\ LosersWereOvertaken'
  <2>1. EnsuredUsersAreThere'
    BY <1>2 DEF EnsuredUsersAreThere
  <2>2. PhotosStayPrivate'
    BY <1>2 DEF IInv, PhotosStayPrivate
  <2>3. ASSUME NEW q \in Request
        PROVE  /\ req'[q].carried = req[q].carried /\ req'[q].user = req[q].user
               /\ req'[q].status = req[q].status
               /\ req[q].spoiled => req'[q].spoiled
    BY <1>2
  <2>4. \A q \in Request : LostTheRace(q) => LostTheRace(q)'
    BY <2>3, RacesStayLost
  <2>5. OnlyFaultsAndRacesFailRequests'
    BY <2>3, <2>4 DEF IInv, OnlyFaultsAndRacesFailRequests
  <2>6. LosersWereOvertaken'
    BY <1>0 DEF LosersWereOvertaken
  <2> QED
    BY <2>1, <2>2, <2>5, <2>6
<1>9. IsFiniteSet(window)' /\ AdmissionsAreLimited'
  <2>1. ASSUME NEW b \in Browser PROVE Admitted(b)' \subseteq Admitted(b)
    BY <1>0, <1>2 DEF Admitted, Counted, TypeOK
  <2> QED
    BY <1>0, <2>1, WindowsMayShrink DEF IInv, AdmissionsAreLimited, Admitted
<1> QED
  BY <1>3, <1>4, <1>5, <1>6, <1>7, <1>8, <1>9 DEF IInv

(* A new window starts empty.                                              *)
LEMMA WindowEndKeepsIInv ==
  ASSUME IInv, NEW c \in Browser, WindowEnds(c)
  PROVE  IInv'
<1>1. UNCHANGED <<users, owner, cookie, req, faults>> /\ window' \subseteq window
  BY DEF WindowEnds
<1>2. /\ TypeOK' /\ AnswersComeLast' /\ SessionsAreOfOneBrowser' /\ UsersPassedTheGate'
      /\ OneUserIsKnown' /\ CookiesComeFirst' /\ EnsuredUsersAreThere'
      /\ LosersWereOvertaken' /\ PhotosStayPrivate' /\ OnlyFaultsAndRacesFailRequests'
  BY <1>1 DEF IInv, TypeOK, AnswersComeLast, UserOf, Caller, SessionsAreOfOneBrowser,
     UsersPassedTheGate, IsUser, OneUserIsKnown, IsKnown, CookiesComeFirst,
     EnsuredUsersAreThere, LosersWereOvertaken, LostTheRace, PhotosStayPrivate,
     OnlyFaultsAndRacesFailRequests
<1>3. IsFiniteSet(window)'
  BY <1>1, FS_Subset DEF IInv
<1>4. ASSUME NEW b \in Browser PROVE Admitted(b)' \subseteq Admitted(b)
  BY <1>1 DEF Admitted, Counted
<1> QED
  BY <1>2, <1>3, <1>4, WindowsMayShrink DEF IInv, AdmissionsAreLimited, Admitted

(* Nothing was sent yet.                                                   *)
LEMMA InitEstablishesIInv == Init => IInv
<1> SUFFICES ASSUME Init PROVE IInv
  OBVIOUS
<1>1. Unsent \in RequestState
  BY DEF Unsent, RequestState, Phase, Shape, Other, Status
<1>2. \A r \in Request : /\ req[r].at = "unsent" /\ req[r].carried = NoUser
                         /\ req[r].user = NoUser /\ req[r].status = 0
                         /\ req[r].shown = {} /\ ~req[r].waiting /\ ~req[r].heard
                         /\ ~req[r].stray
  BY DEF Init, Unsent
<1>3. TypeOK
  BY <1>1, FaultsAreBounded DEF Init, TypeOK
<1>4. /\ users = {} /\ window = {}
      /\ \A b \in Browser : cookie[b] = NoUser
      /\ \A r \in Request : owner[r] = NoUser
  BY DEF Init
<1>5. AnswersComeLast /\ SessionsAreOfOneBrowser /\ UsersPassedTheGate
  <2>1. AnswersComeLast
    <3>1. \A r \in Request : req[r].at \notin {"create", "limit", "parse", "insert",
                                              "handle", "remove"}
      BY <1>2
    <3>2. \A r \in Request : req[r].status # 202
      BY <1>2
    <3> QED
      BY <1>2, <3>1, <3>2, ZenonT(60) DEF AnswersComeLast
  <2>2. SessionsAreOfOneBrowser
    BY <1>2, <1>4 DEF SessionsAreOfOneBrowser
  <2>3. \A u \in Request : ~IsUser(u)
    BY <1>2, <1>4 DEF IsUser
  <2> QED
    BY <2>1, <2>2, <2>3 DEF UsersPassedTheGate
<1>6. /\ OneUserIsKnown /\ CookiesComeFirst /\ EnsuredUsersAreThere
      /\ LosersWereOvertaken /\ PhotosStayPrivate /\ OnlyFaultsAndRacesFailRequests
  <2>1. OneUserIsKnown
    <3>1. \A u \in Request, b \in Browser : ~IsKnown(u, b)
      BY <1>2, <1>4 DEF IsKnown
    <3> QED
      BY <3>1 DEF OneUserIsKnown
  <2>2. CookiesComeFirst
    BY <1>2, <1>4 DEF CookiesComeFirst
  <2>3. EnsuredUsersAreThere /\ LosersWereOvertaken
    BY <1>2 DEF EnsuredUsersAreThere, LosersWereOvertaken
  <2>4. PhotosStayPrivate
    BY <1>2 DEF PhotosStayPrivate
  <2>5. OnlyFaultsAndRacesFailRequests
    BY <1>2 DEF OnlyFaultsAndRacesFailRequests
  <2> QED
    BY <2>1, <2>2, <2>3, <2>4, <2>5
<1>7. IsFiniteSet(window) /\ AdmissionsAreLimited
  <2>1. \A b \in Browser : {r \in Counted(b, window) : req[r].status # TooManyRequests} = {}
    BY <1>4 DEF Counted
  <2> QED
    BY <1>4, <2>1, FS_EmptySet, UploadLimitIsPositive DEF AdmissionsAreLimited
<1> QED
  BY <1>3, <1>5, <1>6, <1>7 DEF IInv

(* Every step of the browsers, the server and the database.                *)
LEMMA NextKeepsIInv == IInv /\ [Next]_vars => IInv'
<1> SUFFICES ASSUME IInv, [Next]_vars PROVE IInv'
  OBVIOUS
<1>1. CASE \E r \in Request, shape \in Shape : Send(r, shape)
  BY <1>1, SendKeepsIInv
<1>2. CASE \E b \in Browser : WindowEnds(b)
  BY <1>2, WindowEndKeepsIInv
<1>3. CASE \E r \in Request : ServerStep(r) \/ ServerFault(r)
  BY <1>3, ServerKeepsIInv
<1>4. CASE \E r \in Request : Hear(r)
  BY <1>4, HearKeepsIInv
<1>5. CASE \E r \in Request : Abandon(r)
  BY <1>5, AbandonKeepsIInv
<1>6. CASE ResetDatabase
  BY <1>6, ResetKeepsIInv
<1>7. CASE UNCHANGED vars
  <2>1. TypeOK' /\ AnswersComeLast'
    BY <1>7 DEF vars, IInv, TypeOK, AnswersComeLast, UserOf, Caller
  <2>2. SessionsAreOfOneBrowser' /\ UsersPassedTheGate'
    BY <1>7 DEF vars, IInv, SessionsAreOfOneBrowser, UsersPassedTheGate, IsUser
  <2>3. OneUserIsKnown'
    BY <1>7, NobodyNewIsKnown DEF vars, IsKnown
  <2>4. CookiesComeFirst' /\ EnsuredUsersAreThere'
    BY <1>7 DEF vars, IInv, CookiesComeFirst, EnsuredUsersAreThere
  <2>5. LosersWereOvertaken' /\ PhotosStayPrivate' /\ OnlyFaultsAndRacesFailRequests'
    BY <1>7 DEF vars, IInv, LosersWereOvertaken, LostTheRace, Caller, PhotosStayPrivate,
       OnlyFaultsAndRacesFailRequests
  <2>6. IsFiniteSet(window)' /\ AdmissionsAreLimited'
    BY <1>7 DEF vars, IInv, AdmissionsAreLimited, Counted
  <2> QED
    BY <2>1, <2>2, <2>3, <2>4, <2>5, <2>6 DEF IInv
<1> QED
  BY <1>1, <1>2, <1>3, <1>4, <1>5, <1>6, <1>7 DEF Next

(* The invariant.                                                          *)
LEMMA IInvHolds == Spec => []IInv
<1> QED
  BY InitEstablishesIInv, NextKeepsIInv, PTL DEF Spec

-----------------------------------------------------------------------------
(* How requests go on. *)

(* The guards of the server's steps, with what their bodies look up: a     *)
(* refusal for the upload, or a photo that may have a row.                 *)
CanBeServed(r) ==
  \/ req[r].at \in {"limit", "session", "insert", "create"}
  \/ At(r, "parse") /\ req[r].shape.body \in DOMAIN RefusalOf \cup {"photo"}
  \/ At(r, "handle") /\ req[r].shape.op \in {"LIST", "HEALTH", "INVALID"}
  \/ At(r, "handle") /\ req[r].shape.op \in {"GET", "DELETE"} /\ req[r].shape.photo \in Request
  \/ At(r, "remove") /\ req[r].shape.photo \in Request

(* Whatever was sent and is not answered has a step to go on with.         *)
EveryRequestHasAStep ==
  \A r \in Request : req[r].at \notin {"unsent", "answered"} => CanBeServed(r)

(* Calls before the answer, at most.                                       *)
StepsLeft(phase) == CASE phase = "unsent" -> 7
                      [] phase = "limit" -> 6
                      [] phase = "parse" -> 5
                      [] phase = "session" -> 4
                      [] phase = "insert" -> 3
                      [] phase = "create" -> 2
                      [] phase = "handle" -> 2
                      [] phase = "remove" -> 1
                      [] phase = "answered" -> 0

(* No request goes back a step, and its answer is its last word.           *)
Goings(r) ==
  /\ req'[r].at # req[r].at => StepsLeft(req'[r].at) < StepsLeft(req[r].at)
  /\ req[r].at = "answered" => /\ req'[r].status = req[r].status
                               /\ req'[r].shown = req[r].shown
                               /\ req'[r].user = req[r].user

(* So every request takes at most seven steps, whatever fails beside it.     *)
RequestsGoForward == [][\A r \in Request : Goings(r)]_vars

(* A photo's row is made by its own upload's insert, and goes by a DELETE  *)
(* of the browser that uploaded it, or with the whole database.            *)
RowChangesHands(p) ==
  \/ owner[p] = NoUser /\ At(p, "create") /\ owner'[p] = req[p].user
  \/ /\ owner'[p] = NoUser
     /\ \E r \in Request : /\ By[r] = By[p]
                           /\ At(r, "remove")
                           /\ req[r].shape.photo = p
                           /\ req'[r].at = "answered"
  \/ users' = {}

(* Nobody else's request and no failure changes whose a photo is.          *)
OnlyOwnersChangeTheirPhotos ==
  [][\A p \in Request : owner'[p] # owner[p] => RowChangesHands(p)]_vars

(* What a step does to one request.                                        *)
LEMMA StepsOfARequest ==
  ASSUME IInv, [Next]_vars, NEW r \in Request
  PROVE  \/ At(r, "unsent") /\ req'[r].at \in {"limit", "handle"}
         \/ \E x : IsServed(r, x) /\ Effect(r, x)
         \/ /\ req'[r].at = req[r].at
            /\ req'[r].status = req[r].status
            /\ req'[r].shown = req[r].shown
            /\ req'[r].user = req[r].user
<1> DEFINE Same == /\ req'[r].at = req[r].at
                   /\ req'[r].status = req[r].status
                   /\ req'[r].shown = req[r].shown
                   /\ req'[r].user = req[r].user
<1>0. TypeOK /\ req \in [Request -> RequestState]
  BY DEF IInv, TypeOK
<1>1. ASSUME NEW q \in Request, NEW shape \in Shape, Send(q, shape)
      PROVE  \/ Same
             \/ At(r, "unsent") /\ req'[r].at \in {"limit", "handle"}
  <2> DEFINE sent == [Unsent EXCEPT
                        !.at = IF shape.op = "POST" THEN "limit" ELSE "handle",
                        !.shape = shape, !.carried = cookie[By[q]],
                        !.waiting = shape.op = "POST",
                        !.stray = IsStray(q, shape)]
  <2>1. req' = [req EXCEPT ![q] = sent] /\ At(q, "unsent")
    BY <1>1 DEF Send
  <2>2. sent.at \in {"limit", "handle"}
    BY DEF Unsent
  <2> HIDE DEF sent
  <2> QED
    BY <1>0, <2>1, <2>2 DEF At
<1>2. ASSUME NEW q \in Request, ServerStep(q) \/ ServerFault(q)
      PROVE  Same \/ \E x : IsServed(r, x) /\ Effect(r, x)
  <2>1. PICK x : IsServed(q, x) /\ Effect(q, x)
    BY <1>2, EffectsOfServer DEF IInv
  <2>2. CASE q = r
    BY <2>1, <2>2
  <2>3. CASE q # r
    BY <1>0, <2>1, <2>3 DEF IsServed, Becomes
  <2> QED
    BY <2>2, <2>3
<1>3. ASSUME NEW q \in Request, Hear(q) \/ Abandon(q)
      PROVE  Same
  <2>1. PICK x : Becomes(q, x) /\ SameBut(q, x) /\ x.at = req[q].at /\ x.user = req[q].user
    BY <1>0, <1>3, Hearing, Abandoning
  <2> QED
    BY <1>0, <2>1 DEF Becomes, SameBut
<1>4. CASE ResetDatabase
  BY <1>0, <1>4 DEF ResetDatabase, RequestState
<1>5. CASE (\E b \in Browser : WindowEnds(b)) \/ UNCHANGED vars
  BY <1>5 DEF WindowEnds, vars
<1> HIDE DEF Same
<1>6. \/ Same
      \/ At(r, "unsent") /\ req'[r].at \in {"limit", "handle"}
      \/ \E x : IsServed(r, x) /\ Effect(r, x)
  BY <1>1, <1>2, <1>3, <1>4, <1>5, Zenon DEF Next, Same
<1> QED
  BY <1>6 DEF Same

(* A step of the server goes on, and from no answer.                       *)
LEMMA ServingGoesForward ==
  ASSUME NEW r \in Request, NEW x, req'[r] = x, Effect(r, x)
  PROVE  StepsLeft(x.at) < StepsLeft(req[r].at) /\ ~At(r, "answered")
BY DEF Effect, Limited, Received, Ensured, Created, Handled, Found, Removed, StepsLeft, At

(* Whom a step of the server gives or takes a photo.                       *)
LEMMA ServingChangesRows ==
  ASSUME IInv, NEW r \in Request, NEW x, IsServed(r, x), Effect(r, x),
         NEW p \in Request, owner'[p] # owner[p]
  PROVE  RowChangesHands(p)
<1>1. owner \in [Request -> Request \cup {NoUser}] /\ req'[r] = x
  BY DEF IInv, TypeOK, IsServed, Becomes
<1>2. CASE Created(r, x)
  <2>1. p = r /\ owner'[p] = req[p].user
    BY <1>1, <1>2 DEF Created, WithPhoto
  <2>2. owner[r] # NoUser => owner[r] = req[r].user
    BY DEF IInv, SessionsAreOfOneBrowser
  <2> QED
    BY <1>2, <2>1, <2>2 DEF Created, RowChangesHands, At
<1>3. CASE Removed(r, x)
  <2>1. req[r].shape.photo = p /\ owner'[p] = NoUser
    BY <1>1, <1>3 DEF Removed, Without
  <2>2. By[p] = By[r]
    BY <1>3, <2>1 DEF Removed, IInv, SessionsAreOfOneBrowser
  <2> QED
    BY <1>1, <1>3, <2>1, <2>2 DEF Removed, RowChangesHands, At
<1> QED
  BY <1>2, <1>3 DEF Effect, Limited, Received, Ensured, Handled, Found

-----------------------------------------------------------------------------
(* Sessions, as each browser sees its own. *)

Strays(b) == {r \in Request : By[r] = b /\ req[r].stray}

Session(b) == INSTANCE BrowserSession WITH cookie <- cookie[b], open <- OpenUploads(b),
                                           strays <- Strays(b)

(* What ends no upload and begins none is not seen.                        *)
LEMMA WaitingUnchanged ==
  ASSUME NEW b \in Browser, cookie' = cookie,
         \A r \in Request : req'[r].waiting = req[r].waiting /\ req'[r].stray = req[r].stray
  PROVE  UNCHANGED Session(b)!vars
BY DEF Session!vars, OpenUploads, Strays

(* Sending.                                                                *)
LEMMA SendBegins ==
  ASSUME IInv, NEW b \in Browser, NEW r \in Request, NEW shape \in Shape, Send(r, shape)
  PROVE  [Session(b)!Next]_(Session(b)!vars)
<1>s. PICK x : IsSent(r, shape, x)
  BY SentRequest DEF IInv
<1>1. /\ req' = [req EXCEPT ![r] = x]
      /\ x.carried = cookie[By[r]]
      /\ x.waiting <=> shape.op = "POST"
      /\ x.stray <=> IsStray(r, shape)
  BY <1>s DEF IsSent
<1>2. /\ cookie' = cookie
      /\ \A q \in Request : req'[q] = IF q = r THEN x ELSE req[q]
      /\ ~req[r].waiting /\ ~req[r].stray
  <2>1. req[r].at = "unsent" /\ cookie' = cookie
    BY DEF Send, At, Unchanged
  <2> QED
    BY <1>1, <2>1 DEF IInv, TypeOK, AnswersComeLast
<1>3. CASE By[r] = b /\ shape.op = "POST"
  <2>1. OpenUploads(b)' = OpenUploads(b) \cup {r} /\ r \notin OpenUploads(b)
    <3>1. \A q \in Request : /\ req'[q].waiting => q = r \/ req[q].waiting
                             /\ req[q].waiting => q # r /\ req'[q].waiting
      BY <1>2
    <3>2. req'[r].waiting
      BY <1>1, <1>2, <1>3
    <3> QED
      BY <1>2, <1>3, <3>1, <3>2 DEF OpenUploads
  <2>2. Strays(b)' = Strays(b) \cup (IF x.stray THEN {r} ELSE {})
    BY <1>1, <1>2, <1>3 DEF Strays
  <2>3. ASSUME cookie[b] = NoUser, NEW u \in OpenUploads(b)' \ Strays(b)'
        PROVE  u \in Request /\ IsKnown(u, b)' /\ ~req'[u].stray
    <3>1. /\ u \in Request /\ By[u] = b /\ req'[u].waiting /\ ~req'[u].stray
      BY <2>3 DEF OpenUploads, Strays
    <3>2. req'[u].carried = NoUser
      BY <1>1, <1>2, <2>3, <3>1 DEF IInv, CookiesComeFirst
    <3> QED
      BY <3>1, <3>2 DEF IsKnown
  <2>4. cookie[b] = NoUser => \A u, v \in OpenUploads(b)' \ Strays(b)' : u = v
    BY <2>3, SendKeepsIInv DEF IInv, OneUserIsKnown
  <2>5. \E t \in SUBSET (OpenUploads(b)' \ OpenUploads(b)) : Strays(b)' = Strays(b) \cup t
    BY <2>1, <2>2
  <2>6. OpenUploads(b) \subseteq OpenUploads(b)' /\ UNCHANGED cookie[b]
    BY <1>2, <2>1
  <2>7. Session(b)!Begin
    BY <2>4, <2>5, <2>6 DEF Session!Begin
  <2> QED
    BY <2>7 DEF Session!Next
<1>4. CASE ~(By[r] = b /\ shape.op = "POST")
  <2>1. OpenUploads(b)' = OpenUploads(b) /\ Strays(b)' = Strays(b)
    BY <1>1, <1>2, <1>4 DEF OpenUploads, Strays, IsStray
  <2> QED
    BY <1>2, <2>1 DEF Session!vars
<1> QED
  BY <1>3, <1>4

(* The wait of a browser for an upload ends.                               *)
LEMMA WaitingEnds ==
  ASSUME IInv, NEW r \in Request, NEW x, Becomes(r, x), req[r].waiting, ~x.waiting
  PROVE  /\ OpenUploads(By[r])' = OpenUploads(By[r]) \ {r}
         /\ \A b \in Browser : b # By[r] => OpenUploads(b)' = OpenUploads(b)
         /\ r \in OpenUploads(By[r])
         /\ \A b \in Browser : Strays(b)' = Strays(b)
BY DEF IInv, TypeOK, Becomes, OpenUploads, Strays

(* Hearing of an upload, or giving it up.                                  *)
LEMMA WaitingEndsSeen ==
  ASSUME IInv, NEW b \in Browser, NEW r \in Request, Hear(r) \/ Abandon(r)
  PROVE  [Session(b)!Next]_(Session(b)!vars)
<1>1. PICK x : Becomes(r, x) /\ ~x.waiting
  BY Hearing, Abandoning DEF IInv
<1>2. req[r].waiting /\ By[r] \in Browser
  BY DEF Hear, Abandon
<1>3. /\ OpenUploads(By[r])' = OpenUploads(By[r]) \ {r}
      /\ b # By[r] => OpenUploads(b)' = OpenUploads(b)
      /\ r \in OpenUploads(By[r])
      /\ Strays(b)' = Strays(b)
  BY <1>1, <1>2, WaitingEnds
<1>4. CASE b = By[r] /\ Hear(r) /\ SetsCookie(r)
  <2>1. cookie[b] = NoUser \/ cookie[b] \in Strays(b) \/ r \in Strays(b)
    <3>1. IsKnown(r, b) /\ cookie[b] # r
      BY <1>2, <1>4 DEF SetsCookie, Caller, IsKnown, IInv, CookiesComeFirst
    <3>2. cookie[b] # NoUser => /\ cookie[b] \in Request /\ IsKnown(cookie[b], b)
                                /\ By[cookie[b]] = b
      BY DEF IsKnown, IInv, TypeOK, SessionsAreOfOneBrowser
    <3> QED
      BY <1>4, <3>1, <3>2 DEF IInv, OneUserIsKnown, Strays
  <2>2. req[r].user = r
    BY <1>4 DEF SetsCookie, UserOf, IInv, AnswersComeLast
  <2>3. cookie'[b] = r
    BY <1>2, <1>4, <2>2 DEF Hear, IInv, TypeOK
  <2>4. Session(b)!Identify(r)
    BY <1>3, <1>4, <2>1, <2>3 DEF Session!Identify
  <2> QED
    BY <1>3, <1>4, <2>4 DEF Session!Next
<1>5. CASE b = By[r] /\ ~(Hear(r) /\ SetsCookie(r))
  <2>1. cookie' = cookie
    BY <1>5 DEF Hear, Abandon, Unchanged
  <2>2. Session(b)!End(r)
    BY <1>3, <1>5, <2>1 DEF Session!End
  <2> QED
    BY <1>3, <1>5, <2>2 DEF Session!Next
<1>6. CASE b # By[r]
  <2>1. cookie'[b] = cookie[b]
    BY <1>2, <1>6 DEF Hear, Abandon, Unchanged, IInv, TypeOK
  <2> QED
    BY <1>3, <1>6, <2>1 DEF Session!vars
<1> QED
  BY <1>4, <1>5, <1>6

(* Every step, for every browser.                                          *)
LEMMA StepsOfASession ==
  ASSUME IInv, [Next]_vars, NEW b \in Browser
  PROVE  [Session(b)!Next]_(Session(b)!vars)
<1>1. ASSUME NEW r \in Request, ServerStep(r) \/ ServerFault(r)
      PROVE  UNCHANGED Session(b)!vars
  <2>1. PICK x : IsServed(r, x) /\ Effect(r, x)
    BY <1>1, EffectsOfServer DEF IInv
  <2>2. cookie' = cookie
    BY <2>1 DEF Effect, Limited, Received, Ensured, Created, Handled, Found, Removed
  <2>3. \A q \in Request : req'[q].waiting = req[q].waiting /\ req'[q].stray = req[q].stray
    BY <2>1 DEF IsServed, Becomes, IInv, TypeOK
  <2> QED
    BY <2>2, <2>3, WaitingUnchanged
<1>2. CASE ResetDatabase
  <2>1. \A q \in Request : req'[q].waiting = req[q].waiting /\ req'[q].stray = req[q].stray
    BY <1>2 DEF ResetDatabase, IInv, TypeOK, RequestState
  <2> QED
    BY <1>2, <2>1, WaitingUnchanged DEF ResetDatabase
<1>3. CASE (\E c \in Browser : WindowEnds(c)) \/ UNCHANGED vars
  BY <1>3, WaitingUnchanged DEF WindowEnds, vars
<1> QED
  BY <1>1, <1>2, <1>3, SendBegins, WaitingEndsSeen DEF Next

-----------------------------------------------------------------------------
(* The theorems. *)

(* Every status, session, count and phase stays within its type.           *)
THEOREM ApiTypeCorrect == Spec => []TypeOK
<1>1. IInv => TypeOK
  BY DEF IInv
<1> QED
  BY <1>1, IInvHolds, PTL

(* image.service.ts: "Every query is scoped by userId".  No browser is     *)
(* ever shown, or deletes, a photo another browser uploaded, whoever       *)
(* uploads, lists and deletes at the same time.                            *)
THEOREM PhotosArePrivate == Spec => []PhotosStayPrivate
<1>1. IInv => PhotosStayPrivate
  BY DEF IInv
<1> QED
  BY <1>1, IInvHolds, PTL

(* A browser that heard its upload was accepted has the cookie of the user *)
(* the photo belongs to, for as long as the photo has a row; but for the   *)
(* users of uploads that were sent beside another without a session.       *)
THEOREM AcceptedPhotosCanBeReached == Spec => []AcceptedPhotosAreReachable
<1>1. IInv => AcceptedPhotosAreReachable
  <2>1. ASSUME IInv, NEW r \in Request, req[r].heard, req[r].status = 202, owner[r] # NoUser
        PROVE  \/ owner[r] = cookie[By[r]]
               \/ \E u \in {owner[r], cookie[By[r]]} \ {NoUser} : req[u].stray
    <3>1. By[r] \in Browser /\ cookie[By[r]] # NoUser /\ owner[r] = req[r].user
      BY <2>1 DEF IInv, SessionsAreOfOneBrowser, CookiesComeFirst
    <3>2. cookie[By[r]] \in Request /\ owner[r] \in Request
      BY <2>1, <3>1 DEF IInv, TypeOK
    <3>3. IsKnown(cookie[By[r]], By[r]) /\ IsKnown(owner[r], By[r])
      BY <2>1, <3>1 DEF IsKnown
    <3>4. \/ owner[r] = cookie[By[r]]
          \/ req[owner[r]].stray \/ req[cookie[By[r]]].stray
      <4>1. OneUserIsKnown
        BY <2>1 DEF IInv
      <4> QED
        BY <3>1, <3>2, <3>3, <4>1, Zenon DEF OneUserIsKnown
    <3> QED
      BY <2>1, <3>1, <3>4
  <2> QED
    BY <2>1 DEF AcceptedPhotosAreReachable
<1> QED
  BY <1>1, IInvHolds, PTL

(* images.router.ts: "The user is created only now, after the upload       *)
(* passed the gate".  A request answered 4xx has made no user, no photo.   *)
THEOREM RefusalsLeaveNothing == Spec => []RefusedUploadsLeaveNothing
<1>1. ASSUME IInv, NEW r \in Request, req[r].status \in 400 .. 499
      PROVE  r \notin users /\ owner[r] = NoUser
  <2>1. req[r].status \notin {202, InternalServerError} /\ req[r].status # 0
    BY <1>1 DEF InternalServerError
  <2>2. req[r].at = "answered"
    BY <1>1, <2>1 DEF IInv, AnswersComeLast
  <2>3. r \notin users
    BY <1>1, <2>1, <2>2 DEF IInv, UsersPassedTheGate, IsUser
  <2>4. req[r].user = NoUser
    BY <1>1, <2>1, <2>2 DEF IInv, AnswersComeLast
  <2> QED
    BY <1>1, <2>3, <2>4 DEF IInv, SessionsAreOfOneBrowser
<1>2. IInv => RefusedUploadsLeaveNothing
  BY <1>1 DEF RefusedUploadsLeaveNothing
<1> QED
  BY <1>2, IInvHolds, PTL

(* user.repository.ts: "a valid cookie that outlived a database reset      *)
(* keeps working", as far as it does: no request is answered 5xx unless    *)
(* one of its own calls failed, the reset came while it was handled, or    *)
(* another upload of the session re-created their user just before it.     *)
THEOREM RequestsFailForACause == Spec => []OnlyFaultsAndRacesFailRequests
<1>1. IInv => OnlyFaultsAndRacesFailRequests
  BY DEF IInv
<1> QED
  BY <1>1, IInvHolds, PTL

(* rate-limit.ts: whatever the limit, and however many uploads are under   *)
(* way at once, no window admits more of a client's than the limit.        *)
THEOREM WindowsAdmitTheLimit == Spec => []AdmissionsAreLimited
<1>1. IInv => AdmissionsAreLimited
  BY DEF IInv
<1> QED
  BY <1>1, IInvHolds, PTL

(* Each error path goes on to errorHandler, no phase without a handler: a  *)
(* request that was sent and is not answered always has a step to take,    *)
(* so that, as far as guards go, none hangs.                               *)
THEOREM RequestsHaveAStep == Spec => []EveryRequestHasAStep
<1>1. ASSUME IInv, NEW r \in Request, req[r].at \notin {"unsent", "answered"}
      PROVE  CanBeServed(r)
  <2>1. req[r].at \in Phase /\ req[r].shape \in Shape
    BY <1>1 DEF IInv, TypeOK, RequestState
  <2>2. CASE req[r].at \in {"limit", "session", "insert", "create"}
    BY <2>2 DEF CanBeServed
  <2>3. CASE req[r].at = "parse"
    <3>1. req[r].shape.body \in Body
      BY <1>1, <2>1, <2>3, UploadHasBody DEF IInv, AnswersComeLast
    <3>2. DOMAIN RefusalOf = Body \ {"photo"}
      BY DEF RefusalOf
    <3> QED
      BY <2>3, <3>1, <3>2 DEF CanBeServed, At
  <2>4. CASE req[r].at = "handle"
    <3>1. req[r].shape.op # "POST"
      BY <1>1, <2>4 DEF IInv, AnswersComeLast
    <3>2. req[r].shape.op \in {"LIST", "HEALTH", "INVALID", "GET", "DELETE"}
      BY <2>1, <3>1 DEF Shape, Upload, OnPhoto, Other
    <3> QED
      BY <2>1, <2>4, <3>2, OpHasPhoto DEF CanBeServed, At
  <2>5. CASE req[r].at = "remove"
    <3>1. req[r].shape.photo \in Request
      BY <1>1, <2>1, <2>5, OpHasPhoto DEF IInv, AnswersComeLast
    <3> QED
      BY <2>5, <3>1 DEF CanBeServed, At
  <2> QED
    BY <1>1, <2>1, <2>2, <2>3, <2>4, <2>5 DEF Phase
<1>2. IInv => EveryRequestHasAStep
  BY <1>1 DEF EveryRequestHasAStep
<1> QED
  BY <1>2, IInvHolds, PTL

(* A request goes through the chain once, forwards, and its answer is      *)
(* final: a client that is given up, a failed call or a database reset     *)
(* makes no second one.                                                    *)
THEOREM RequestsEnd == Spec => RequestsGoForward
<1>1. ASSUME IInv, [Next]_vars, NEW r \in Request
      PROVE  Goings(r)
  <2>1. CASE At(r, "unsent") /\ req'[r].at \in {"limit", "handle"}
    BY <2>1 DEF Goings, At, StepsLeft
  <2>2. ASSUME NEW x, IsServed(r, x), Effect(r, x)
        PROVE  Goings(r)
    <3>1. req'[r] = x
      BY <1>1, <2>2 DEF IInv, TypeOK, IsServed, Becomes
    <3> QED
      BY <2>2, <3>1, ServingGoesForward DEF Goings, At
  <2>3. CASE /\ req'[r].at = req[r].at
             /\ req'[r].status = req[r].status
             /\ req'[r].shown = req[r].shown
             /\ req'[r].user = req[r].user
    BY <2>3 DEF Goings
  <2> QED
    BY <1>1, <2>1, <2>2, <2>3, StepsOfARequest
<1>2. IInv /\ [Next]_vars => [\A r \in Request : Goings(r)]_vars
  BY <1>1
<1> QED
  BY <1>2, IInvHolds, PTL DEF Spec, RequestsGoForward

(* image.service.ts: no upload, delete or failure of another browser gives *)
(* a photo to somebody else or takes it away.                              *)
THEOREM PhotosAreTheirOwners == Spec => OnlyOwnersChangeTheirPhotos
<1>1. ASSUME IInv, [Next]_vars, NEW p \in Request, owner'[p] # owner[p]
      PROVE  RowChangesHands(p)
  <2>1. ASSUME NEW r \in Request, ServerStep(r) \/ ServerFault(r)
        PROVE  RowChangesHands(p)
    <3>1. PICK x : IsServed(r, x) /\ Effect(r, x)
      BY <1>1, <2>1, EffectsOfServer DEF IInv
    <3> QED
      BY <1>1, <3>1, ServingChangesRows
  <2>2. CASE ResetDatabase
    BY <2>2 DEF ResetDatabase, RowChangesHands
  <2> QED
    BY <1>1, <2>1, <2>2 DEF Next, Send, WindowEnds, Hear, Abandon, Unchanged, vars
<1>2. IInv /\ [Next]_vars => [\A p \in Request : owner'[p] # owner[p] => RowChangesHands(p)]_vars
  BY <1>1
<1> QED
  BY <1>2, IInvHolds, PTL DEF Spec, OnlyOwnersChangeTheirPhotos

(* useUploads.ts and session.ts, from the side of the API: for every       *)
(* browser, whatever the others, faults and database resets do, its        *)
(* uploads and its cookie are those of a BrowserSession.                   *)
THEOREM ApiImplementsSessions ==
  ASSUME NEW b \in Browser
  PROVE  Spec => Session(b)!Spec
<1>1. Init => Session(b)!Init
  BY DEF Init, Session!Init, OpenUploads, Strays, Unsent
<1>2. IInv /\ [Next]_vars => [Session(b)!Next]_(Session(b)!vars)
  BY StepsOfASession
<1> QED
  BY <1>1, <1>2, IInvHolds, PTL DEF Spec, Session!Spec

(* A session, once a browser has it, is never replaced by that of another  *)
(* user, unless one of the two was made by a stray: whatever answers are   *)
(* still to come.                                                          *)
KeepsSession(b) ==
  cookie[b] # NoUser /\ cookie'[b] # cookie[b] =>
    req[cookie[b]].stray \/ req[cookie'[b]].stray

SessionsAreKept == [][\A b \in Browser : KeepsSession(b)]_vars

(* The step of a session that changes its cookie is its first, or a        *)
(* stray's.                                                                *)
THEOREM SessionsLast == Spec => SessionsAreKept
<1>1. ASSUME IInv, [Next]_vars, NEW b \in Browser
      PROVE  KeepsSession(b)
  <2>1. cookie[b] = cookie'[b] \/ \E r \in OpenUploads(b) : Session(b)!Identify(r)
    BY <1>1, StepsOfASession DEF Session!Next, Session!Begin, Session!End, Session!vars
  <2> QED
    BY <2>1 DEF Session!Identify, KeepsSession, Strays
<1>2. IInv /\ [Next]_vars => [\A b \in Browser : KeepsSession(b)]_vars
  BY <1>1
<1> QED
  BY <1>2, IInvHolds, PTL DEF Spec, SessionsAreKept
=============================================================================
