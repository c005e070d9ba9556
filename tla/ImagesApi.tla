------------------------------ MODULE ImagesApi ------------------------------
(***************************************************************************)
(* The HTTP side of the API, apps/api/src/app.ts and src/http: the chain a *)
(* request goes through (route, rate limit, multipart parser, upload gate, *)
(* session, service) and the one answer it ends in, for browsers that send *)
(* several requests at a time, give them up or lose their answers.         *)
(*                                                                         *)
(* A request carries the cookie its browser has when it is sent; the only  *)
(* user ids in a cookie are those the server signed.  A user is known by   *)
(* the request that created it, and so is a photo.  What create() and      *)
(* delete() do with stored objects is PhotoStorage's.                      *)
(***************************************************************************)
EXTENDS Integers, FiniteSets

CONSTANTS
  Browser,       (* each at an address of its own                           *)
  Request,       (* numbered in the order they are sent                     *)
  By,            (* the browser that sends each                             *)
  UploadLimit,   (* RATE_LIMIT.UPLOAD_MAX_REQUESTS_PER_WINDOW               *)
  MaxFaults      (* bound: failed or unanswered calls, database resets      *)

ASSUME RequestsAreNumbered == Request \subseteq Nat \ {0} /\ By \in [Request -> Browser]
ASSUME UploadLimitIsPositive == UploadLimit \in Nat \ {0}
ASSUME FaultsAreBounded == MaxFaults \in Nat

VARIABLES
  users,      (* the users table                                            *)
  owner,      (* user_id of each photo; NoUser if it has no row             *)
  window,     (* uploads the limiter has counted in the current window      *)
  cookie,     (* the user id in each browser's cookie                       *)
  req,        (* each request and how far it has come                       *)
  faults

vars == <<users, owner, window, cookie, req, faults>>

(* null *)
NoUser == 0

(* The statuses of the HttpErrors. *)
BadRequest == 400
NotFound == 404
PayloadTooLarge == 413
UnsupportedMediaType == 415
TooManyRequests == 429
InternalServerError == 500
ServiceUnavailable == 503

ErrorStatus == {BadRequest, NotFound, PayloadTooLarge, UnsupportedMediaType,
                TooManyRequests, InternalServerError, ServiceUnavailable}

(* What a multipart body turns out to be; one without the file is malformed. *)
Body == {"photo", "too large", "malformed", "not an image"}

Upload(body) == [op |-> "POST", body |-> body]
OnPhoto(op, p) == [op |-> op, photo |-> p]
Other == [op : {"LIST", "HEALTH", "INVALID"}]

Shape == {Upload(b) : b \in Body} \cup Other
         \cup {OnPhoto(op, p) : op \in {"GET", "DELETE"}, p \in Request}

Phase == {"unsent", "limit", "parse", "session", "insert", "create", "handle",
          "remove", "answered"}

(* `waiting`: the browser still waits for the answer, for an upload; what  *)
(* answers the others changes nothing in it.  `spoiled`: a call of the     *)
(* request failed, or the database was reset under it.  `stray`, which is  *)
(* history: an upload sent without a session while another was waited for. *)
Unsent == [at |-> "unsent", shape |-> [op |-> "INVALID"],
           carried |-> NoUser, user |-> NoUser, status |-> 0, shown |-> {},
           waiting |-> FALSE, heard |-> FALSE, spoiled |-> FALSE, stray |-> FALSE]

Init == /\ users = {}
        /\ owner = [r \in Request |-> NoUser]
        /\ window = {}
        /\ cookie = [b \in Browser |-> NoUser]
        /\ req = [r \in Request |-> Unsent]
        /\ faults = 0

-----------------------------------------------------------------------------
At(r, phase) == req[r].at = phase
Is(r, op) == req[r].shape.op = op

(* getUserId: none but the server can sign a cookie. *)
Caller(r) == req[r].carried

Goes(r, phase) == req' = [req EXCEPT ![r].at = phase]

(* A response, or an error that errorHandler turns into one. *)
Answers(r, status, shown) ==
  req' = [req EXCEPT ![r].at = "answered", ![r].status = status, ![r].shown = shown]

(* toHttpError: whatever is not an HttpError is answered 500. *)
Fails(r, status) ==
  req' = [req EXCEPT ![r].at = "answered", ![r].status = status, ![r].spoiled = TRUE]

Fault == /\ faults < MaxFaults
         /\ faults' = faults + 1

Unchanged == UNCHANGED <<users, owner, window, cookie, faults>>

-----------------------------------------------------------------------------
(* The browsers. *)

OpenUploads(b) == {r \in Request : By[r] = b /\ req[r].waiting}

(* The web app sends one upload at a time until it has a session.  A       *)
(* second tab does not, nor does its own queue always (UploadQueue).       *)
IsStray(r, shape) ==
  /\ shape.op = "POST"
  /\ cookie[By[r]] = NoUser
  /\ \E q \in OpenUploads(By[r]) : ~req[q].stray

Send(r, shape) ==
  /\ At(r, "unsent")
  /\ \A q \in Request : q < r => ~At(q, "unsent")
  /\ shape.op \in {"GET", "DELETE"} => Is(shape.photo, "POST")
  /\ req' = [req EXCEPT ![r] = [Unsent EXCEPT
               !.at = IF shape.op = "POST" THEN "limit" ELSE "handle",
               !.shape = shape, !.carried = cookie[By[r]],
               !.waiting = shape.op = "POST", !.stray = IsStray(r, shape)]]
  /\ Unchanged

(* ensureUserId has put a Set-Cookie header on the response, whatever the  *)
(* response became after that.                                             *)
SetsCookie(r) == Caller(r) = NoUser /\ req[r].user # NoUser

Hear(r) == /\ At(r, "answered")
           /\ req[r].waiting
           /\ cookie' = IF SetsCookie(r) THEN [cookie EXCEPT ![By[r]] = req[r].user]
                        ELSE cookie
           /\ req' = [req EXCEPT ![r].waiting = FALSE, ![r].heard = TRUE]
           /\ UNCHANGED <<users, owner, window, faults>>

(* Aborted, or its connection lost; the server may not notice. *)
Abandon(r) == /\ req[r].waiting
              /\ req' = [req EXCEPT ![r].waiting = FALSE]
              /\ Unchanged

-----------------------------------------------------------------------------
(* POST /api/images. *)

Counted(b, w) == {r \in w : By[r] = b}

(* Mutant: one upload too many. *)
IsOneOverLimit(b, w) == Cardinality(Counted(b, w)) > UploadLimit + 1

IsOverLimit(b, w) == Cardinality(Counted(b, w)) > UploadLimit

(* createUploadRateLimiter: refused requests count as well. *)
RateLimit(r) == /\ At(r, "limit")
                /\ window' = window \cup {r}
                /\ IF IsOverLimit(By[r], window') THEN Answers(r, TooManyRequests, {})
                   ELSE Goes(r, "parse")
                /\ UNCHANGED <<users, owner, cookie, faults>>

(* A minute after a client's first upload. *)
WindowEnds(b) == /\ Counted(b, window) # {}
                 /\ window' = window \ Counted(b, window)
                 /\ UNCHANGED <<users, owner, cookie, req, faults>>

(* toUploadError of the parser's errors; then readUploadedImage. *)
RefusalOf == [b \in Body \ {"photo"} |->
                CASE b = "too large" -> PayloadTooLarge
                  [] b = "malformed" -> BadRequest
                  [] b = "not an image" -> UnsupportedMediaType]

(* Mutant: the parser's errors are not handed on. *)
ReceiveSoundUpload(r) ==
  /\ At(r, "parse")
  /\ req[r].shape.body \notin {"too large", "malformed"}
  /\ IF req[r].shape.body = "photo" THEN Goes(r, "session")
     ELSE Answers(r, RefusalOf[req[r].shape.body], {})
  /\ Unchanged

(* Mutant: the user is ensured before the file is looked at. *)
ReceiveUploadOfUser(r) ==
  /\ At(r, "parse")
  /\ users' = users \cup {IF Caller(r) = NoUser THEN r ELSE Caller(r)}
  /\ IF req[r].shape.body = "photo" THEN Goes(r, "session")
     ELSE Answers(r, RefusalOf[req[r].shape.body], {})
  /\ UNCHANGED <<owner, window, cookie, faults>>

ReceiveUpload(r) ==
  /\ At(r, "parse")
  /\ IF req[r].shape.body = "photo" THEN Goes(r, "session")
     ELSE Answers(r, RefusalOf[req[r].shape.body], {})
  /\ Unchanged

(* The user of the cookie, or a new one. *)
UserOf(r) == IF Caller(r) = NoUser THEN r ELSE Caller(r)

(* Mutant: the user of a cookie is taken to be there. *)
AnyCookie(r) == TRUE

HasUserRow(r) == Caller(r) \in users

HasUser(r) == req' = [req EXCEPT ![r].at = "create", ![r].user = UserOf(r)]

(* Mutant: a new user for each upload, cookie or not.                      *)
EnsureNewUser(r) == /\ At(r, "session")
                    /\ users' = users \cup {r}
                    /\ req' = [req EXCEPT ![r].at = "create", ![r].user = r]
                    /\ UNCHANGED <<owner, window, cookie, faults>>

(* ensureUserId: without a cookie, create.  With one, ensureExists, whose  *)
(* upsert updates nothing: Prisma makes a query of it and, for a user that *)
(* is not there, an insert.                                                *)
EnsureUser(r) == /\ At(r, "session")
                 /\ \/ /\ Caller(r) = NoUser
                       /\ users' = users \cup {UserOf(r)}
                       /\ HasUser(r)
                    \/ /\ Caller(r) # NoUser
                       /\ users' = users
                       /\ IF HasUserRow(r) THEN HasUser(r) ELSE Goes(r, "insert")
                 /\ UNCHANGED <<owner, window, cookie, faults>>

(* By now another upload of the session may have inserted it: a violation  *)
(* of the primary key, which nothing handles.                              *)
InsertUser(r) == /\ At(r, "insert")
                 /\ users' = users \cup {Caller(r)}
                 /\ IF Caller(r) \in users THEN Answers(r, InternalServerError, {})
                    ELSE HasUser(r)
                 /\ UNCHANGED <<owner, window, cookie, faults>>

(* A fault, of an insert perhaps only of its reply. *)
EnsureUserErrs(r) == /\ \/ At(r, "session") /\ Caller(r) # NoUser /\ users' = users
                        \/ At(r, "session") /\ Caller(r) = NoUser
                           /\ users' \in {users, users \cup {r}}
                        \/ At(r, "insert") /\ users' \in {users, users \cup {Caller(r)}}
                     /\ Fault
                     /\ Fails(r, InternalServerError)
                     /\ UNCHANGED <<owner, window, cookie>>

WithPhoto(r) == [owner EXCEPT ![r] = req[r].user]

(* The insert's foreign key refuses a user that is not there. *)
CreateImage(r) == /\ At(r, "create")
                  /\ IF req[r].user \in users
                     THEN owner' = WithPhoto(r) /\ Answers(r, 202, {})
                     ELSE owner' = owner /\ Answers(r, InternalServerError, {})
                  /\ UNCHANGED <<users, window, cookie, faults>>

CreateImageErrs(r) == /\ At(r, "create")
                      /\ Fault
                      /\ \/ owner' = owner
                         \/ req[r].user \in users /\ owner' = WithPhoto(r)
                      /\ Fails(r, InternalServerError)
                      /\ UNCHANGED <<users, window, cookie>>

-----------------------------------------------------------------------------
(* The other routes. *)

(* Mutant: queries are not scoped by the user. *)
IsPhoto(r, p) == owner[p] # NoUser

(* where: { id, userId }; requireOwnerId: without a session nothing is. *)
Owns(r, p) == Caller(r) # NoUser /\ owner[p] = Caller(r)

ListImages(r) == /\ At(r, "handle")
                 /\ Is(r, "LIST")
                 /\ Answers(r, 200, {p \in Request : Owns(r, p)})
                 /\ Unchanged

GetImage(r) == /\ At(r, "handle")
               /\ Is(r, "GET")
               /\ IF Owns(r, req[r].shape.photo) THEN Answers(r, 200, {req[r].shape.photo})
                  ELSE Answers(r, NotFound, {})
               /\ Unchanged

(* delete() looks the row up first. *)
FindImage(r) == /\ At(r, "handle")
                /\ Is(r, "DELETE")
                /\ IF Owns(r, req[r].shape.photo) THEN Goes(r, "remove")
                   ELSE Answers(r, NotFound, {})
                /\ Unchanged

Without(r, p) == IF Owns(r, p) THEN [owner EXCEPT ![p] = NoUser] ELSE owner

RemoveImage(r) == /\ At(r, "remove")
                  /\ owner' = Without(r, req[r].shape.photo)
                  /\ Answers(r, 204, {req[r].shape.photo})
                  /\ UNCHANGED <<users, window, cookie, faults>>

RemoveImageErrs(r) == /\ At(r, "remove")
                      /\ Fault
                      /\ owner' \in {owner, Without(r, req[r].shape.photo)}
                      /\ Fails(r, InternalServerError)
                      /\ UNCHANGED <<users, window, cookie>>

(* A visitor without a session causes no query. *)
LookUpErrs(r) == /\ At(r, "handle")
                 /\ req[r].shape.op \in {"LIST", "GET", "DELETE"}
                 /\ Caller(r) # NoUser
                 /\ Fault
                 /\ Fails(r, InternalServerError)
                 /\ UNCHANGED <<users, owner, window, cookie>>

CheckHealth(r) == /\ At(r, "handle")
                  /\ Is(r, "HEALTH")
                  /\ \/ Answers(r, 200, {}) /\ UNCHANGED faults
                     \/ Fault /\ Fails(r, ServiceUnavailable)
                  /\ UNCHANGED <<users, owner, window, cookie>>

(* What no schema (parseRequest) or no route (notFoundHandler) accepts. *)
RefuseRequest(r) == /\ At(r, "handle")
                    /\ Is(r, "INVALID")
                    /\ Answers(r, BadRequest, {}) \/ Answers(r, NotFound, {})
                    /\ Unchanged

-----------------------------------------------------------------------------
(* Cookies outlive a database reset. *)
ResetDatabase ==
  /\ Fault
  /\ users' = {}
  /\ owner' = [r \in Request |-> NoUser]
  /\ req' = [r \in Request |-> [req[r] EXCEPT !.spoiled =
                                  @ \/ req[r].at \notin {"unsent", "answered"}]]
  /\ UNCHANGED <<window, cookie>>

ServerStep(r) == \/ RateLimit(r) \/ ReceiveUpload(r) \/ EnsureUser(r) \/ InsertUser(r)
                 \/ CreateImage(r)
                 \/ ListImages(r) \/ GetImage(r) \/ FindImage(r) \/ RemoveImage(r)
                 \/ CheckHealth(r) \/ RefuseRequest(r)

ServerFault(r) == \/ EnsureUserErrs(r) \/ CreateImageErrs(r)
                  \/ LookUpErrs(r) \/ RemoveImageErrs(r)

Next == \/ \E r \in Request, shape \in Shape : Send(r, shape)
        \/ \E b \in Browser : WindowEnds(b)
        \/ \E r \in Request : ServerStep(r) \/ ServerFault(r) \/ Hear(r) \/ Abandon(r)
        \/ ResetDatabase

Spec == Init /\ [][Next]_vars

-----------------------------------------------------------------------------
(* Properties.  The first is the type invariant. *)

(* 0: not answered yet. *)
Status == {0, 200, 202, 204} \cup ErrorStatus

RequestState == [at : Phase, shape : Shape,
                 carried : Request \cup {NoUser}, user : Request \cup {NoUser},
                 status : Status,
                 shown : SUBSET Request,
                 waiting : BOOLEAN, heard : BOOLEAN, spoiled : BOOLEAN,
                 stray : BOOLEAN]

TypeOK == /\ users \subseteq Request
          /\ owner \in [Request -> Request \cup {NoUser}]
          /\ window \subseteq Request
          /\ cookie \in [Browser -> Request \cup {NoUser}]
          /\ req \in [Request -> RequestState]
          /\ faults \in 0 .. MaxFaults

(* image.service.ts: "Every query is scoped by userId, so users only ever  *)
(* reach their own images".  What a browser is shown or deletes was        *)
(* uploaded by that browser.                                               *)
PhotosStayPrivate ==
  \A r \in Request : \A p \in req[r].shown : By[p] = By[r]

(* A photo whose upload was answered 202 belongs to the user of its        *)
(* browser's cookie as long as it has a row, also when the user was made   *)
(* by a request that failed later, or again after a database reset: unless *)
(* one of the two users was made by an upload sent beside another before   *)
(* there was a session.                                                    *)
AcceptedPhotosAreReachable ==
  \A r \in Request : /\ req[r].heard
                     /\ req[r].status = 202
                     /\ owner[r] # NoUser
                     => \/ owner[r] = cookie[By[r]]
                        \/ \E u \in {owner[r], cookie[By[r]]} \ {NoUser} : req[u].stray

(* images.router.ts: "The user is created only now, after the upload       *)
(* passed the gate".  A request answered 4xx has made no user and no photo. *)
RefusedUploadsLeaveNothing ==
  \A r \in Request : req[r].status \in 400 .. 499 => r \notin users /\ owner[r] = NoUser

(* user.repository.ts: "Idempotently (re)creates the user, so a valid      *)
(* cookie that outlived a database reset keeps working".  A request is     *)
(* answered 5xx only if one of its own calls failed, or the reset came     *)
(* while it was handled.  Not so: another upload may have re-created it.   *)
OnlyFaultsFailRequests ==
  \A r \in Request : req[r].status >= 500 => req[r].spoiled

(* But for no other reason: who is answered 5xx without a fault has been   *)
(* overtaken by another upload of its session in re-creating their user.   *)
LostTheRace(r) ==
  /\ Caller(r) # NoUser
  /\ \E q \in Request \ {r} : /\ Caller(q) = Caller(r)
                             /\ (req[q].user = Caller(r) \/ req[q].spoiled)

OnlyFaultsAndRacesFailRequests ==
  \A r \in Request : req[r].status >= 500 => req[r].spoiled \/ LostTheRace(r)

(* rate-limit.ts: in no window more uploads of a client get to the parser  *)
(* than the limit allows, however many are handled at once.                *)
AdmissionsAreLimited ==
  \A b \in Browser :
    Cardinality({r \in Counted(b, window) : req[r].status # TooManyRequests}) <= UploadLimit

(* Every error path of the chain, the parser's included, goes on to        *)
(* errorHandler: what is not answered yet can take its next step, whatever *)
(* its upload was and whatever the others did.                             *)
NoRequestHangs ==
  \A r \in Request : req[r].at \notin {"unsent", "answered"} => ENABLED ServerStep(r)
=============================================================================
