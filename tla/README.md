# A verification project for the Aragon photo service

TLA+ specifications of the photo service in this repository. Users upload
portraits through an API, worker processes validate them, and a web page shows
what became of them. TLC checks small instances of every module; TLAPS proves
the main results for every value of the constants.

Paths below are relative to `src/`; `api/` is `apps/api/src/`, `web/` is
`apps/web/src/`.

## 1. The system

### Parts, state, operations

| Component | State it keeps | Operations | Correct when |
|---|---|---|---|
| Image queue, `api/processing/image-queue.ts` over the `images` table | `status`, `attempts`, `locked_at`, `rejection_reason`, `perceptual_hash` of each row | `claimBatch`, `failExhausted`, `reject`, `acceptUnlessDuplicate`, `releaseForRetry` | a verdict is written once, by the latest claim; of a user's look-alikes at most one is accepted; no row gets stuck |
| Processing worker, `api/processing/processing-worker.ts`, `api/worker.ts` | the loop, the abort signal, the jobs of the batch and their claim numbers | `start`, `stop`, `runOnce`, `processJob`, `idle` | every claimed row is decided or handed back; a stop waits for the batch; a bad photo stops nothing |
| Image processor, `api/processing/image-processor.ts` | the context of one job | `process`, `storeDerivatives` | a row records keys only of objects that exist |
| Validation pipeline, `api/processing/checks/` over `api/imaging/` | what earlier checks put in the context | `run`, the five checks; box geometry; decoding, sharpness and the perceptual hash | each check finds what it relies on; a photo that passes keeps the rules and shows one person |
| Face decoding, `api/imaging/scrfd-decoder.ts` | none | threshold, sort, non-maximum suppression, clamp | nobody is counted twice or lost |
| File rules, `packages/shared/src/formats.ts`, `api/http/upload.ts`, `web/lib/validate-file.ts` | none | sniff the format, check type and size | browser, API and worker agree |
| Image service, `api/images/image.service.ts`, and the bucket | rows and stored objects | `create`, `list`, `get`, `delete` | a row never points at a missing object; pages overlap nowhere and miss nothing |
| HTTP API, `api/app.ts`, `api/http/`, `api/users/` | the users table, the session cookie, the upload limiter's counters | the routes, the upload gate, sessions, the error handler | a session reaches only its own photos; a refused upload leaves nothing; only faults, and one race, are answered 5xx |
| Web upload queue, `web/hooks/useUploads.ts`, `web/lib/uploads-reducer.ts` | local uploads, their abort controllers | add, start, succeed, fail, retry, remove | at most `CONCURRENCY` requests for files on the page, one before there is a session; no file is forgotten |
| Web gallery, `web/hooks/useImages.ts`, `web/lib/image-list-cache.ts` | the cached list, the fetch, pending deletes | poll, insert, optimistic delete, roll back | the list converges to the server's |
| Board, `web/hooks/usePhotoBoard.ts`, `useVerdictAnnouncement.ts`, `useObjectUrlCleanup.ts` | previews by photo, the URLs in use at the last render, the cards announced last | show, hand over and revoke previews; announce verdicts | no verdict goes unannounced; no card shows a revoked preview, and none is held for nothing |
| Entry points, `api/server.ts`, `api/worker.ts`, `api/storage/s3-storage.service.ts` | the process's clients, connections and signal handlers, the bucket | load the configuration, ensure the bucket, listen or run, shut down | losing the race for the bucket is harmless; the pool outlives the work somebody waits for; a signal ends the process |

### How they interact, and where it is hard

* API and workers share the database and the bucket and nothing else; the
  `images` table is the queue. A worker may die, stall, lose the reply of a
  statement that committed, or be told to stop at any `await`. A claim is fenced
  by `attempts` (image-queue.ts:106) and lapses when its lock is stale.
* Jobs of one batch run concurrently, and the accept transaction is serialised
  per user by an advisory lock (image-queue.ts:74) held until the commit.
* `create()` and `delete()` each touch the bucket and the table in separate
  calls; a DELETE may overtake the worker that has the photo.
* Processes start together, may each create the bucket, and are told to stop
  at any point of their start, work or shutdown.
* In the browser, React runs effects against the state of an earlier render, and
  some time after it; answers come late, never, or after an abort; polls,
  mutations and uploads all write one cache.
* A request outlives its client: the server may handle an upload that was aborted,
  and its handler holds no connection that a shutdown would wait for.

`PROJECT.json` lists the hazards line by line, each with the properties that
would catch it going wrong, and the components that are not modelled.

## 2. The modules

| Module | Models | Rests on |
|---|---|---|
| `Photos` | what all agree on: images, owners, look-alikes, the findings of the checks | |
| `ImageVerdicts` | the abstract promise to a user: one verdict, justified, final, no two accepted look-alikes | `Photos` |
| `ImageQueue` | the table and one operator per SQL statement | `Photos` |
| `ProcessingWorker` | loops and jobs of the workers, uploads and deletes, crashes, faults | `ImageQueue`; refines `ImageVerdicts` |
| `PhotoStorage` | the bucket: upload, delete and job with each storage call a step | `ProcessingWorker` |
| `ImageList` | `list()` page by page while the rows change | |
| `ImagesApi` | requests on their way through the HTTP API | |
| `UploadQueue` | one tab's uploads, React's commits and effects, the session cookie | |
| `BrowserSession` | the abstract session of a browser: one upload at a time until one answer makes it a user, and that user from then on, but for strays | refined by `UploadQueue` and `ImagesApi` |
| `GalleryCache` | the images query, its fetch and the delete mutation | |
| `PhotoBoard` | the cards of uploads beside those of photos, their previews, the announcing effect | `GalleryCache` |
| `BoxGeometry` | box operators in whole units (a fraction of a pixel) | |
| `FaceSuppression` | scores, ordering and greedy suppression | `BoxGeometry` |
| `FileFormats` | format by leading bytes, the browser's checks of a file | |
| `ImageDecoding` | which image of a file is decoded, upright, at which size | |
| `PixelKernels` | the variance of the Laplacian, the difference hash and its distance | |
| `ValidationPipeline` | the five checks over their shared context | `FaceSuppression`, `FileFormats`, `ImageDecoding`, `PixelKernels` |
| `PhotoPath` | one photo from the file picker over the upload gate and the pipeline to its hash | `ValidationPipeline`; its runs are runs of `FaceSuppression` |
| `ServiceLifecycle` | API and worker processes from start to exit, the bucket they share | |
| `ProcessingWorkerProofs`, `PhotoStorageProofs`, `ImageListProofs`, `ImagesApiProofs`, `UploadQueueProofs`, `PhotoBoardProofs`, `PhotoPathProofs`, `ServiceLifecycleProofs` | theorems | the module of that name, with the modules it extends; `PhotoStorageProofs` also `ProcessingWorkerProofs` |

`MC*` modules give constants their small values. Operators whose comment says
"Mutant" are plausible bugs: substituted for the operator below them, each makes
TLC report the property it belongs to.

### State and actions against the code

**ImageQueue / ProcessingWorker.** `status`, `attempts`, `reason` are the
columns of those names and `rows` the ids in the table; a column keeps its last
value after a delete, as history. `lock` is `locked_at` as the statements see
it: `null`, `fresh`, or `stale` once older than `STALE_LOCK_MS`
(`TimePasses`); a slow worker and a dead one look alike. Images are numbered in
`created_at` order. `loop[w]` is where `runLoop` awaits, `jpc[w][i]` where
`processJob` of image `i` awaits, `token` is `job.attempts`. The accept
transaction is `LockUser`, `FindDuplicate` and `FinalizeVerdict`: its locks end
with its commit, and under READ COMMITTED the query sees what has committed.
SKIP LOCKED is the set a claim leaves out. A statement may fail without effect
or take effect and lose its reply. Deletes come at any time. A crash drops the
worker's jobs; `Start` is a new process.

**PhotoStorage** adds `objects`, whether a row has its derivative keys
(`recorded`), where each POST and DELETE is, and which storage calls each job
has behind it. Every worker step is that of `ProcessingWorker` with these
conjuncts added, so the same actions are checked in both.

**ImageList** keeps the rows, newest last by number, and the pages a client
saw. `filter` is the `status` parameter. `ListPage` is the query: the page
after the cursor with a lookahead row; a cursor found by id and skipped only
if it still matches.

**ImagesApi** gives each request a phase between awaits and one answer. A user
is identified with the request that created it. `EnsureUser` is `ensureUserId`:
without a cookie a create; with one the upsert of user.repository.ts, which has
an empty `update` and so is a query (`HasUserRow`) and, if it finds nothing, an
insert of its own (`InsertUser`), which may meet the primary key. `Caller` is the
signed cookie a request carries. `Hear` lets the browser take the cookie over,
`Abandon` is an abort or a lost connection, `ResetDatabase` the case
user.repository.ts is written for. A browser may send any number of uploads at
once; one sent without a session beside another is remembered as a `stray`.

**UploadQueue** has `phase` for the reducer's state and `shown` for what the
last commit rendered; `RunEffect` decides by `shown`, and everything else, clicks
included, may come between `Commit` and `RunEffect`. For a commit that a click
caused React flushes its effects at once, which is one of the model's orders; for
others, as when `added` is dispatched after a file's checks, it does not. `escaped`
remembers the requests that were begun for files removed in between. `served`
and `carried` are the server's side of every request.

**GalleryCache** has the server's rows, the cached list as a status per image,
the single fetch TanStack Query keeps for a key, and each delete's step with
its `previous` snapshot. `onMutate`'s cancel and snapshot are one step, as no
other event is handled in between.

**PhotoBoard** adds the cards of this tab's uploads (`item`), `previewsByImageId`
(`kept`), and the effects' refs: `tracked` is `trackedUrls`, `snapshot` is
`previous.current`. A preview is known by its photo, as each file has one object
URL. `Render` is a render with both effects: they read only what it rendered and
write only their refs and the announcement, so an event between a render and its
effects is the same as one before or after both. `pictured` is what the last
render put on the page; a card can be removed once it is there.

**ValidationPipeline** runs one check a step; an exception is an outcome of its
own, which the worker turns into a retry. Inside the face check `Suppress` is one
round of **FaceSuppression**, whose candidates are the network's predictions on
the photo. Ratios such as `MIN_SECONDARY_FACE_AREA_RATIO` are pairs of numbers
and are compared by multiplying out, which is exact where the code rounds.

**PhotoPath** puts the browser (or a client that checks nothing) and the upload
gate before the pipeline and the hash after it. The parser under multer is
external: a file above its limit it refuses, one of exactly the limit it may.

**ServiceLifecycle** has `stage[p]` for where a process is in its top-level
code. Handlers are installed by `process.once`, so a second signal of a kind
ends the process at once, as does one before they are installed. A request or a
batch is a unit of `work`. A request comes over a connection (`connections`),
also to an API that is closing if the connection was kept alive; `Desert` is a
client that aborts, whose request becomes one of the `orphans`. `Disconnect` waits
for what the code waits for: the worker for its batch, the API for its
connections. After it the process ends once nothing keeps its event loop alive
(`Exit`). Prisma may connect again for a query that comes later; that the pool is
released before the request ends is what `PoolOutlivesWork` is about.

## 3. What the runs show

| Run | Module | Checks | Shows |
|---|---|---|---|
| `twins` | `MCProcessingWorker` | `IInv`, `NoAcceptedLookAlikes`, `VerdictsAreJustified`, `ClaimsAreFenced`, `NoClaimIsAbandoned`, `OnlyTheLatestClaimDecides`, `ImplementsVerdicts` | two workers and two look-alikes cannot both accept; late writers change nothing; no row becomes unclaimable; clients see only what `ImageVerdicts` allows |
| `settles` | `MCProcessingWorker` | `EveryUploadSettles`, `StopCompletes` | a photo that crashes each attempt, at the head of the queue, delays but stops nothing; every stop completes |
| `objects` | `MCPhotoStorage` | `AcceptedUploadsKeepTheirOriginal`, `RecordedKeysExist`, `OriginalsGoWithTheirRow` | no accepted upload loses its original and no key dangles while deletes, retries and crashes interleave |
| `pages` | `MCImageList` | `NothingIsListedTwice`, `FullWalksAreComplete` | a walk repeats nothing and, unfiltered with its cursor alive, misses nothing |
| `api` | `MCImagesApi` | `PhotosStayPrivate`, `AcceptedPhotosAreReachable`, `RefusedUploadsLeaveNothing`, `OnlyFaultsAndRacesFailRequests`, `AdmissionsAreLimited`, `NoRequestHangs` | the route chains keep sessions apart, accepted photos within reach, and refusals clean, under concurrency, aborts, faults and resets; besides faults only the race to re-create a user is answered 500 |
| `uploads` | `MCUploadQueue` | `ListedUploadsAreCapped`, `UploadsAreShownOrEscaped`, `OnlyEscapesMixSessions`, `QueuedFilesAreSent` | the cap holds for the files on the page although effects see old state; every other upload was begun for a removed file, and only such ones mix users; no card spins for ever, no slot is lost |
| `board` | `MCPhotoBoard` | `CacheConverges`, `EveryVerdictIsShown`, `EveryVerdictIsAnnounced`, `PicturedPreviewsAreLive`, `PreviewsAreReleased` | optimistic deletes, rollbacks and polls end in the server's list; every verdict is seen and announced; previews change hands without being lost or leaked |
| `photos` | `MCPhotoPath` | `KeptFacesAreDistinct`, `DroppedFacesAreCovered`, `PassedPhotosShowOnePerson`, `VisibleFacesAreMeasured`, `PassedPhotosKeepTheRules`, `QueuedFilesAreWelcome`, `FormatsAreTrueToTheBox`, `HashesCountDifferences` | chains of overlaps, ties, turned photos, files at each limit and boxes at each border end in the verdict the rules mean |
| `lifecycle` | `MCServiceLifecycle` | `LosingTheRaceIsFine`, `PoolOutlivesAttendedWork`, `SignalsEndProcesses` | start-up races, faults of the store, signals at any point, clients that stay, hang up or abort |
| `lostinsert` | `MCPhotoStorage` | `RowsHaveTheirOriginal` violated | see findings |
| `skippedrow` | `MCImageList` | `WalksAreComplete` violated | see findings |
| `escape` | `MCUploadQueue` | `ConcurrencyIsCapped` violated | see findings |

### Bounds, and why they are enough

* *Workers, photos, users.* Every conflict in the queue is between two claims of
  one row or two accepts of one user: two workers and two photos of one user
  have both. Users only matter through the advisory lock; different users never
  meet. The theorems drop these bounds.
* *`MaxAttempts = 2`* reaches the first, a middle (retried) and the last attempt.
  *`BatchSize`* is 2 in `twins`, so that jobs of one batch interleave, and 1 in
  `settles`, so that the head of the queue can block.
* *`MaxFaults`* (crash, failed statement or lost reply) is 1 in `twins` and
  `settles` and 2 in `objects`, where *`MaxApiFaults`* is 1: faults come at any
  step, besides which clean-up after a failed insert may fail too, workers are
  arbitrarily slow at no cost, locks go stale, and uploads and deletes come at
  any time. `objects` has one photo, since a key holds the photo's id and the
  keys of two photos never meet; two workers, so that a slow one still writes
  the derivatives of a claim another has taken over; and two DELETEs of the photo.
  Its photo can be decoded: one that cannot has an original and no derivative, the
  state every photo here is in until its derivatives are stored.
* *`api`*: two requests of one browser and one of another; an upload
  limit of 1, passed by two, unless the window ends between them. The first browser can
  be sending, aborting and deleting while the other looks; one fault or reset. `Kinds`
  says which: an upload first, since nothing else leaves anything to meet, then any
  request, except that uploads are refused for their contents only in the first two and
  requests that touch no photo come last, as neither leaves anything either.
* *`uploads`*: three files for two slots, so that one waits; the first, which has to
  get the session, may be tried again. To keep the check with fairness small, only the
  first file's photo is deleted (`DeletesTheFirst`), which is the case in which the
  gallery is empty again while its user has a session, and the third file is removed
  only once it is stored (`KeepsTheLast`), so that removals and escapes are those of the
  first two. *`escape`* is without these two bounds, and the theorems without any.
* *`pages`*: five photos, two a page, three pages.
  *`board`*: two photos and one delete; the first has a preview, the other's
  file, as a HEIC is to most browsers, is not `Previewable`.
* *`photos`*: a photo has many parts, and the run starts from some 5000: one plain
  photo, and families that vary one part at a time. Files: sizes around each limit
  and the sniffed length, HEIC brands in every position of a box (major brand,
  minor version, compatible, across and behind its end, boxes that declare too
  little). Pictures: sizes around each limit, turned or not. Predictions: up to
  three boxes of a chain (the first that can drop one neighbour and keep the
  other), boxes inside, across and beyond each border, scores below, at and above
  the threshold. Crops and hash images of a few pixels, among them those whose
  topmost bit is the sign. Sizes are numbers of the model, in the code's order
  (`SniffByteLength` is below `MinFileBytes`).
* *`lifecycle`*: one API and one worker, which is what races for the
  bucket; two signals; `MaxWork` = 2 requests under way at once, one deserted and one
  that is waited for. How many come one after the other is not bounded.

Symmetry is used only in `twins` (workers) and `objects` (workers, requests), which have
no liveness property.

### Fairness

* `settles`: weak fairness of a worker's loop, of each of its jobs and of its
  restart (a developer, or what supervises it in a deployment, starts it
  again: docker-compose.yml runs Postgres and the object store only), and of time,
  which makes locks stale. No user action and no fault is fair. A stop may always come
  again; it does not starve a photo since a stopped worker is restarted.
* `uploads`: React commits and runs effects; while there are requests, one of them ends,
  by an answer or by an error: XMLHttpRequest fires one of `load`, `error`, `abort`.
* `board`: as above, plus the poll timer; fetches may fail, but not all of them
  for ever (strong fairness of `ReceiveList`); the workers do give verdicts,
  which is `EveryUploadSettles`. A user need not reload.
* `lifecycle`: a process runs on and its calls are answered, those of a deserted
  request too. Requests, batches and signals need not come, and nothing is assumed of
  clients: a page that polls every 1.5 s over a connection kept alive for 5 s, or an
  upload that stalls once `close()` has ended the server's check of request timeouts,
  can keep a closing API up for good. So `SignalsEndProcesses` says of an API that it
  ends if from some point on no connection is left, and of a worker that it ends.

Deadlock is checked except in `api`, `photos`, `pages` and `lifecycle`, whose systems
may stop: requests are all answered, walks and processes end.

## 4. Findings

Places where a comment, document or test states more than the code keeps; the
first three have a run.

1. `lostinsert`: `create()` takes any error of the insert for "not inserted" and
   deletes the original (image.service.ts:60). If the insert committed and its
   reply was lost, a row points at a missing object, what lines 86-87 call not
   harmless. The photo ends FAILED once its attempts are used up.
2. `skippedrow`: with `?status=`, a cursor photo judged between two pages is no
   longer in the result, and `skip: 1` (image.service.ts:71) drops another one.
3. `escape`: "uploads at most `UPLOADS.CONCURRENCY` at a time (one at a time until a
   session exists)" (useUploads.ts:34). A queued file removed between a commit and its
   passive effect has nothing to abort yet (useUploads.ts:84); the effect then uploads
   it (:48), and the next commit starts another beside it. With the cap goes
   the order of first uploads: the two may make two users.
   `ListedUploadsAreCapped`, `UploadsAreShownOrEscaped` and `OnlyEscapesMixSessions`
   are what is left, and are proved.

Met while modelling, without a run of their own. The first three can be seen under the
configuration named; the second property named is the one that passes and says what the
code does keep:

* Uploading one file at a time until there is a session (useUploads.ts:47) does not
  mean "only one anonymous user", as useUploads.test.tsx:79 has it: a first upload that
  was cancelled or whose answer was lost may have created its user
  (`OneAnonymousUser`, `MCUploadQueue` under `twousers.cfg`; `OnlyEscapesMixSessions`).
* "Idempotently (re)creates the user, so a valid cookie that outlived a database reset
  keeps working" (user.repository.ts:13). Two uploads of one session may both find no
  user and both insert it; one is answered 500 (`OnlyFaultsFailRequests`, `MCImagesApi`
  under `resetrace.cfg`; `OnlyFaultsAndRacesFailRequests`).
* "lets in-flight requests finish, then releases the database pool" (server.ts:31).
  `server.close` waits for connections; the handler of an upload whose client has
  aborted goes on without one, and the pool is released under it (`PoolOutlivesWork`,
  `MCServiceLifecycle` under `deserted.cfg`; `PoolOutlivesAttendedWork`).
* A cursor whose row was deleted gives an empty page without `nextCursor`
  (image.service.ts:71): the walk ends early.
* `delete()` removes the keys its first query saw (image.service.ts:96);
  derivatives the worker records or stores between that and the row's deletion
  stay in the bucket. `OriginalsGoWithTheirRow` is therefore about originals.
* `finalize` also reports `recorded: false` for a photo that was deleted or
  failed by `failExhausted`, not only for one claimed again, as
  processing-result.ts:27 has it.
* A refetch that starts while a delete is under way (useImages.ts:36 against
  :21) shows the deleted card again for a while.
* If an upload ends before the first list has loaded, that insert makes the
  list "ready" and the older verdicts count as news (useVerdictAnnouncement.ts:16
  against :8).
* A face the network finds in the padding beside the photo is clamped to no
  width, passes the height rule and leaves nothing to crop, so that the blur check
  throws (face-check.ts:46). "Validation outcomes never throw"
  (image-processor.ts:106), but this one is retried until the photo is FAILED.
  `VisibleFacesAreMeasured` says that it is the only case.
* `SNIFF_BYTE_LENGTH` need not cover a whole `ftyp` box, as the comment beside
  it says: `FormatsAreTrueToTheBox` allows for brands beyond it.
* The browser queues a file of exactly the size limit (validate-file.ts); the
  multipart parser under multer may report that very size as too large.
  `QueuedFilesAreWelcome` leaves this one size out.
* If a poll lists a photo and it is deleted before its own upload's answer is
  heard, `succeed` keeps its preview under an id no card will have again
  (uploads-reducer.ts:108), until the page is closed.
* `useStableUrl` adopts the latest URL when a thumbnail fails to load; if that
  one has expired as well, nothing fails again and a later URL is not looked at
  (useStableUrl.ts:12).

## 5. What is proved

The theorems about the workers hold for any finite or infinite sets of workers,
images and users, any attempts limit and batch size, and any number of faults.
Their assumptions, and those of the other theorems, are the named `ASSUME`s of
the modules.

**Type correctness** (`TypeCorrect`) first: one lemma per SQL statement, then
one case per action.

**The inductive invariant** (`Invariance`). None of the properties is inductive
alone. That a look-alike is not accepted twice needs that what the duplicate
query saw still holds when its verdict is written
(`DuplicateQueryStillHolds`); that needs the lock to be exclusive
(`UserLockIsExclusive`) and accepted rows never to change, which needs claims to
be fenced (`ClaimsAreFenced`), which needs tokens never to exceed `attempts`
(`TokensWereDrawn`). `IInv` is the conjunction of a part about rows (`RowInv`),
one about jobs (`JobInv`), `NoAcceptedLookAlikes` and `NoClaimIsAbandoned`; TLC
checks it in `twins`. The proof goes by effects: `TableSteps` sorts all steps by
what they do to the table, `JobsMove` by what they do to jobs, and each part of
the invariant is proved against these few cases. `StepIsMonotone` records that
`attempts` never falls and a verdict never changes.

**From it**: `AtMostOneLookAlikeAccepted`, `RowsAreSound`, `ClaimsStayFenced`,
`CleanShutdown`, and the action properties `VerdictsStayFinal` and
`LatestClaimDecides`.

**Refinement** (`WorkersImplementVerdicts`): with a row's claim, lock and
attempts hidden, and PENDING and PROCESSING both read as waiting, every step of
the workers is a step of `ImageVerdicts` or a stutter.

**Progress without fairness.** What TLC checks as liveness has a safety half that
holds for any number of rows and workers, and is proved. `EveryRowHasAWayOn`: no row
that waits is left without a statement that can take it on, now or once its lock is
stale. `RetriesEnd`: a rank of the row's status, attempts and lock (`StepsToGo`)
falls with every change of it, so nothing in the queue goes round in a circle;
`RowMove` lists what a step may do to a row. `ClaimsGoByAge`: a claim passes a due
older photo only if another statement holds its row, and `ConcurrencyIsBounded`: a
process works on at most `BATCH_SIZE` photos. Both rest on what ORDER BY and LIMIT
mean for finite initial segments (`EarlierComeFirst`, `OldestAreFew`).
`StopsAreObeyed` and `BatchesEnd` do for the loop after `stop()` and for jobs what
`RetriesEnd` does for rows. That enabled steps are taken is the part that is left to TLC.

**ImageListProofs**: `PagesAreDisjoint` and `CursorDescends` for any photos and
page size; the invariant says that every photo listed is at least as new as the
cursor, and `FromLiesBelowTheCursor` that a page has only older ones.
`FullWalksMissNothing` adds, for walks without a filter, that everything that was
there all along down to the cursor is listed (`NothingIsSkipped`). It needs that a
page leaves nothing out between its newest and its oldest photo (`PagesHaveNoGaps`),
and that a cursor still there loses nothing of what is below it (`FromHasWhatIsBelow`).

**PhotoStorageProofs**: `StorageImplementsWorkers` is a refinement: with the
bucket and the requests hidden, every run of `PhotoStorage` is one of
`ProcessingWorker`, whose theorems so hold for uploads and deletes of several
calls that fail half-way. `OriginalsStayWithTheirRow`, `RecordedKeysLeadToObjects`
and `NoOriginalIsOrphaned` follow from two invariants. `OriginalsInv`: a row is
inserted by its own POST, which has stored the original; a DELETE comes to the
objects once the row is gone, and rows do not come back. `DerivativesInv`: what a
job has stored is there as long as the row is; a job that carries a verdict has
stored everything; and no job or key is older than its row, so that a new row
meets none. Its proof needs the workers' invariant: a worker that claims has no
jobs (`JobsBelongToABatch`), and a job's claim was counted (`RowsStartFresh`).

**ImagesApiProofs**, for any browsers, requests at once, limit, faults and database
resets: `PhotosArePrivate`, `AcceptedPhotosCanBeReached`, `RefusalsLeaveNothing`,
`RequestsFailForACause`, `WindowsAdmitTheLimit`. Privacy alone is not inductive: a
query is scoped by the user of a cookie, so the invariant follows users from the
request that makes them to the cookie and back into later requests
(`SessionsAreOfOneBrowser`), which only works since nobody is known as a user whose
request has not passed the gate (`UsersPassedTheGate`). That an accepted photo can
be reached needs that a browser comes by one user only: `OneUserIsKnown` says that
of all users its answers have made or will make, at most one is not a stray's.
`RequestsFailForACause` holds since an upload that meets the primary key has lost
against a request that has the user or failed after making it
(`LosersWereOvertaken`), and neither is forgotten (`RacesStayLost`). `EnsuredUsersAreThere`
is why the insert's foreign key holds. The limiter's count is about a set of requests,
`Admitted`: it grows by one at most, and not at the limit. `RequestsHaveAStep` proves of
every request what `NoRequestHangs` is about, with the guards of the steps and what
their bodies look up in place of ENABLED; `RequestsEnd` that a request only goes forward
and its answer is its last word; `PhotosAreTheirOwners` that only a photo's own insert,
its owner's DELETE or a reset of the database changes whose it is.

**One session, seen from both ends.** `BrowserSession` is what the web client and the
API have to agree on: without a session one upload at a time, and only a `stray`, an
upload begun beside another all the same, may change who the browser is.
`ApiImplementsSessions` shows that, for each browser, the cookie and the uploads of
`ImagesApi` are a behaviour of it, by a parameterised INSTANCE and whatever the browser
sends; `QueueImplementsSession` that those of `UploadQueue` are, with the escapes as
the only strays. From either follows that a session is replaced only if one of the two
users is a stray's (`SessionsLast`, `SessionLasts`).

**UploadQueueProofs**, for any set of numbered files, any concurrency and retries, and
clicks at any time: `ListedAreCapped`, `OnlyEscapesGoUnshown`,
`GalleriesMixOnlyByEscapes`, `EffectsStartWhatWasQueued`, `EachRequestIsSentOnce` and the
refinement above. An effect counts what its render showed, not what is. `PhasesFollow`
says how far the two can be apart while an effect is due: a file shown as queued is
queued still or was removed, and nothing unseen is uploading; so what the effect takes
for free slots are free, and `OnlyRemovedUploadsEscape`. `FirstFew` bounds
what it starts: fewer than k come before each. The gallery's photos are of the cookie's
user because of the users that the browser can come to know at most one
was not made by an escape (`OneUserIsKnown`), for which the cap of one listed upload
without a session is needed.

**PhotoPathProofs**: `FacesAreDistinct`, `NobodyIsLost` and
`NoFaceMeansNoConfidentScore` for any boxes and scores, by the loop invariant of the
greedy pass over candidates sorted by score. `PathsImplementSuppression` is a
refinement: what the pipeline does to the detector's variables is what
`FaceSuppression` does, so that `PathsCountFacesOnce` follows for whole photo
paths. `QueuedFilesStayWelcome` holds for any files, limits, brands and orders of
steps; its invariant records with each verdict the test it was given on.
`OnePersonOnPassedPhotos`, `EveryVisibleFaceIsMeasured`, `PassedPhotosKeepAllRules`
and `FormatsFollowTheBox` rest on one invariant (`PathInv`), indexed by the check to
run next: what the gate sniffed, that what was decoded is the first image upright, and
that the main face stands out, lies in the frame and is tall enough
(`MainFaceStandsOut`). Under it are lemmas about the operators: a clamped box is in
the frame (`ClampedBoxesAreInside`); rounding down and up by whole pixels
keeps the padded region around the face, and the face's pixels non-empty
(`CutsCover`, `CropsCoverTheFace`); of finitely many faces one is the first of the
largest (`SomeFaceIsLargest`, by well-foundedness of strict inclusion), so that the
CHOOSE of `LargestFace` names one; a working image keeps at least a pixel on each side
(`WorkingImagesHaveASize`).

`PassedPhotosKeepAllRules` and `DistancesAreDifferences` are about what loops compute,
for images of any size. The library's induction takes an operator, so they go by
sets instead: what holds of 0 and goes on from each number to the next holds of all
up to n (`CountingUp`, by the well-foundedness of `<`). By it a recursion over numbers
has a value at each (`RecursionsReachEveryNumber`), and a sum over a finite set does
not depend on the order (`SumFunctionIsASum`). `VarianceIsTheSpread` then follows the
loops of `laplacianVariance` pixel by pixel: what they have added up is the sum of
squared deviations, multiplied out. `HashesHoldTheirBits` does the same for
`computeDHash`: each shift moves the earlier bits up by one. `SignsComeOff` says that
`asIntN` and `asUintN` undo each other. The prover knows powers of two only as
numbers of subsets, by the library's `FS_SUBSET`, which is enough for `PowersDouble`.

**PhotoBoardProofs**: `CacheIsRight`, the gallery's list converges. The invariant
says of an idle query's list, or of an answer about to be put there, that it is
behind the server only by verdicts it still shows as waiting, which it polls for,
and by uploads still to be inserted, unless a delete is under way, whose end
starts the fetch afresh. `BoardImplementsCache` is a refinement, by which it holds
on the board (`BoardIsRight`). `PicturesStayLive`: that nothing on a card is
revoked is not inductive; a revoked preview must also have no way back to a card.
The invariant adds that what is on a card is tracked, and that a revoked preview's
upload is over without its photo keeping it, so that no later answer can.
`CardsAreTrue` and `AnnouncementsAreTrue`: no card shows a photo that was not uploaded
or a verdict that was not recorded, and none is announced. For that, no list may be
ahead of the server, those on their way and those put aside for a rollback included
(`NoListIsAhead`). `NoPreviewIsForgotten` is the safety half of `PreviewsAreReleased`:
every preview the reducer has let go of is revoked by the next render, because none is
given up before a clean-up knows it (`PreviewsAreAccountedFor`).

**ServiceLifecycleProofs**: `RacesAreLostSafely` and `PoolsOutliveAttendedWork` for any
number of API and worker processes and units of work; the invariant says that the
bucket, once there, is why a creation failed (or a fault was), in which stages a
process has a pool and work (`WorkIsServed`), and that a request somebody waits for
has its connection (`WorkIsAttended`). `ProcessesGoForward` and `SignalsStayHeeded` are the safety half
of `SignalsEndProcesses`: a rank of the stages falls with every change, and a process
that has caught a signal is stopping or over.

### Assumptions

Besides finiteness or numbering of some sets, the assumptions say what the code's
constants and inputs are: limits are numbers in their order, ratios have a
denominator, and `MIN_FACE_HEIGHT_RATIO` is not zero (else a face of no height would
pass its check and leave no crop); an image has a width and a height, only a HEIC
container may hold no image (`ImagesHaveASize`). A face crop is a greyscale image
(`CropsAreGreyscale`), and some sharpness is asked for (`SharpnessIsAskedFor`), else a crop without interior
pixels would pass. A file may be tried at least once (`TriesAreBounded`). TLC
evaluates all of them on the runs' constants.

### Only model-checked

Liveness under fairness is not in the prover's reach. What is proved of each property
without fairness, and what TLC adds to it by exploring fair behaviours:

| Property | Proved for all constants |
|---|---|
| `EveryUploadSettles` | `EveryRowHasAWayOn`, `RetriesEnd`, `ClaimsGoByAge` |
| `StopCompletes` | `StopsAreObeyed`, `BatchesEnd` |
| `QueuedFilesAreSent` | `EffectsStartWhatWasQueued`, `OnlyEscapesGoUnshown` |
| `EveryVerdictIsShown`, `EveryVerdictIsAnnounced` | `CacheIsRight`, `CardsAreTrue`, `AnnouncementsAreTrue` |
| `PreviewsAreReleased` | `NoPreviewIsForgotten` |
| `SignalsEndProcesses` | `ProcessesGoForward`, `SignalsStayHeeded` |
| `NoRequestHangs` (ENABLED) | `RequestsHaveAStep`, `RequestsEnd` |

All other properties of the passing runs, which are their safety properties, are
theorems.

## 6. What is not modelled, and why

* What sharp, libheif and the face network do to pixels, and thumbnails. Which
  image is decoded at which size is modelled; the network's predictions and the
  pixels are inputs. Landmarks, which no rule reads.
* The scale between the network's input and the working image is a whole number in
  the model, where the code's is a fraction (`InverseScale`); the photos of `photos` are
  scaled exactly.
* A put that outlives its job: the two of image-processor.ts:51 run at once, and when
  one fails the other may still go on while the row is released. It writes
  what a later attempt writes, under the same key, and no row records a key before
  both puts of one attempt are done; or the object stays behind after a DELETE, as
  section 4 has it of derivatives.
* Multipart bodies and leading bytes other than what the format is told by.
* CORS headers: one stateless comparison. What follows is the browser's.
* Signed URLs and `useStableUrl`, whose hard part is when a browser loads a picture.
* The page's end, when the browser releases all object URLs.
* Upload progress, card texts, counts, sections, names and DTOs: stateless
  mappings and wording. Presentational components.
* How single configuration variables are parsed; that loading fails or not is.
* More than one API process behind one limiter: the limiter's comment says that
  it is written for one.

## 7. Plan

Order of work, the most important behaviour first: the queue and its workers,
storage, the list, the web client, the checks from file to hash, the API, start-up
and shutdown. All are modelled, checked, and proved as far as section 5 says. What
would come next, should the code move that way:

1. `useStableUrl` and a preview whose photo is deleted before its answer is heard
   (section 4), once a picture's loading is modelled.
2. Several API processes behind one limiter, when its store is shared.
