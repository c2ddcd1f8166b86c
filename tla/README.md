# Verification of the Clivegformer platform

TLA+ models, TLC runs and TLAPS proofs for the platform in `src/`: a Go
microservice system (gateway, user, file and storage services) with a Vue
browser client that uploads large scientific files to Ceph, deduplicated by
their SHA-256, and caches the results of analyses.

    tlc -config <run>.cfg <module>    # e.g. tlc -config liveness.cfg UploadSessionMC
    tlapm UploadSessionProofs.tla     # and every other *Proofs module

`PROJECT.json` lists the components, the runs, the lines of the source each
definition models, the mutants each property is tested against, the hazards, the
findings and the theorems.

## The system

| Component | State it keeps | Operations | Talks to |
|---|---|---|---|
| Gateway `gin_web` | none (signed tickets) | REST routes, part streaming, downloads by ticket and range | every service, by gRPC |
| User service `user_srv` | MySQL `users` | register, log in | |
| File service `file_srv` | MySQL `file_object`, `user_file`, `upload_session`, `analysis_result`; Redis `lock_hash:*`, `upload_parts:*`, `upload_heartbeat:*`, `upload_waiters:*`, `all_file` | the upload session's endpoints, the catalogue's queries, the analysis cache, the consumer of `FILE_UPLOAD_COMPLETE` | storage service (begin, list, complete, abort) |
| Storage service `storage_srv` | none of its own: Ceph's object and multipart uploads | begin, write part, list parts, complete, abort, download | Ceph; file service (authorize, resolve, record); RocketMQ |
| Browser `web_ui` | Pinia store of upload tasks, copies of them in IndexedDB | hash, initiate, send parts three at a time, pause, resume, cancel, restore after a reload | gateway |
| Commands | | reset, purge, repair, doctor | MySQL, Redis, Ceph |
| Analysis workers (not in the repository) | | ask the cache, compute, publish or fail | file service |

An upload runs through all of them. `InitiateUpload` looks for the hash in
`file_object` (then the upload is *instant*), takes `lock_hash:<hash>` for 30 s,
and writes or takes over the one `upload_session` row its unique index allows
for the hash; the storage service begins a multipart upload. Parts go from the
browser through the gateway and the storage service, which asks the file service
for leave (`AuthorizePart`) before and reports (`RecordPart`) after writing to
Ceph. `CompleteUpload` moves the row from UPLOADING to FINALIZING by
compare-and-set, has the storage service assemble the object and announce it on
RocketMQ; the consumer, back in the file service, makes the `file_object`, lists
it for the user and sets COMPLETE in one transaction. `CancelUpload` claims
CANCELLED by compare-and-set, has the storage service abort the upload (or
remove the object), and deletes the Redis keys, or restores the status it read.

What is hard here: every handler reads a row, makes calls to other services, and
writes according to what it read; handlers of several users work on the same
row, because the row belongs to the hash; some updates are compare-and-set and
some are not; a row's id is used again by the next initiation; errors of some
writes are dropped on purpose; an answer may be lost after its effect; a process
may die between any two calls; and the completion arrives by a queue that
delivers at least once. What makes each part correct:

- *upload session*: a COMPLETE row and the catalogue agree; the catalogue's
  objects are in Ceph; a session that can be written has an open upload, and the
  cached parts are that upload's; initiations of a hash exclude one another;
  no status lasts that nobody can leave; an announced upload is catalogued.
- *analysis cache*: one computation in charge per key, only it publishes, its
  lease is kept, and a dead one is replaced.
- *part stream*: no handler waits for ever, and no bad part counts as sent.
- *browser*: what a task says of the session is true, an unfinished session has a
  record at every reload, and no task stays busy with nothing going on.
- *download*: the announced range is the bytes the header names, what arrives is
  those bytes, and neither handler is left waiting.
- *upload plan*: its chunks, the browser's slices and the server's check of sizes
  fit together, within the 10 000 parts S3 allows.
- *catalogue*: pages skip no file though rows come in between, the team's list
  names the uploader, an instant upload is listed for whom it was answered.
- *commands*: what the catalogue lists is stored, and no id handed out again
  finds what belonged to another's upload.

## Modules

| Module | What it is |
|---|---|
| `CephStore` | External: one key of Ceph RGW and its multipart uploads, from the calls `storage_srv` makes |
| `UploadSession` | One `upload_session` row: `file_srv/handler/server.go` with its calls to `storage_srv`, the Redis keys and the consumer. EXTENDS `CephStore` |
| `UploadContract` | Abstract: what the session of one hash promises its clients; `UploadSession` implements it |
| `UploadPlan` | How a file is cut into parts: `UploadPlan` of `utils/upload.go`, the browser's slices, the sizes `AuthorizePart` takes |
| `UploadSessionMC` | The instance of `UploadSession` for TLC: mode and number of parts come from `UploadPlan` |
| `UploadSessionProofs`, `OpenUploadProofs` | Theorems about `UploadSession` |
| `UploadPlanProofs` | Theorems about `UploadPlan` and the sessions that are planned by it |
| `Catalogue` | `file_object` and `user_file`: the uploads and instant uploads that add to them, and a browser that reads the pages of `ListFiles` meanwhile |
| `Maintenance` | The commands run by hand: reset and repair. EXTENDS `Catalogue` |
| `MaintenanceMC` | Its instance for TLC (the names, symmetry) |
| `MaintenanceProofs` | Theorems about `Maintenance` |
| `PartStream` | One `UploadPart`: the gateway's handler, the stream, the storage service's handler, its pipe and its goroutine |
| `PartStreamProofs` | A theorem about `PartStream` |
| `Download` | One read of a file: `ParseRange`, the gateway's `Download` or a caller of `ReadRange`, the stream, the storage service's `streamObject` |
| `DownloadMC` | Its instance for TLC (the requests) |
| `DownloadProofs` | Theorems about `Download` |
| `BrowserUpload` | One upload task of the browser: `uploads.ts`, its record in IndexedDB, the buttons of `UploadsView.vue` |
| `BrowserUploadMC` | Its instance for TLC (symmetry) |
| `BrowserUploadProofs` | Theorems about `BrowserUpload` |
| `FencedCache` | Abstract: what the analysis cache promises for one key |
| `AnalysisCache` | One `analysis_result` row: acquire, complete, fail; implements `FencedCache` |
| `AnalysisCacheProofs` | Theorems about `AnalysisCache` |

### UploadSession

All the state of an upload is named by its hash or by the id of the one row the
hash can have, so one hash is modelled: `row` (user, status, Ceph upload id),
`object` and `refs` (the catalogue), `lock`, `parts`, `heartbeat`, `waiters` and
`allFile` (Redis), `pending` and `after` (the event, and a consumer between its
commit and `AfterUploadComplete`), `stored` and `uploads` (Ceph).

A request in flight is a slot `r`: `pc[r]` names the call it makes next,
`who[r]` its user, `seen[r]` the row it read, `got[r]` the parts it holds. An
action is one call to MySQL, Redis, Ceph or RocketMQ with the code up to the
next; so two handlers interleave exactly between their calls, and `Crash` can
take a handler between any two. A handler's `defer` is its last call
(`Unlock`). What a read decides and the next call uses is in `seen`, so a stale
`Save` writes stale columns and a restored status is the one read.

Faults are chosen per run by the constant `Faults`: `crash`, `outage` (a service,
Ceph or Redis refuses a call), `reply` (a call to one takes effect and its answer is
lost), `sent` (the same of the call that announces a completion), `abort` (of an
abort), `mysql` (a read fails, or a write is answered by an error, done or not, and
the handler takes the code's error path: `Unanswered`), `ignored` (a write whose
error the code drops, `_ = ...`, fails). The slots in `Slow` may have initiations that outlive
their 30 s lock. `Ops` chooses the endpoints clients use. The expiry of a
heartbeat, and of the lock of a handler that is gone, can always happen.

`UploadContract` reads of all this what a client can rely on: the session is
none, open, dropped or complete (`Phase`), it has an owner, the file is
catalogued or not, and has its listers. `KeepsContract` is that `UploadSession`
implements it: an open session alone becomes complete, in the very step that
catalogues the file for its owner, and no one is taken off the list.

Abstractions, each of data no property tells apart: one size per hash (a
mismatch only refuses); file name and folder go with the user; the part's number
stands for its bytes, its ETag and its size, so the checks of sizes are left to
the part number; a Redis hash is the set of its fields; two Redis calls in a row
with dropped errors are one; reads that change nothing and whose result no one
keeps (a GetUpload with cached parts) are not steps; a client may use the
session's id as soon as the row exists. `BucketExists` failing is an outage.
`upload_session:<hash>`, deleted by `AfterUploadComplete`, is written by no one
and is left out.

### PartStream

`UploadSession` takes the write of a part as one call; `PartStream` is its
inside. A frame is the unit of bytes. `client` is the gateway's handler, `wire`
the frames gRPC has on the way, `handler` the storage service's (its next call),
`pipe` how its writer was closed, `uploader` the goroutine and `result` its
channel. io.Pipe has no buffer, so `Write` is a step of handler and goroutine
together, and a handler at `"write"` without a reader waits. minio-go is
external: it reads `Size` bytes or fails at any moment; the goroutine that called
it sends the result and ends, and does not close the reader of the pipe. gin's
`Context` is not done when the browser leaves, because `router.New` sets no
`ContextWithFallback`; so a gateway handler that returns leaves the stream open,
and only the gateway's death breaks it. The gateway's bodies have the declared
length; `Lengths` has shorter and longer ones, which the storage service refuses.

### Download

The byte at offset `o` of the object is the number `o`, so the order and the
place of bytes can be told from them. A request is the form of its header with
its numbers, or the range of a `ReadRange` call; `gate` is the gateway's handler
(or `ReadRange`'s caller, who takes the chunks in the same way), `status`,
`start` and `end` what it announces, `body` what it wrote to the browser, `wire`
the chunks gRPC has on the way, `handler` the storage service's handler and
`next` its place in the object. `Send` waits until the window has room. The
object has the length the
catalogue says: the sizes of its parts are checked when they are sent (`Fits` in
`PartStream`). The ticket is its outcome; the numbers of a header that `ParseInt`
cannot hold are `"bad"`; callers of `ReadRange`, none of which are in the
repository, ask for a byte at least (zero bytes would get them the whole file).

### BrowserUpload

One file, added once. `session`, `parts`, `announced`, `catalogued` and `busy`
are the server as its answers show it: what `UploadSession` does call by call is
here one step per request. `copy` holds the task objects of the store, `shown`
is the one in `tasks.value`, `saved` the record in IndexedDB (status, and whether
it has the hash and the upload id). A flow `f` is one run of an async function:
`pc[f]` is the call it awaits, `on[f]` its task object, `queue[f]` and
`flying[f]` the parts its runners have yet to send and are sending. An action is
the call's effect and answer with the code up to the next await, so flows
interleave at awaits, as JavaScript's do. After a part failed and `fail` ran, the
other runners of that `Promise.all` go on, and the flow's slot is not free before
they return.

`saveTask` copies the task when its transaction starts; it is one step with the
assignments before it, because a later copy by the same flow only sees what
another flow assigned, and that flow saves it too. The load and the save of
`restore` are two steps, because its copy is stale in between. A call that fails
(`Failures`) may have had its effect; so may one that a reload cuts off. The
three attempts for a part are one; the sixty of `waitForComplete` may end at any
time. Left out: failures of IndexedDB itself, a second tab, other users taking a
session over, and progress.

### UploadPlan

Pure operators; the constants are the code's four. A size is below 2^53, so
`math.Ceil` of a quotient of two of them gives what integer division rounded up
gives (the nearest double of a quotient that is not an integer is not an integer
beyond it). The slices are those `uploadParts` cuts in the browser, `Accepts` is
the check of `AuthorizePart`; `PlanFits` relates the three.

### Catalogue and Maintenance

Several hashes, one step for each request of an upload (`UploadSession` takes
them call by call). A name stands for a folder and a file name with what the
program sees in it: `key`, the 191 characters of each that the unique key of
`user_file` holds, and `region`, what `ParseScientificFilename` reads from it or
`NoRegion`; block and year go with the region. An upload is here one step per
request, by where the request ends: initiations that stop at any of their writes
(`BeginUpload`) or take a session over (`TakeOver`), pauses and resumptions of a
session in any status (`SetStatus`), completions that fail, are announced, or are
announced and reverted because the answer was lost (`CompleteUpload`), cancels from
every status the code allows that are restored, lose their answer or leave the Redis
keys (`CancelUpload`). The tables are sequences of rows as they were inserted, each
with its `created_at` (`at`, any of `Times`: the service takes the time before it
inserts, and two rows may have one time). A listing is the set of the indexes of the
rows it takes from its table. `ORDER BY created_at DESC` (`server.go:318` and `375`)
has no second column, so MySQL may put rows that tie in another order in every
`SELECT`: a page is any of `Pages`, the sets of rows that have of each such group as
many as places of it are on the page.
`attachExisting` is the fill of an object's metadata (decided by what was read
before it), then the insert of the `user_file` row, whose error is dropped
(`insert`), as one step with the select that looks up the id when the insert gave
none. The reader (`view`) is `FilesView`: the facets, then a page by a count and a
select, two moments; it reads to the last page, because a reading that is broken
off leaves no state behind. Left out: filters by year, text and folder
(each restricts the same rows), the sum of sizes, and two reads of pages at once.

`Maintenance` adds `reset-dev-data.ps1` (stop the services, purge Ceph, clear
MySQL, delete the Redis keys) and `repair`. The script stops every service
first, so a reset is one step, by the way it ends: refused because a session is
active, with Ceph purged by then; complete; or ended by a failure between MySQL
and Redis. RocketMQ keeps its events, and the ids of rows start again. Three
variables that are no part of the program remember why a listed file may have no
bytes: `lost`, the hashes whose object a refused reset purged, until they are
repaired; `reopened`, those whose session was put in use again after its completion
was announced; `outlived`, the ids of sessions whose event a reset left behind.

### AnalysisCache

Time is kept as what is left of it: `left` and `expires` count down, and
`lag[w]` is how long ago acquisition `w` read its clock, which the code does once
before a transaction that may wait for the row and before up to three attempts.
A token not in use stands for a new UUID. `Create` may succeed, find a duplicate
and run again, or be the victim of InnoDB's gap-lock deadlock, which the code does
not retry.

## Runs

| Run | Checks | Instance, and why it is enough |
|---|---|---|
| `serial_single` | `ObjectBacked` | one slot, two users, one part, crashes, slow initiations, outages, lost answers, a failing MySQL, dropped errors; no pause or resume, which break it (`cancel_completed`), and no `sent`, which does too (below). A crash leaves any prefix of a handler behind, so one slot shows every sequence of calls that are cut off anywhere |
| `serial_multipart` | `TypeOK`, `WritableIsOpen`, `CachedPartsExist`, `ObjectBacked`, `EveryPlanFits` | one slot, refusals and lost answers, `sent` included: the abort of a multipart session names its upload and so removes no object; two parts (a partial upload exists), three upload ids (an upload, the one begun after a cancel, and one more); plans for sizes 1 to 14 with a threshold and chunk of 2, at most 3 parts and a "MiB" of 2, so every branch and both sides of its boundaries |
| `concurrent_single` | `LockExclusive`, `CompletedIsIndexed`, `LockReleasedByOwner`, `KeepsContract` | two users and two slots, one of them slow: any two handlers race (pause stands for resume, which also overwrites the status by id), beside the consumer, and a late script meets a new holder; `Read` leaves out of the state what no request looks at, the waiters and `allFile`, but that `allFile` is not there without the object, and the locals of a handler that only has to touch the heartbeat and unlock |
| `catalogue` | `TypeOK`, `NothingSkipped`, `OwnerIsUploader`, `ListedIsStored`, `PartsAreOwn`, `InstantIsListed` | two users, two files, three names, of which two have one key and one is scientific; pages of one row and up to three rows in a user's list, so that an insert between two pages moves rows across them; two times, so that rows tie or come behind newer ones; two session ids and three `user_file` ids, all handed out again after a reset. One upload at a time goes astray (is INIT, paused, failed or cancelled, or a file's bytes or session were taken); pages are read and files attached while none is, as those two read the tables alone (`Bounded`); an answer that nothing reads any more, and the difference of INIT and PAUSED, are no part of the state (`Read`) |
| `liveness` | `FinalizingResolves`, `AnnouncedIsIndexed` | two users and two slots, refusals, lost answers, a failing MySQL; under `FairSpec`, without symmetry, crashes and dropped errors |
| `part_stream` | `RecordedIsStored`, `UploaderEnds`, `HandlerEnds` | three frames, a window of two (a sender that waits), bodies of two, three and four frames, every fault |
| `download` | `RangeIsNamed`, `BodyIsNamed`, `ReadEnds` | a file of four bytes and every number from 0 to 5, so at, before and past its ends; chunks of one or two bytes and a window of one (a sender that waits), every fault |
| `browser_reload` | `TypeOK`, `FinishedIsCatalogued`, `Recoverable`, `IdIsKept` | three parts and two senders (parts sent, on the way and queued at once), three flows (a sender, a pause and a resumption at once), two task objects, failing calls, completions that are announced and reverted, reloads once the file is added |
| `browser_views` | `FinishedIsCatalogued`, `BusyEnds` | every operation, restore beside a running flow included; two flows and two task objects (the old and the new one), no failures, `FairSpec` |
| `analysis` | `TypeOK`, `LeaseHonoured`, `FencedOnly`, `Recovers` | three workers (holder, successor, a third that raced the insert), five tokens (one per worker, the row's and the result's), lease 3, lag up to 2; `FairSpec`, without symmetry |

Deadlock is checked in the runs of `AnalysisCache`. It is not in the others: once
a file is catalogued, a part written or a task over, nothing has to happen. What
must not stop there is what the liveness properties say.

Bounds: `Reqs` (requests at once), `MaxId` and `MaxFile` (the ids of sessions and
of `user_file` rows), `UploadNames` (the names uploads begin with: any name is one
an instant upload may bring), that no `attachExisting` begins once the ids of
`user_file` are used up, `LargestSize` (of the planned files), `Times` (the values of
`created_at`), `Bounded` (see `catalogue`), `Flows` and `Copies` (async functions and task
objects at once), `Size` and `Window`, `CephIds` (upload ids Ceph can hand out; when
they are used up it refuses), `Workers`, `Tokens`, and in `AnalysisCache` times
below `-MaxLag` are one.

Fairness. `FairSpec` of `UploadSession` asks that a handler that runs keeps
running (a goroutine whose calls have deadlines or return), and that RocketMQ
delivers until it is acknowledged; no client is owed a request and no timer an
expiry. `FairSpec` of `AnalysisCache` asks that transactions end, time passes and
a worker told to wait asks again, as its contract (retry after 500 ms) says;
nobody has to finish a computation. `FairSpec` of `PartStream` is that goroutines
run on, gRPC delivers and Ceph answers; that of `Download` adds that a browser
reads or leaves, so that no `Write` of the gateway lasts for ever; that of `BrowserUpload` that the event
loop runs the callbacks of calls that end. Neither the consumer nor the user is
owed to a task: it is `waitForComplete`'s limit that ends it.

### What the code does not do

Two runs check what a message or the documentation says, and TLC finds a
behaviour of the code against it:

- `cancel_completed`: `setStatus` updates by id alone, so a pause that arrives
  after the completion turns COMPLETE into PAUSED, and the cancel that
  `server.go:245` refuses for a completed file goes through.
- `ceph_refuses`: when `PutObject` or `PutObjectPart` fails before it has read the
  part to the end, its goroutine ends without closing the pipe's reader; the storage handler, the gateway's and the browser's
  PUT wait for ever, and the browser's retry never starts.

Other behaviours bound the passing runs, which leave out the endpoint or fault
that leads there. Each can be seen by changing the configuration named:

- A failed initiation leaves no upload id, and a resume makes such a row writable
  again (`WritableIsOpen` in `serial_multipart` with `"resume"`).
- The Save after `BeginUpload` (`server.go:98`) that MySQL refuses, and a `Create` or
  Save before it (86, 89) that took effect and was answered by an error, leave an INIT
  row without an upload id; the lock is released, and the next initiation takes the row
  over as UPLOADING with that empty id (`WritableIsOpen` in `serial_multipart` with
  `"mysql"`). What remains of it then, that an id a row does name is open, is the
  theorem `NamedIsOpenAlways`.
- A cancel whose claim (251) took effect and was answered by an error ends there: the
  row is CANCELLED, its upload open and its parts cached for the next session of the
  row, which has another upload (`CachedPartsExist` in `serial_multipart` with
  `"mysql"`).
- A single upload whose event was sent and whose answer was lost is UPLOADING again
  (`server.go:210`), may be cancelled, which removes the object, and initiated again
  under the same id; the first event then catalogues a file without bytes
  (`ObjectBacked` in `serial_single` with `"sent"`).
- A reset that is refused, because a session is active, has purged Ceph by then; a
  session that a pause, a resumption or a lost answer puts in use after its
  completion was announced can be cancelled, and its listed file's bytes with it; an
  event that a reset left behind completes whichever session has its id by then.
  `ListedIsStored` names the three (`lost`, `reopened`, `outlived`). A reset that stops
  between MySQL and Redis leaves parts for the next session of the id (`PartsAreOwn` in
  `catalogue` with `"stopped"`).
- Rows with one `created_at` may change places between two pages of a list, so that a
  reader sees one of them twice and another not at all (`NothingSkipped` without its
  last condition).
- An abort whose answer is lost restores a writable status over an upload that is
  gone (`serial_multipart` with `"abort"`).
- A cancel is four steps; another request between them makes the abort remove an
  object the catalogue lists, which instant upload goes on handing out
  (`serial_single` with two slots).
- A crash between the claim of FINALIZING and the end of the completion, a claim that
  took effect and was answered by an error (`server.go:203`), or a revert whose error is
  dropped (211) leaves the hash locked for every user: nothing ends such a FINALIZING.
  `FinalizingResolves` speaks of a row that a handler is at work on or whose event waits
  (`BeingFinalized`), and fails with `"crash"` and `"ignored"` all the same, because the
  handler may die, or its revert fail, after that.
- `upload_parts:<id>` outlives the upload its ETags belong to, because the id is
  used again; the next upload of the hash skips those parts and cannot be
  completed (`CachedPartsExist` alone, in `serial_multipart` with two slots).
- A gateway whose browser left returns without ending the stream, and the storage
  handler waits for its next frame for ever (`StreamLeft` in `HandlerEnds`).
- `restore` takes every visit of a view for a reload: the task shown is then a
  paused copy while the old one goes on sending, and what it saves or deletes may
  be older than what the old one saved (`browser_reload` with `"navigate"`).
- A record with a hash and no session is kept with the request to choose the same
  file again (`uploads.ts:34`); doing so asks for `/uploads/undefined` and fails.
- A pause whose call fails leaves a task `uploading` with nobody sending
  (`browser_views` with `Failures = TRUE`).
- A cancel while the file is hashed or waits does not stop its flow.

## Proofs

`UploadSessionProofs`, for any users, slots, upload ids, number of parts, mode,
endpoints and faults (from `RequestAssumption`, `ModeAssumption`,
`CephAssumption`: the empty lock, user and upload id are none of the others, the
file has a part, and one only when it is not multipart):

- `TypeCorrect` and `CompletedIsIndexedAlways`, from one inductive invariant
  `IInv`. `CompletedIsIndexed` is not inductive, because handlers write rows and
  statuses they read earlier: `HandlerInv` adds that a row about to be saved is an
  unfinished one with a user (`SavesUnfinished`), a status to be restored is one
  that could be cancelled (`RestoresCancellable`), and a status is set by id only
  on a row that exists (`UpdatesExisting`). One lemma per action
  (`<Action>Step`) shows that it keeps `IInv`.
- `LockIsExclusive` and `LockIsReleasedByOwner`. `LockSteps` shows that only
  `AcquireLock`, `Unlock` and `LockExpires` move the lock or let a request past
  `SetNX`; with that, `LockExclusive` is inductive relative to the types.

- `ImplementsContract`, from the same `IInv`: the tables change by few kinds of step
  (a handler writes a row that is not complete; the consumer publishes; an instant
  upload shares), and each is a step of the contract or a stutter.

`OpenUploadProofs`, for any number of requests at once:

- `ObjectBackedAlways`, if clients do not cancel: an invariant `NoneDrops` says that
  no handler is about to remove the object, which only an abort does; a completed
  object is announced only when it is there (`Backed`).
- `NamedIsOpenAlways`, if clients do not cancel, whatever else fails: without an abort
  only an assembly closes an upload, and then the object is there and the session never
  unfinished again, so every id that the row or a handler keeps is an open upload's.
- `WritableIsOpenAlways` and `CachedPartsExistAlways`, under `Calm`: multipart,
  no slow initiations, endpoints without cancel, pause and resume, faults
  `outage`, `reply` and `sent`, so while MySQL serves. Each exclusion is one the code
  needs, as the list above and the runs show: a cancel closes an upload another request
  is using, a resume makes a row writable whose initiation failed, a crash, a Save that
  fails or an initiation that outlives its lock leaves an INIT row for the next one to
  take over. The
  inductive invariant `OpenInv` adds what the two leave out: that an INIT row has an
  initiation that holds the lock and will save the upload it began, that handlers
  that read a row, save it or complete it name its own upload, and that parts on
  their way to Redis are in it.

`UploadPlanProofs`: `PlanAlwaysFits`, for every size and any values of the four
constants, from lemmas on rounded quotients (`CeilDivBounds`), on chunks
(`LargeChunkHolds`, `ChunksCover`) and on slices (`SliceBounds`).
`EveryPlanFitsAlways` carries it to the sessions of the run.

`MaintenanceProofs`, for any users, files, names, unique keys, ids, times and page size,
and every fault:

- `ListedIsStoredAlways`. The invariant `MInv` says that an event is the session's of its
  id or `outlived`, that a hash which is listed or announced has a session that cannot
  be cancelled and an object in Ceph (`Settled`), unless one of the three reasons is on
  record, and that ids in use are below the counters, so one handed out is new. Every
  step of an upload rewrites one row in one way (`Uploads`), whose effect is one lemma.
- `PartsAreOwnAlways`, if no reset stops half-way, which breaks it: `PInv` adds that the
  parts that are cached were sent under ids below the counter.
- `TypeCorrect`, which includes the two unique keys. `TInv` states them row by row
  (`OneObject`, `OneRow`); a row is inserted only under a key that no other has, and the
  library's theorem on counting by a bijection makes the cardinalities of `TypeOK` of it.
- `OwnerIsUploaderAlways`: `OwnerInv` says that the consumer's transaction gives a file
  its uploader's row before anybody can be about to attach it (`ListedLate`), and that
  ids grow (`ListRowsOK`), so the lowest stays the uploader's (`UploaderFirst`).
- `InstantIsListedAlways`, from `OwnerInv`, case by case of how the insert ended.
- `NothingSkippedAlways`. `NothingSkipped` speaks of the last page only; the invariant
  `AllAhead` says of every moment that a row which is still to be seen is listed, and
  ties with another or has as many newer rows before it as the pages shown have gone
  past. A row that ties with none is on the page its place is on (`AloneIs`). Inserted
  rows only add to what is newer and to what ties, because rows keep their times and
  leave no listing (`ListsGrow`): `FillsNothing` says that metadata is filled in
  only where there was none, so a row that a filter takes stays as it is
  (`RegionsStay`), which needs the uniqueness of `TInv` and `ListedLate`.

`AnalysisCacheProofs`, for any workers, tokens, lease, lag and TTLs (from
`CacheAssumption`, in which the lag, at most InnoDB's 50 s of waiting, is not
longer than the 90 s lease):

- `TypeCorrect`; `LeaseIsHonoured`; `CacheIsFenced`, the refinement of
  `FencedCache`, step by step.

`PartStreamProofs`, for any size, length, window and faults: `OnlyStoredIsRecorded`,
from an invariant that says what the result in the channel tells of Ceph
(`ResultTrue`) and by which way the handler comes to `RecordPart` (`HandlerTrue`).

`DownloadProofs`, for files of every size, headers with any numbers, and every
buffer, window and fault:

- `RangeIsNamedAlways`, from two lemmas about `ParseRange` (`ParseRangeRefuses`: it
  accepts the headers that name a byte; `ParseRangeNames`: it returns the first and the
  last of them) and the fact that nothing is announced before it (`Unanswered`).
- `BodyIsNamedAlways`: `BInv` says that the body, the chunks on the wire and the
  handler's own chunk are one run of consecutive bytes that ends where the handler reads
  next (`Linked`, `Reading`, `Received`), that nothing beyond the last named byte is in
  it, and that a gateway which ended with the stream unbroken has taken everything
  from the wire.

`BrowserUploadProofs`, for any number of parts, senders, flows and task objects:

- `TypeCorrect` and `FinishedIsCataloguedAlways`, with every operation, failing calls
  and views that are left: `BInv` adds that whatever a flow works on is one of the task
  objects, and that while another user uploads the hash (`busy`) every task is still at
  its first call (`Early`) and no flow awaits a `Later` one. That a runner takes a part
  of its queue (`NextPartIs`) needs the least of some numbers: the library's `WFMin`
  gives it without an induction (`SetsHaveMin`).
- `RecoverableAlways` and `IdIsKeptAlways`, if the user neither cancels nor leaves the
  view (`KeepsRecords`). Both are needed: a cancel deletes the record of a task
  that has no id yet although its initiation had its effect, and the `restore` of a visit
  reads a record from before the hash and deletes it when the flow has gone on. `KInv`
  says, as long as the file is not catalogued, that all flows work for one task object
  (`OneTask`), that `restore` runs alone (`RestoreAlone`), and that once the server may
  have a session every copy of the record has the hash or the id (`RecordsKept`). That
  is what `Recoverable` asks of the record: it names the session, or the file whose
  session it is. With the hash alone the task is shown again but cannot be resumed.

With these every invariant and every action property of a passing run is a theorem,
under the assumptions named.

Only model-checked: `WritableIsOpen`, `CachedPartsExist` and `ObjectBacked` with
cancels, one request at a time (a proof would be about what one handler after the other
leaves behind a crash); and all liveness (`FinalizingResolves`,
`AnnouncedIsIndexed`, `Recovers`, `BusyEnds`, `UploaderEnds`, `HandlerEnds`, `ReadEnds`), which
rests on fairness and ENABLED and is out of the prover's reach.

## Not modelled

- Generated contracts (`contracts/gen`): field accessors, descriptors and stubs
  that `protoc` writes, 6855 of the repository's 9400 lines of code. They decide
  nothing; what their messages mean is in the modules of the services.
- Authentication and the user service: one query or insert and library calls for
  tokens and passwords. The signing of tickets likewise.
- The parsing of a scientific name, of a hash and of a folder: library calls on a
  string, of which the models take the outcome.
- `GetFile` and `ResolveDownload`: reads of one row by its id; the filters by year,
  text and folder, and `total_size`.
- Views other than the pages of `FilesView`, start-up, configuration, and the
  commands that only report (`doctor`, `-verify-only`).

`PROJECT.json` has a row for each.

## Plan

What is left, most useful first:

1. `ObjectBacked`, `WritableIsOpen` and `CachedPartsExist` with cancels, for one
   request at a time and any number of parts and upload ids.
2. Two readers in `attachExisting` at once, and answers of `FilesView`'s calls out of
   order (`files.ts` shows whichever arrives last).
3. A second tab and failures of IndexedDB in `BrowserUpload`.
