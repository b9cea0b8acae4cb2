# pgs3 in TLA+

pgs3 is an S3 object store that lives inside PostgreSQL: an extension whose SQL
functions (`sql/bootstrap.sql`) implement buckets, versioned objects, multipart
uploads and garbage collection, and whose background workers (`src/`) speak HTTP,
verify signatures, stream bodies and call those functions in short transactions.
This directory holds a model of it in TLA+, TLC configurations that check the model on
small instances, and TLAPS proofs of what matters most.

`PROJECT.json` lists the components, the runs with their properties, the source
lines behind every definition, the hazards the properties are meant for, and the
disagreements found. Paths below are relative to the repository root.

## Inventory

| Component | State | Operations | Talks to |
|---|---|---|---|
| Buckets and versions (`sql/bootstrap.sql`) | `bucket`, `object` with `is_latest`, two sequences | create, delete, put, delete (marker or version), bulk delete, copy, restore, fork | blobs through triggers |
| Blobs | `blob` with refcount, `chunk`, `blob_extent` | ensure, compose, read, count (triggers on four tables) | everyone that owns bytes |
| Uploads | `upload` with lease and condition, `upload_chunk`, `upload_part` | begin, renew, chunk, part, complete (three ways), abort | blobs, versions |
| Garbage collectors | none of their own | expire uploads, collect zero-count blobs | uploads, blobs; called by the GC worker every minute |
| Locks | advisory locks on bucket names and keys, row locks | taken by every mutating function | all of the above |
| Listing | cursors that clients carry | list, list versions, list parts, probe for one row more | versions, uploads |
| Credentials, roles, row security | `credential` | create, rotate, disable, look up | every function through `_actor` |
| HTTP worker (`src/workers/http.rs`) | connections, exchanges, gauge deltas | accept, read, frame, write, time out, abandon, flush | S3 service, `worker_metric` |
| Wire framing (`http.rs`, `src/protocol/chunked.rs`) | decoders | head, Content-Length and chunked framing, aws-chunked with signatures and trailers | HTTP worker, body sessions |
| S3 service (`src/s3/service.rs`) | body sessions with digests, buffer, sequence, lease heartbeat | head, push, finish, abort; reads, copies, completions, listings | SQL functions through `db.rs` |
| Database access (`src/s3/db.rs`) | transaction, tenant role, statement timer | transaction, request context, error boundary | SQL functions |
| Launcher (`src/workers/launcher.rs`) | worker pool, state rows | reconcile, spawn, stop, heartbeat; `start()`, `stop()` | workers, `worker_state` |

What is hard in this system, and what correctness means for each part:

* **Versions.** Version ids come from a sequence and are drawn before COMMIT, the
  latest flag is a column moved by hand, and deleting the latest version promotes
  another. Correct: the flag is on the newest version of each key and nowhere else;
  history is only appended to or deleted from, never rewritten.
* **Blobs.** One row per digest is shared by versions, staged chunks, parts and
  composites, under a refcount maintained by triggers, cascades and one set-wise update
  with triggers disabled. Correct: the count is exact, nothing refers to a collected
  blob, a composite spells its body, a stored blob never changes.
* **Uploads.** A body is staged over many transactions by a worker that can vanish at
  any point, while the lease keeps the collector away. Correct: completion publishes
  exactly the staged bytes, its condition is decided at publication, and whatever is
  abandoned is reclaimed.
* **Locks.** Every function takes several locks, in an order meant to be global.
  Correct: the concurrent transactions do what atomic ones would, every call ends,
  and races end in S3 errors.
* **HTTP.** Timeouts race late data, panics unwind through a request, SIGTERM abandons
  requests, pipelined bytes wait behind an answer. Correct: a request ends, its session
  is settled, worker and peer agree where a message begins, the in-flight gauges balance.
* **Framing.** A message arrives in slices of any size, and a signed body must not be
  passed on before its chunk is verified. Correct: the verdict does not depend on the
  slices, nothing the client has not signed comes through, buffers are bounded.
* **Reads and listings.** An answer is put together from several transactions, and
  pages are separate requests. Correct: no answer mixes two versions, a guard decides
  over what is then done, a listing neither loses nor repeats a row.
* **Pool.** Launchers crash, restart and replace each other, and coordinate through rows
  that outlive them, while settings change and SQL sessions start and stop the pool.
  Correct: in the end the pool is what was last asked for, one launcher and one worker
  per slot under the configured role, or none.

## Modules

### ObjectStore

The tables of `sql/bootstrap.sql` as functions, and one action per SQL function. A
function is one transaction; one that raises is rolled back and so is no step. A body is
the sequence of its bytes and stands for its digest, which keeps deduplication,
composition and collisions of layouts visible: a body put directly, a chunk and a
composite of two chunks may be the same bytes. Optional columns are sets of at most one
element. The extra component `height` of a blob row is the depth of its extents, a
history value that lets `ReadsBack` say that reading ends; no guard uses it, except for
`Hashable`, which is the nesting limit of the readers.

`leased` and `idle` are the two sides of time that matter: whether `lease_expires_at`
is in the future, and whether `updated_at` is older than the age the GC worker passes.
`LeaseExpires` and `StagingAges` are the passing of time.

| Actions | SQL |
|---|---|
| `CreateBucket`, `DeleteBucket`, `Fork` | `create_bucket`, `delete_bucket`, `fork_bucket` |
| `Put`, `Copy`, `RestoreVersion` | `put`, `copy`, `restore` and their `_commit_*_locked` helpers |
| `Delete`, `DeleteMany` | `delete`, `delete_many` (of two entries) |
| `BeginUpload`, `RenewUpload`, `PutChunk`, `BeginPart`, `CompletePart`, `PutPart` | the staging functions |
| `CompleteUpload`, `WorkerCompleteUpload`, `CompleteMultipartUpload`, `AbortUpload` | `_complete_upload` for SQL callers and part lists, `_worker_complete_upload` |
| `GcPendingUploads`, `GcBlobs` | the collectors |

`EnsureBlob` is `ON CONFLICT DO NOTHING`; `EnsureComposite` and `CompositeExtents` are
`_ensure_staged_blob` and `_ensure_composite_blob`; `Adjust` is all refcount triggers:
an action gives it the rows that come and go.

### Sessions

The same functions as concurrent transactions under READ COMMITTED. A session makes one
call; `Program` gives its statements, and one step runs one statement, which takes
its locks, sees what is committed by then, and adds to the private writes of the
transaction, which later statements of the same transaction see (`Rows`, `Flags`: a bulk
delete may delete what it has itself written). `Commit` applies them and releases the locks; `Raise`, `Cancel` and
`DeadlockDetected` roll back. PostgreSQL is modelled as the code relies on it: advisory
and row lock conflicts, `INSERT ... ON CONFLICT` waiting for writers of the row,
`FOR UPDATE SKIP LOCKED`, an `UPDATE` that skips a row deleted under it, and a detector
that fails one session of a cycle. Statement order, and in particular where a lock is
taken relative to what is read, is the subject here, so bodies are atoms, an upload
stages at most one chunk, and there are no composites. Foreign keys are left out on
purpose: `NoDangling` says that they never have to intervene. A blocked
lock request does not block later compatible ones (PostgreSQL would queue them), which
allows more interleavings, not fewer.

### VersionedBuckets

What clients are promised: names, a history of versions per key, and atomic
operations on them, without blobs, uploads, locks, or flags. A fork may be the state of
its source at any one moment while it ran (`shots`), since `fork_bucket` takes its
snapshot before it commits. `ObjectStore` implements it, seen through `BucketIds` and
`History` (`KeepsPromises`), and so does `Sessions`, statement by statement
(`ActsAtomically`).

### BodySessions

The body sessions of `src/s3/service.rs`. A request that carries an object or a part is
served in many short transactions, between which other sessions, SQL clients and the
collector run and the worker may die. A session holds the fields of `BodySession` that
decide what is stored and when: bytes received and not yet staged, buffer, sequence,
manifest, age of the heartbeat. Byte i of request r is `<<r, i>>`, so a published body
tells whose bytes it is made of. Digests and ETags stand for the bytes they are
computed from, decoders for their output; a request may or may not carry
`x-amz-checksum-sha256`, the one digest that `complete_part` is given.

| Actions | Code |
|---|---|
| `HandlePut`, `HandlePart` | `prepare`: direct or staged, `begin_upload` or `begin_part` |
| `PushBody`, `AcceptDecoded`, `RenewUploadLeaseIfDue` | `push_body` and its loop, one transaction per step |
| `FinishDirect`, `FinishPut`, `FinishPart`, `CompletePart` | `finish_body` by kind of session |
| `SessionFails`, `AbortBody`, `Cleanup`, `WorkerDies` | `fail_session`, `abort_body`, `cleanup`, and no clean-up at all |
| `CreateMultipartUpload`, `CompleteMultipartUpload`, `AbortMultipartUpload`, `SqlPutChunk`, `GcPendingUploads` | the SQL functions, atomic |
| `Tick` | one heartbeat interval passes; a worker is back at each session within `Slack` and times out a silence of `BodyIdle` |

The SQL calls are atomic because each holds its upload row to the end; `Sessions` looks into
them. `SqlPutChunk` concerns the upload of a `PutObject`, whose id no client has been
given; that a tenant who writes chunks into its own multipart upload changes it is no
surprise, and is left out. `Overlap` says whether clients may repeat a part before its
previous try has ended.

### HttpWorker

One worker process. Its loop is single-threaded and visits one connection at a time, so
`Drive` is one visit: `Connection::drive` as a composition of stages (`drive_timeout`,
`drive_continue`, `drive_read`, `drive_write`), each a function from a connection to the
set of its outcomes, and then `Settle`, the match on `DriveResult` in
`drive_connections`. The handlers that a read reaches (`ingest`, `handle_head`,
`ingest_body`, `finish_body`, `abort_session`) return sets too: the answer of the S3
service is a choice, and any call of it may panic, which `drive` catches as
`catch_unwind` does. One visit reads once; the further reads the code makes in the same
visit are the next visits. Between visits the peer acts (`Send`, `Arrive`, `Hangup`,
`Break`, `Stall`) and time passes (`Idle`). Bytes are tokens that say what they are for:
a piece of a head, its end, a piece of an entity, a piece that breaks its framing.

`Heartbeat` is `flush_metrics`, in which any subset of the transactions may fail;
`Stop` is SIGTERM, `Exit` an error that ends the process, `Start` the replacement, and
`Promote` the end of recovery, before which nothing is written. `Flushed` is
`_worker_add_metric` and `Shown` the view `pgs3.stats`.

### Launcher

The launchers, the workers as processes, `pgs3.start()` and `pgs3.stop()`, and the rows
of `worker_state`. The loop of a launcher is cut where it commits or waits, so two
launchers, a control call and dying workers interleave.

| Actions | Code |
|---|---|
| `SighupReceived`, `StandbyReconciles`, `SigtermReceived`, `Leave` | `pgs3_launcher_main`, `mark_launcher_stopped` |
| `cleanup_orphan_children`, `terminate_orphan` | the clean-up before the first claim: one worker after the other is signalled and awaited, two seconds at most |
| `claim_launcher_state`, `heartbeat_launcher` | the transactions on the launcher's row |
| `Decide`, `Ready`, `Refuse`, `Collector` | `WorkerPool::reconcile`: a changed role or surplus slots, the check of the role, the rows that say why, the collector |
| `Terminate`, `record_child_stopped`, `spawn_child`, `record_child_starting` | `stop_managed`, `spawn_child` and the rows they write |
| `StartRefused`, `StartNew`, `StartFound`, `set_existing_launcher_desired` | `start_dynamic` |
| `StopFound`, `terminate_live_children`, `terminate_pid`, `Awaited`, `mark_pool_stopped` | `stop_dynamic` |
| `Running`, `Stopped`, `ExitsAlone` | a worker records itself, acts on SIGTERM, or ends without a word |
| `Crash`, `Restart`, `Reload`, `Drift`, `Promote` | the server: crashes, the postmaster, settings, grants, promotion |

A control call holds `CONTROL_LOCK`, so there is one at a time. A process has its own
copy of the settings until it acts on SIGHUP (`hup`), a worker keeps the role of its
start, and `pg_terminate_backend` is false of a process that has ended before, which
makes `stop()` return false. The code takes the oldest launcher that `pg_stat_activity`
shows; the model takes any. Everything the environment does is on a budget, waits that
time out and workers that do not start included.

`asked` is a history variable: what was asked for last, and by whom. The setting counts
(`enabled`, `disabled`) while the static launcher is registered, `started`, `stopped` and
`stop failed` are control calls that have returned, a dynamic launcher that crashed
leaves `crashed`, and a request that overlaps another one or a crash is `unclear`. No
guard looks at it. `Hasty` says whether a control call or a reload may come before the
launchers have taken up the last one (`Calm`, `TakenUp`); where they may, the pool does
not become what was asked for, see the disagreements.

### Decoders

The request head parser and the entity framing of `src/workers/http.rs` and the
aws-chunked decoder of `src/protocol/chunked.rs`, byte by byte. A byte is a symbol: the
control characters, digits, a few whole header fields, and a signature that names the
chunk it signs, so that it verifies exactly after the chunks before it. `Push` feeds a
slice of any length, `Eof` ends the stream. A size has at most `MaxDigits` digits and
must fit a word, as 16 digits and 64 bits in the code. `Whole` is the reference: the
grammar of a message, read from the complete stream at once, with definitions of its own
for lines and numbers (`Denoted`, `WholeSize`, `WholeTrailer`).

### Listing and Reads

`Listing` has `list` and `list_versions` as operators on one snapshot: the index-jump
scan over keys compared by bytes, folding into common prefixes, `_prefix_end`, and the
cursors. `Reads` is the part of the S3 service that answers from several transactions:
`authorize`, GET and HEAD with preconditions, ranges and `If-Range`, CopyObject,
CompleteMultipartUpload with checksums, and the four listings, page after page with the
probe of `db.rs`. One step is one statement or one piece of handler code between two of
them. `transaction` and `with_request_context` are steps of their own: refusal on a
standby, timer, tenant role, commit; a statement may raise, or the timer may fire, at
any point, and the error boundary has to leave the session clean. A row that cannot be
decoded is an error of another kind: the closure returns it, and the transaction commits
(`decode_fails`). A completion of an upload whose algorithm is not supported is refused
with 501 (`Supported`). `Others` are the
writers that come in between, and `past` is every state of the store and the upload
since the request began, against which an answer is judged.

### Proof modules

| Module | Extends | Theorems about |
|---|---|---|
| `ObjectStoreProofs` | `ObjectStore`, `LeastElements` | types, latest flags, append-only history, reference counts, nothing dangling, immutability, reading back, create-only, implementation of `VersionedBuckets` |
| `SessionsProofs` | `Sessions`, `LeastElements` | the invariant of concurrent transactions, and the statements that write no object row |
| `SessionsCommitProofs` | `SessionsProofs` | the other statements, COMMIT, and the theorems about `Sessions` |
| `BodySessionsProofs` | `BodySessions`, `LeastElements` | the lease, types, bytes of objects and parts |
| `HttpWorkerProofs` | `HttpWorker`, `LeastElements` | types, sessions, gauges, message boundaries |
| `ReadsProofs` | `Reads`, `LeastElements` | answers of one version, guarded copies and completions, the role of a statement |
| `LauncherProofs` | `Launcher`, `LeastElements` | types, signals |
| `LeastElements` | | least counterexamples, flattened sequences |

### Configurations

`MCVersions` and `MCMultipart` instantiate `ObjectStore`;
`MCSessions` names the calls and the scenarios in which they meet (the sessions that run
and the database they start from), and its configurations pick scenarios
(`MCTransactions`, `MCForkRace`). `MCBodySessions` serves `MCBodies` and
`MCPartOverlap`; `MCHttpWorker` names requests of each kind, `MCDecoders` builds the
byte streams, `MCReads` the requests with the stores they meet (`MCReads`,
`MCVersionPages`). `MCLauncher` bounds what one behaviour of `Launcher` has at once;
`MCStopRace` only gives numbers.

Six more configurations are no runs of `PROJECT.json` and each has a counterexample, told
under the disagreements: `MCBulkRace` and `MCDropRace` (with `MCSessions`),
`MCPartCleanup` (`MCBodySessions`), `MCPartsZero` (`MCReads`), `MCStartRace` and
`MCRoleRace` (`Launcher`).

## Runs

| Run | Instance | What it shows |
|---|---|---|
| `versions` | two buckets, one key, one body, an upload of the same bytes, three versions and bucket ids | latest flags, counts, create-only and history through every operation on versions, forks, bucket reuse and both collectors; all of it a refinement of `VersionedBuckets` |
| `multipart` | two parts, chunked or whole, replaced, listed in any order, left at any point; collectors that take one row | composites of composites spell their bodies, deduplication against other layouts, counts, immutability; everything abandoned is collected |
| `transactions` | five meetings of calls (below), statement by statement | exact counts, nothing dangling, latest flags, one create-only winner, atomicity, every call ends |
| `bodies` | two PutObjects or tries of one part, empty or up to four bytes in chunks of two, known length or not, as slow as the idle timeout allows, failing or crashing anywhere; a SQL session that replaces chunks; a collector that spares no age | exactly the body is published, an answered part is kept, buffers stay within their limits, the lease is held, every upload ends |
| `http_worker` | one socket, a batch of up to two pipelined requests of each kind, one replacement process | gauges exact, sessions settled, worker and peer in step, every request ends |
| `launcher` | two HTTP slots, the collector, two roles, two events, one crash, any initial mode, primary or standby | the pool becomes what was last asked for: one launcher with its own workers under the configured role, or none |
| `decoders` | eight honest messages and over 2800 damaged, reordered or oversized ones, in every slicing | framing as the grammar says, nothing unsigned passed on, honest streams accepted, buffers bounded |
| `reads` | 159 scripts of one or two requests over small stores, two writes of others in between, an error or timeout anywhere | answers of one version, guarded copies and completions, complete listings, no leaked role, every request ends |
| `fork_race` | fork, version delete, collector | **violated**, see below |
| `part_overlap` | two overlapping tries of a part | **violated**, see below |
| `stop_race` | `start()` and then `stop()`, no faults | **violated**, see below |
| `version_pages` | one bucket, nobody writes, versions with a delimiter | **violated**, see below |

The meetings of `transactions`, one per initial state: a create-only put that may be
cancelled, a create-only completion, a bulk delete by version and both collectors, all
over the same bytes; put, copy, chunk replacement, abort, bulk delete and collector,
which attach and detach one blob from all sides; bucket deletion and creation against
put, begin, complete and abort; a fork against put, delete marker, version deletes and
the deletion of its source; two bulk deletes of versions that share two blobs, in
opposite orders, and a collector. The fork meets no collector there: with one, it is `fork_race`.

Bounds. Two buckets let a fork and an operation on its source disturb each other, and a
name be reused; three versions let a key have an older version, a marker and a promoted
one, and a fork copy them; a part of two bytes sent whole and the same
bytes staged in chunks of one collide as blobs; two parts suffice for order and replacement; `GcLimit` is 1
where draining is checked, so that a collector stops half way. `MaxVersion`,
`MaxBucketId` and `MaxChunkSeq` bound the sequences. In `Sessions` the calls that race
are a fixed handful per scenario, chosen so that they meet on the same name, key, upload
row or blob. `BodySessions` counts time in units of the heartbeat interval of 60 s: the
lease is 5 units, the idle timeout 1, and a worker may be 1 late; `MaxAge` is 0 so that
only the lease protects an upload. Chunks of two bytes and bodies of zero to four reach
every branch of the staging loop: empty, exactly one, one and a half, exactly two.
In `http_worker` connections share nothing but the deltas, which are sums, so one socket
shows what a request does to them; the price is that the overload answer, which raises
and lowers a gauge at once, is not reached. A second batch would only repeat what the
pipelined batch does. `MaxPids` of 2 is one replacement, in both orders with `Promote`.
In `launcher` an event is a control call, a reload, a change of grants, a worker that ends
or does not start, a wait that times out, or the promotion. `MaxLoad` of 3 bounds events,
crashes, the second HTTP slot and the presence of a static launcher together: a dynamic
pool has two events and a crash (started, crashed, started again), a static one two
events, or an event and a crash (which may be a `start()` in between, so that two
launchers meet), and with two slots one less. `MaxPid` exceeds the pids that can be
remembered at once, so a pid is reused only when nothing refers to it. The limits
of `decoders` are a few bytes each, and its streams reach each of them from below, at it
and from above; `MaxDigits` is 3, and there are sizes of two to four digits, with and
without a word that overflows. In `reads` the keys are of up to three of three code points, the
greatest included, so that `_prefix_end` has to carry and to give up; two writes let a
version be replaced and its successor be deleted between two transactions. Deadlock
checking is off, except for `http_worker`, because these systems may stop: every bound
reached, every call done, the stream read. `versions` is symmetric in bucket names,
which the model only compares for equality.

Fairness. `multipart` assumes that the GC worker keeps calling both collectors (it does
every minute, `src/workers/gc.rs`) and that time passes for leases and ages; nothing is
assumed of clients, and the property is about behaviours in which they stop.
`bodies` assumes that a worker goes on with the sessions it holds (its loop visits
every connection, and a silent one is aborted), that the GC worker runs and that time
passes; clients need not send anything and workers may die. A SQL session that writes to
an upload for ever keeps it for ever, and the property says so. `transactions` assumes
that a session whose statement can run eventually runs it, and that PostgreSQL resolves
deadlocks; cancellation is never required. `http_worker` assumes that the loop comes
round to every connection (it sleeps at most `REACTOR_MAX_SLEEP`) and that time passes;
peers need not do anything. `launcher` assumes that a launcher goes on looping (every
250 ms), that a worker acts on SIGTERM and records itself, that a control call runs on and
that the postmaster restarts a static launcher that crashed. `reads` assumes that the
worker goes on with the request it has.

## Disagreements

* `fork_race` (`sql/bootstrap.sql:2340`). `fork_bucket` inserts the copied rows and
  raises the counts of their blobs in one statement, triggers and foreign keys disabled,
  and does not lock the source rows. A version delete and `gc_blobs` that commit after
  the statement's snapshot remove the blob; the `UPDATE` skips the missing row, and the
  fork commits a version whose blob is gone. The comment there says the references are
  "already protected by a source row".
* `part_overlap` (`sql/bootstrap.sql:3077`). A staged chunk is keyed by upload, part and
  sequence. When a client repeats an UploadPart while a worker still receives the first
  try (a client that gave up on a connection the server has not seen close), the second
  `begin_part` deletes the chunks of the first, but the first goes on storing. What
  `complete_part` hashes is a mixture, its ETag is the answer, and
  CompleteMultipartUpload accepts it. A request with `x-amz-checksum-sha256` is refused
  instead. `docs/schema.md:226` calls `begin_part` "the explicit generation boundary used
  before accepting a replacement body".
* `stop_race` (`src/workers/launcher.rs:123`). `stop()` learns whether a launcher is
  dynamic from the row the launcher writes when it claims its state. Between the start
  of a dynamic launcher and its claim the mode is unknown; `stop()` then takes the launcher
  for a static one, leaves it alone, marks a row without a pid and returns true. The
  launcher claims the row, keeps its own `desired`, and starts the pool. The comment
  says "Stop the pool in the caller's current database".
* `version_pages` (`sql/bootstrap.sql:2776`). The `next_key_marker` after a common prefix
  is the first string above the prefix, but a key marker is exclusive, so a key that
  equals it (`a0` after the prefix `a/`) is on no page of a delimited ListObjectVersions,
  and when it is the only one left the probe calls the page the last one. `list` has an
  inclusive flag in its token for this case. The README promises "ListObjectsV2 with
  prefix, delimiter, pagination, and version listing".

Six more are not runs of `PROJECT.json`; TLC finds the counterexample with the
configuration named.

* `MCBulkRace` (`sql/bootstrap.sql:2099`, `BulkDeletesNeverVictims`). `delete_many` locks
  its keys in byte order, but each delete of a version updates the count of its blob by
  trigger, in request order. Two calls of disjoint keys whose versions share two blobs
  wait for each other, and one fails with `deadlock_detected`. `docs/decisions.md:202` says
  that the stable order is taken "to avoid deadlocks". That both calls end is part of
  `EveryCallEnds` in `transactions`.
* `MCDropRace` (`sql/bootstrap.sql:1780`, `ChildCreatorsNeverVictims`). `complete_upload`
  locks the upload row and then the bucket name, `delete_bucket` does the opposite, and
  the completion may be the victim: an internal error, where `docs/decisions.md:616` says
  "never an FK or internal error". Again `EveryCallEnds` covers the end of both.
* `MCPartCleanup` (`src/s3/service.rs:1629`, `AnsweredPartKept`). The clean-up of a try
  that fails after a later try of the same part was answered calls `abort_part`, which
  deletes the part that the client was told is stored.
* `MCStartRace` (`src/workers/launcher.rs:83`, `StartStarts`). A `stop()` that gives up
  after four seconds returns false while the launcher still waits for its workers; the
  next `start()` finds that launcher, writes into its row that it is to run, and returns
  true. The launcher goes on leaving. The comment says "Start or reactivate the pool in the
  caller's current database".
* `MCRoleRace` (`src/workers/launcher.rs:318`, `RoleFollows`). The launcher compares the
  configured role with the one it saw at its last reconciliation, and a worker takes its
  role from the settings of its own start. A role changed and changed back while a worker
  starts leaves it serving as the one in between. `docs/guc.md:26` says "On SIGHUP the
  launcher stops old-identity listeners".
* `MCPartsZero` (`src/s3/xml.rs:211`, `EveryRequestEnds`). ListParts takes `max-parts=0`
  and answers with an empty page that is truncated and continued where it began, so a
  client that follows the pages never comes to the end. `docs/pitfalls.md:280` says "Do
  not infer truncation from “eligible data exists” when `max-keys=0`"; the other
  listings have the guard (`is_list_truncated`).

## Proofs

The theorems hold for every choice of the constants that the named assumptions allow,
where a run takes one small instance. They are listed in `PROJECT.json`; the lemmas
they rest on carry comments in the proof modules.

### ObjectStore

From `BoundsAssumption`, `PartNoAssumption`, `UsageAssumption`, `BodyAssumption` and
`CondAssumption`; any number of buckets, keys, roles, bodies, uploads, parts and limits.

| Theorem | States |
|---|---|
| `TypeCorrect` | `TypeOK` is an invariant |
| `NewestIsAlwaysLatest` | `LatestIsNewest` is an invariant |
| `HistoryNeverRewritten` | `HistoryAppendOnly` holds |
| `RefcountsAlwaysExact` | `RefcountExact` is an invariant |
| `NothingDangles` | `NoDangling` is an invariant |
| `StoredBlobsImmutable` | `BlobsImmutable` holds |
| `StoredBytesReadBack` | `ReadsBack` is an invariant |
| `CreateOnlyHolds` | `CreateOnlyNeverCovers` holds |
| `StoreKeepsPromises` | `KeepsPromises`: the implementation of `VersionedBuckets` |

*History.* `LatestIsNewest` alone is not inductive: that a new version is above the
others of its key needs the sequence to be ahead of every version id, which is part of
`TypeOK` (`ObjectOK`), and a fork's destination must have no versions yet, which follows
from bucket ids in rows being below `bucketSeq`. The inductive invariant is therefore
`TypeOK /\ LatestIsNewest` (`HistoryInvariant`). The argument has three layers: lemmas
on the row operators (`InsertKeepsNewest`, `RemoveKeepsNewest`, `DeleteOneKeepsNewest`,
`ForkKeepsNewest`), lemmas on the refcount operators (`AdjustedTable`,
`EnsureBlobTable`, ...: what they leave of the blob table), and one lemma per conjunct
of the invariant with one step per action. `HistoryNeverRewritten` follows from the same
invariant.

*Reference counts.* An exact count alone does not survive the collectors: that
collecting a blob leaves no row behind needs every row to have its blob, and that needs
the counts. `InBalance` is both at once over the five tables (`Balanced`: finite tables,
`Counted`, `Closed`), and `Anchored` says that versions and uploads have their bucket
and staged rows their upload, which is what the cascades rely on. `ReferenceInvariant`
proves the two together. The lemmas `HeldAfter...` say how the number of rows that own a
blob changes when rows are inserted, replaced, deleted or copied; `...Balanced` lemmas
put an operator of the model beside them, one per trigger situation, and
`BalancePreserved` has one step per action.

*Bytes.* `AllReadable` is the inductive form of `ReadsBack`: the extents of a composite
come from some list of sources that spells the body, each lower than it (`Readable`),
and no extent is left of a blob that is gone. That cutting a body into chunks and
joining them again gives the body (`CutAt`, `Spells`) is an induction over its length.
`CreateOnlyHolds` rests on the condition being evaluated in the step that inserts the row.

*Refinement.* `BucketIds` and `History` are what a client can tell of the tables.
`StepEffects` sorts the steps by what they show: nothing, one inserted version in a
bucket that exists, deletes, a fork, or a change of the bucket table; each has its lemma
(`PublishAbstract`, `DeleteManyAbstract`, `ForkAbstract`, ...). The mapping needs all
invariants: that a completed upload publishes into a bucket that still exists is
`Anchored`, that a fork copies what a reader sees is `LatestIsNewest`, and fresh ids
are `TypeOK`.

### Sessions

From `NameAssumption`, `GcAssumption`, `CallAssumption`, `ScenarioAssumption` and
`UploadAssumption` (a new upload has an id that nobody else has); any number of sessions,
any calls with any arguments, any database they start from, any of them cancelled.

| Theorem | States |
|---|---|
| `SessionsInvariant` | `Inv`, the inductive invariant |
| `LatestAlwaysNewest` | `LatestIsNewest` is an invariant |
| `CreateOnlyWins` | `CreateOnlyNeverCovers` holds |
| `SessionsImplement` | `ActsAtomically`: the implementation of `VersionedBuckets` |

None of the three properties is inductive: what is committed depends on what a
transaction found many statements earlier. `Inv` says why that is still true at COMMIT.

*Statements.* `Requires` and `Provides` give, per statement, the facts it relies on and
the ones it establishes: the bucket id found under the lifecycle lock (`Ready`), a key
lock (`HasKey`), the condition checked under it (`Checked`), the locked upload row, the
source of a fork, an empty bucket (`Emptied`). `Todos` says that whatever a statement
still to run requires holds already or is provided before it (`Prepared`), whatever the
program became at run time. Nobody else can take a fact away, because every step that
could would need a lock that conflicts (`LockSafe`).

*Private writes.* `Data` is about what an open transaction is going to commit: it
writes only keys that are its own (`Mine`: locked, or in a bucket nobody else knows yet),
its version ids are newer than any committed one of the key (`Fresh`), and the tables as
it sees them, committed rows under its own writes, have the latest flag where it belongs
(`Views`). `Named`, `Uploads` and `Finite` are the same for names, upload rows and the
scans.

*COMMIT.* One transaction's writes become everybody's tables. `Views` gives the
property for the committed state; for every other open transaction it is kept because
two transactions never own the same key. The refinement is read off the same facts: a
committing put is one `Publish`, a bulk delete one `DeleteVersions`, a fork one `Fork` of
its `shot`, and every other step shows nothing.

### BodySessions

From `SizesAssumption`, `TimesAssumption` and `LeaseAssumption`
(`HeartbeatInterval + 2 * (BodyIdle + Slack) <= UploadLease`; the code has 60 s, 60 s and
5 minutes, which leaves 60 s for `Slack`); any number of requests and uploads, any
lengths of bodies and chunks, any intervals. That a worker is back at every session
within `Slack` is an assumption which the code does not enforce: one thread serves up to
256 connections, and each call it makes may run up to the statement timeout of 30 s. The
theorem and the run say that the lease holds as long as the worker is that quick.

| Theorem | States |
|---|---|
| `LeaseAlwaysHeld` | `LeaseHeld` is an invariant |
| `BodiesTypeCorrect` | `TypeOK` is an invariant |
| `ObjectsAreWhatWasSent` | `~Overlap`: `ObjectIsWhatWasSent` is an invariant |
| `AnsweredPartsKept` | `~Overlap`: `AnsweredPartKept` is an invariant |

*Lease.* `LeaseInvariant` is the shape of the records, a bound on the age of a session's
heartbeat (`Clocks`: between pushes it is at most the interval and the present silence;
during a push, one silence more, because the push that ended the last silence may not
have reached the renewal yet), and that lease and age of the heartbeat add up to a whole
lease (`Leases`), which fails for no interleaving because every call on the row renews
it.

*Bytes.* `Typing` relates the counters of a session to what it has been sent and its
buffer to the bytes not staged yet (`SessionOK`). `Data` then says whose bytes a row
holds: a session that holds its part has staged exactly its own bytes in chunks numbered
from zero (`Staging`), is the last try of the part (`Tries`), was answered with the ETag
of its body (`EtagRight`), and objects are what was sent. Every step is one of a few
effects on rows (`Effects`), of which one lemma each shows that sessions it is not about
keep what they rely on. The hypothesis `~Overlap`, that a client does not repeat a part
before the previous try has ended, is not a convenience: without it an object may be
a mixture of two tries, which is the run `part_overlap`.

### HttpWorker

From `HttpWorkerAssumption` and `ConnsAssumption` (finitely many connection slots); any
requests, batches, limits and number of replacement processes.

| Theorem | States |
|---|---|
| `WorkerTypeCorrect` | `TypeOK` is an invariant |
| `SessionsAlwaysSettled` | `SessionSettled` is an invariant |
| `GaugesAlwaysExact` | `InFlightExact` is an invariant |
| `WorkerInStep` | `InStep` is an invariant |

*Gauges and sessions.* `WorkerInv` is `Sockets` (every connection is in a state that one
visit of the loop can leave it in), `Ledger` (rows, processes and promotion: no row of a
later process, no row on a standby, a dead process owes nothing) and `Exact` (the gauges
count the connections). A visit is proved stage by stage: `Driven` is what any sequence
of stages may have done to a connection and to its gauge, and each stage, a panic at any
point included, stays within it.

*In step.* `InStep` speaks of the next token only, and is far from inductive. `Placed`
says for every connection where its exchange is in the stream that has not been read:
the stream is a sequence of messages (`Ordered`), whole ones unless the peer is gone
(`Whole`), and the worker is at the start of one, after the first piece of a head, or a
known number of tokens before the next one, unless it is going to close the connection
(`Place`). The stages take prefixes of that stream, peers append messages to it or cut
it off.

### Reads

From `ReadsAssumption`: requests as the router hands them over (headers absent or single,
ranges and dates numbers), stores whose ids are unique and within the sequence. Any
requests in any order, any stores, any number of writes of other clients, an error or a
timeout in any statement.

| Theorem | States |
|---|---|
| `ReadsTyped` | `TypeOK` is an invariant |
| `ReadsAreConsistent` | `ReadConsistent` is an invariant |
| `CopiesAreGuarded` | `CopyGuarded` is an invariant |
| `CompletionsAreGuarded` | `CompletionGuarded` is an invariant |
| `TenantIsIsolated` | `TenantIsolation` is an invariant |

The properties are about answers; the inductive invariant `Inv` is about what a handler
holds on the way there, and why it is still good when the next transaction uses it.

*History.* `Kept`: versions never change and their ids are never used again, over every
store since the request began. So the id that HEAD has seen leads to that version or to
nothing (`HeadAgain`), however often the key was written in between; this is what makes
reading and copying in two transactions sound. The algorithm of an upload is fixed, its
parts are not: a completion rests on comparing digests again in its own transaction.

*Handler.* `Reading`, `Copying` and `Completing` say, per call about to be made or just
back, that the handler holds one version that was seen (`Seen`), that the preconditions
and the range were decided for that version (`Whole`, `Partial`, `Permitted`), or that
the client vouched for the parts listed (`Vouched`); and for an error, that there was a
moment without the version (`Absent`). All of this only grows with the history
(`ProgressGrows`), so no write of another client takes it away. `evaluate` and `resolve`
are shown to be the order of RFC 9110 and the bytes selected (`EvaluateRead`,
`EvaluateCopy`, `ResolveIs`, `ChosenIs`, `PartBytes`).

*Session.* `Serving` and `Attended`: a call of a tenant is made only after its signature
was verified, and the session is in a transaction, with that tenant's role, exactly
while a statement runs or its error is caught.

### Launcher

From `LauncherAssumption`; any number of HTTP slots, with or without the collector's, any
number of events, crashes and pids.

| Theorem | States |
|---|---|
| `SignalsReachProcesses` | `TypeOK` is an invariant |

`Inv` (`SettingsOK`, `LaunchersOK`, `ChildrenOK`, `TermOK`, `LrowOK`, `CrowOK`, `CallOK`)
adds to `TypeOK` what a launcher carries from one of its transactions to the next
(`LauncherOK`: the slots to stop and to start and the one whose start is not recorded yet
are slots, the orphans still to end are pids) and what a control function has read and waits for (`CallOK`). That a signal
is pending for a running process only (`TermOK`) holds because each way of signalling
looks at the processes in the step in which it signals, and the end of a process takes
its signals along.

### Tools

`LeastElements` has what the proofs need instead of an induction theorem, which the
provers cannot instantiate: a property that fails for some number fails for a least one
(`LeastNatural`), and the recursion of `FlattenSeq` one element at a time. Inductions over the
length of a body or of a list are written as least counterexamples.

### Only model-checked

* Liveness (`GarbageDrains`, `EveryCallEnds`, `UploadsReclaimed`, `RequestEnds`,
  `EveryRequestEnds`, `PoolConverges`): fairness and `ENABLED` are out of the prover's reach.
* `RefcountExact` and `NoDangling` of `Sessions`. They are not theorems: a fork that meets
  a collector breaks them (`fork_race`). `transactions` checks them where forks and
  `gc_blobs` do not meet.
* `EveryRequestEnds` holds where pages have at least one row (`MCPartsZero` is the case
  in which they do not).
* `ListingComplete`. It is not a theorem: `version_pages` violates it. `reads` checks it
  where versions are listed without a delimiter. Where the scan of `Listing` ends is also
  an induction over the keys.
* `Decoders`. What its recursive operators compute cannot be proved with this prover.

## Plan

1. `RefcountExact` and `NoDangling` of `Sessions` for scenarios without forks, as theorems.
2. Tenant isolation in the tables: two roles and the row policies.

## Limits of the models

* `Sessions`: `restore`, `begin_part`, `complete_part` and the completion by part list
  are atomic in `ObjectStore` only; lock queues and foreign-key probes are left out.
* `Launcher`: `PoolConverges` is checked with control calls and reloads that wait until the
  last one was taken up (`Hasty` is FALSE), with one crash. The workers of a dynamic launcher that crashed
  stay until the next `start()` or `stop()`, as in the code, and `Orphaned` says so. After
  two launchers have met (`unclear`: which request counts is open) the row of a worker may
  keep the pid of the launcher that left, so `On` speaks of the rows that the launcher that
  stayed, or its workers, wrote last. A `start()` while the static launcher is crashed
  counts as `unclear`. The status column and pools of other databases are left out;
  `StartRefused` stands for a refusal because of the latter. On a standby, workers of a
  crashed launcher stay until promotion, since orphans are only looked for when the state
  can be claimed; the property speaks of a writable server.
* `Reads`: one bucket and at most one upload; header values are well formed; clients
  repeat the parameters of a listing, so the check of a token against them is left out.
  The probe is a statement of its own and may see a later snapshot than the page. The
  surrogate hole in `_prefix_end` and `EntityTooSmall` are left out, and
  the destination's own preconditions of a copy are those of `ObjectStore`.
  `x-amz-copy-source-if-modified-since` is not applied, as in the code.
* `Decoders`: a signature or checksum is a symbol that verifies exactly what it names.

## Not modelled

Signature V4 and hashing (pure functions of one request, with known answers in their
tests), XML, JSON, header and URL texts, the raw socket options of `bind_reuse_port`,
the credential table and the row policies, operations of the service that only pass one
call on, GUC declarations and the extension upgrade script: they keep no state between
calls, or are a one-off. Crash recovery of committed data is PostgreSQL's; a crash of a
session or of the server is a rollback of what was open (`Cancel`), which leaves
multi-transaction uploads half staged, as every run with uploads does.
