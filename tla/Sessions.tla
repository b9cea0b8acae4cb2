------------------------------ MODULE Sessions ------------------------------
(***************************************************************************)
(* The SQL functions of sql/bootstrap.sql as concurrent transactions under *)
(* READ COMMITTED.  A transaction is the list of its statements; one step  *)
(* runs one of them, takes the locks it needs and sees what others have    *)
(* committed by then.  Its own writes are kept aside until COMMIT applies  *)
(* them and releases its locks.  PostgreSQL itself (lock conflicts, row    *)
(* locks, ON CONFLICT, deadlock detection) is modelled as the code uses it.*)
(*                                                                         *)
(* Every session makes one call.  Bodies stand for their digests, an       *)
(* upload stages at most one chunk, and composites are left to module      *)
(* ObjectStore.  Names and keys are numbers in their C collation order.    *)
(* Foreign keys are left out: NoDangling says they never have to intervene.*)
(***************************************************************************)
EXTENDS Integers, FiniteSets, SequencesExt

CONSTANTS
    Session,    \* sessions of clients and of the GC worker
    Call,       \* session -> the function it calls, with its arguments
    Unreliable, \* sessions that may be cancelled or lose their client
    Name,       \* bucket names, numbers in their C collation order
    Body,       \* bodies
    EmptyBody,  \* the body of an upload without a chunk
    Scenario,   \* what may come before: sets of [calls, stored, pending]
    GcLimit     \* p_limit of gc_blobs

\* The functions of the semantic layer that change something.
Function ==
    {"create_bucket", "delete_bucket", "put", "delete", "delete_many", "copy", "fork_bucket",
     "begin_upload", "put_chunk", "complete_upload", "abort_upload",
     "gc_pending_uploads", "gc_blobs"}

\* The bucket names of a database in which the puts of a scenario (a sequence of
\* [bucket, key, body]) and its uploads (upload id -> row) are done.
Names(c) ==
    {c.stored[i].bucket : i \in DOMAIN c.stored} \cup {c.pending[u].bucket : u \in DOMAIN c.pending}

ASSUME BodyAssumption == EmptyBody \in Body
ASSUME NameAssumption == Name \subseteq Nat \ {0}
ASSUME GcAssumption == GcLimit \in Nat
ASSUME CallAssumption ==
    \A r \in Session :
        /\ Call[r].op \in Function
        /\ Call[r].op = "delete_many" => Call[r].entries \in Seq(Range(Call[r].entries))
        /\ Call[r].op \in {"create_bucket", "fork_bucket"} => Call[r].bucket \in Name
ASSUME ScenarioAssumption ==
    \A c \in Scenario :
        /\ c.calls \subseteq Session
        /\ c.stored \in Seq(Range(c.stored)) /\ \A i \in DOMAIN c.stored : c.stored[i].body \in Body
        /\ c.pending \in [DOMAIN c.pending -> Range(c.pending)]
        /\ IsFiniteSet(DOMAIN c.pending) /\ \A u \in DOMAIN c.pending : IsFiniteSet(c.pending[u].blob)
        /\ Names(c) \subseteq Name /\ \E n \in Names(c) \cup {0} : \A m \in Names(c) : m <= n
\* The id of a new upload is a random UUID: nobody else has it.
ASSUME UploadAssumption ==
    \A r \in {q \in Session : Call[q].op = "begin_upload"} :
        /\ \A c \in Scenario : Call[r].upload \notin DOMAIN c.pending
        /\ \A q \in Session \ {r} : Call[q].op = "begin_upload" => Call[q].upload # Call[r].upload

VARIABLES
    bucket,      \* name -> id                                  (committed)
    object,      \* version id -> [bucket, key, blob]           (committed)
    latest,      \* version ids with is_latest                  (committed)
    blob,        \* body -> refcount                            (committed)
    upload,      \* upload id -> [bucket, key, blob, createOnly] (committed)
    versionSeq,  \* object_version_id_seq, never rolled back
    bucketSeq,   \* identity of bucket_id, never rolled back
    tx,          \* session -> its transaction
    held         \* triples <<session, resource, mode>>

tables == <<bucket, object, latest, blob, upload>>
sequences == <<versionSeq, bucketSeq>>
vars == <<tables, sequences, tx, held>>

-----------------------------------------------------------------------------
(* Locks.                                                                  *)

\* Advisory locks are shared or exclusive; row locks are FOR KEY SHARE, the
\* FOR NO KEY UPDATE of an update of the refcount, or FOR UPDATE.
Conflicting ==
    {<<"shared", "exclusive">>, <<"exclusive", "shared">>, <<"exclusive", "exclusive">>,
     <<"key share", "update">>, <<"update", "key share">>, <<"update", "update">>,
     <<"no key update", "no key update">>,
     <<"no key update", "update">>, <<"update", "no key update">>}

Lifecycle(n) == <<"bucket", n>>
KeyLock(id, k) == <<"key", id, k>>
BlobRow(c) == <<"blob", c>>
UploadRow(u) == <<"upload", u>>

\* Mutant: the key is locked in shared mode.
KeyModeShared == "shared"

\* _lock_key takes an exclusive lock.
KeyMode == "exclusive"

-----------------------------------------------------------------------------
(* Transactions.                                                           *)

Empty == [x \in {} |-> x]

Versions(o, id, k) == {v \in DOMAIN o : o[v].bucket = id /\ o[v].key = k}

\* Rows to insert and to delete, flags to move, counts to add.
NoWrites ==
    [rows |-> Empty, gone |-> {}, cleared |-> {}, made |-> {},
     born |-> {}, dead |-> {}, delta |-> [c \in Body |-> 0],
     staged |-> Empty, dropped |-> {}, named |-> Empty, unnamed |-> {}]

\* A transaction that is open until it ends with "ok" or an error; id and src are
\* the bucket ids found for the destination and the source, shot is what a fork
\* has read.
Ended(why) ==
    [state |-> why, todo |-> <<>>, id |-> 0, src |-> 0, shot |-> {}, w |-> NoWrites]

Merge(f, g) == [x \in DOMAIN f \cup DOMAIN g |-> IF x \in DOMAIN g THEN g[x] ELSE f[x]]

\* What the transaction sees of the object table: committed rows and flags under its
\* own writes.  COMMIT makes it what everybody sees.
Rows(r) == Merge(Restrict(object, DOMAIN object \ tx[r].w.gone), tx[r].w.rows)
Flags(r) == (latest \ (tx[r].w.cleared \cup tx[r].w.gone)) \cup tx[r].w.made

Open(r) == tx[r].state = "open" /\ tx[r].todo # <<>>
Verb(r) == Head(tx[r].todo).verb
Arg(r) == Head(tx[r].todo).arg

\* The statement is done; ls runs next and w is written so far.
Goes(r, ls, w) == tx' = [tx EXCEPT ![r].todo = ls \o Tail(@), ![r].w = w]

\* Mutant: advisory locks of the session instead of the transaction.
ReleasedRowsOnly(r) == {h \in held : h[1] = r /\ h[2][1] \in {"blob", "upload"}}

\* All locks, the advisory ones included (pg_advisory_xact_lock), end with the
\* transaction.
Released(r) == {h \in held : h[1] = r}

\* ROLLBACK: the locks and the writes are gone, sequence values stay spent.
Rollback(r, why) ==
    /\ tx' = [tx EXCEPT ![r] = Ended(why)]
    /\ held' = held \ Released(r)
    /\ UNCHANGED <<tables, sequences>>

\* A bump of a row that is deleted before it gets there skips it.
SkipDead(todo, dead) ==
    [i \in DOMAIN todo |->
        IF todo[i].verb = "bump" THEN [todo[i] EXCEPT !.arg = @ \ dead] ELSE todo[i]]

\* COMMIT.
Commit(r) ==
    LET w == tx[r].w
    IN /\ tx[r].state = "open" /\ tx[r].todo = <<>>
       /\ bucket' = Merge(Restrict(bucket, DOMAIN bucket \ w.unnamed), w.named)
       /\ object' = Rows(r) /\ latest' = Flags(r)
       /\ blob' = [c \in (DOMAIN blob \cup w.born) \ w.dead |->
                    (IF c \in DOMAIN blob THEN blob[c] ELSE 0) + w.delta[c]]
       /\ upload' = Restrict(Merge(upload, w.staged),
                             (DOMAIN upload \cup DOMAIN w.staged) \ w.dropped)
       /\ tx' = [q \in Session |->
                    IF q = r THEN Ended("ok")
                    ELSE [tx[q] EXCEPT !.todo = SkipDead(@, w.dead)]]
       /\ held' = held \ Released(r)
       /\ UNCHANGED sequences

-----------------------------------------------------------------------------
(* The functions as lists of statements.                                   *)

Do(verb, arg) == [verb |-> verb, arg |-> arg]

\* Mutant: the row is not locked until it is counted.
EnsureBlobUnlocked(c) == <<Do("insert blob", c)>>

\* _ensure_blob: the insert and the lock are two statements.
EnsureBlob(c) == <<Do("insert blob", c), Do("lock blob", c)>>

\* delete_many locks its distinct keys in bytewise order, the least one next, before it
\* deletes in request order.
Least(K) == {k \in K : \A j \in K : k <= j}

Each(verb, args) == [i \in DOMAIN args |-> Do(verb, args[i])]

\* An entry of delete_many: delete, without a version or with one.
Delete(e) ==
    IF e.version = {} THEN Do("publish", [key |-> e.key, blob |-> {}]) ELSE Do("remove", e)

\* _check_write_preconditions, where it can refuse.
Condition(createOnly, k) == IF createOnly THEN <<Do("check", k)>> ELSE <<>>

\* The statements of the function that r calls, up to the first one that decides
\* how to go on (LockKeys, Read, Snapshot, DeleteUploads, Assemble, Expire).
Program(r) ==
    LET c == Call[r]
    IN CASE c.op = "create_bucket" ->
                <<Do("exclusive", c.bucket), Do("insert bucket", c.bucket)>>
         [] c.op = "delete_bucket" ->
                <<Do("exclusive", c.bucket), Do("check empty", c.bucket),
                  Do("delete uploads", c.bucket), Do("delete bucket", c.bucket)>>
         [] c.op = "put" ->
                <<Do("child", c.bucket), Do("lock key", c.key)>>
                    \o Condition(c.createOnly, c.key) \o EnsureBlob(c.body)
                    \o <<Do("publish", [key |-> c.key, blob |-> {c.body}])>>
         [] c.op = "delete" ->
                <<Do("child", c.bucket), Do("lock key", c.key),
                  Do("publish", [key |-> c.key, blob |-> {}])>>
         [] c.op = "delete_many" ->
                <<Do("child", c.bucket), Do("lock each", {e.key : e \in Range(c.entries)})>>
                    \o [i \in DOMAIN c.entries |-> Delete(c.entries[i])]
         [] c.op = "copy" ->
                <<Do("source", c.source), Do("child", c.bucket),
                  Do("lock keys", c.key), Do("read", c.sourceKey)>>
         [] c.op = "fork_bucket" ->
                (IF c.source < c.bucket
                 THEN <<Do("shared", c.source), Do("exclusive", c.bucket)>>
                 ELSE <<Do("exclusive", c.bucket), Do("shared", c.source)>>)
                    \o <<Do("source", c.source), Do("insert bucket", c.bucket),
                         Do("snapshot", c.source)>>
         [] c.op = "begin_upload" ->
                <<Do("child", c.bucket), Do("insert upload", c.upload)>>
         [] c.op = "put_chunk" ->
                <<Do("lock upload", c.upload)>> \o EnsureBlob(c.body) \o <<Do("stage", c.body)>>
         [] c.op = "complete_upload" ->
                <<Do("lock upload", c.upload), Do("assemble", c.upload)>>
         [] c.op = "abort_upload" ->
                <<Do("lock upload", c.upload), Do("delete upload", c.upload),
                  Do("release", c.upload)>>
         [] c.op = "gc_pending_uploads" -> <<Do("expire", 0)>>
         [] c.op = "gc_blobs" -> [i \in 1 .. GcLimit |-> Do("collect", 0)]

-----------------------------------------------------------------------------
(* What a statement has to wait for.                                       *)

Existing(r, cs) == cs \cap (DOMAIN blob \cup tx[r].w.born)
StagedBlob(r, u) == IF u \in tx[r].w.dropped THEN upload[u].blob ELSE {}

\* The locks the next statement takes.  A row that does not exist is not locked.
Wanted(r) ==
    LET arg == Arg(r)
    IN CASE Verb(r) \in {"child", "shared"} -> {<<Lifecycle(arg), "shared">>}
         [] Verb(r) = "exclusive" -> {<<Lifecycle(arg), "exclusive">>}
         [] Verb(r) = "lock key" -> {<<KeyLock(tx[r].id, arg), KeyMode>>}
         [] Verb(r) = "lock each" -> {<<KeyLock(tx[r].id, k), KeyMode>> : k \in Least(arg)}
         [] Verb(r) = "lock source key" -> {<<KeyLock(tx[r].src, arg), KeyMode>>}
         [] Verb(r) = "lock blob" -> {<<BlobRow(c), "update">> : c \in Existing(r, {arg})}
         [] Verb(r) = "share blob" -> {<<BlobRow(c), "key share">> : c \in Existing(r, {arg})}
         [] Verb(r) = "bump" -> {<<BlobRow(c), "no key update">> : c \in arg}
         [] Verb(r) = "publish" -> {<<BlobRow(c), "no key update">> : c \in arg.blob}
         [] Verb(r) = "remove" ->
                LET gone == arg.version \cap Versions(Rows(r), tx[r].id, arg.key)
                IN {<<BlobRow(c), "no key update">> : c \in UNION {Rows(r)[v].blob : v \in gone}}
         [] Verb(r) = "stage" ->
                {<<BlobRow(c), "no key update">> : c \in {arg} \cup upload[Call[r].upload].blob}
         [] Verb(r) = "release" ->
                {<<BlobRow(c), "no key update">> : c \in StagedBlob(r, arg)}
         [] Verb(r) \in {"lock upload", "delete upload"} ->
                {<<UploadRow(u), "update">> : u \in {arg} \cap DOMAIN upload}
         [] OTHER -> {}

\* The sessions that keep r from a lock.
Blockers(r, resource, mode) ==
    {h[1] : h \in {g \in held : g[1] # r /\ g[2] = resource /\ <<g[3], mode>> \in Conflicting}}

\* INSERT ... ON CONFLICT waits for transactions that insert, update or delete
\* the row, not for those that only lock it.
Writers(r, c) ==
    {h[1] : h \in {g \in held : g[1] # r /\ g[2] = BlobRow(c) /\ g[3] = "no key update"}}
    \cup {q \in Session \ {r} : c \in tx[q].w.born \cup tx[q].w.dead}

WaitsFor(r) ==
    IF ~Open(r) THEN {}
    ELSE IF Verb(r) = "insert blob" THEN Writers(r, Arg(r))
    ELSE UNION {Blockers(r, l[1], l[2]) : l \in Wanted(r)}

-----------------------------------------------------------------------------
(* Statements.                                                             *)

\* The statement runs now, with its locks and those in more.
Runs(r, verb, more) ==
    /\ Open(r) /\ Verb(r) = verb
    /\ WaitsFor(r) = {}
    /\ held' = held \cup {<<r, l[1], l[2]>> : l \in Wanted(r) \cup more}

Quiet == UNCHANGED <<tables, sequences>>

\* A statement that only takes advisory locks: _lock_bucket_lifecycle, _lock_key.
Lock(r) ==
    /\ \E verb \in {"shared", "exclusive", "lock key", "lock source key"} : Runs(r, verb, {})
    /\ Goes(r, <<>>, tx[r].w) /\ Quiet

\* delete_many: one key after the other.
LockEach(r) ==
    LET rest == Arg(r) \ Least(Arg(r))
    IN /\ Runs(r, "lock each", {})
       /\ Goes(r, IF rest = {} THEN <<>> ELSE <<Do("lock each", rest)>>, tx[r].w) /\ Quiet

\* _bucket_id_for_child: the shared lock, then the id, which must be the expected
\* one if there is one.
Child(r) ==
    LET n == Arg(r)
    IN /\ Runs(r, "child", {})
       /\ n \in DOMAIN bucket /\ tx[r].id \in {0, bucket[n]}
       /\ tx' = [tx EXCEPT ![r].todo = Tail(@), ![r].id = bucket[n]]
       /\ Quiet

\* copy and fork_bucket: _bucket_id of the source.
Source(r) ==
    /\ Runs(r, "source", {})
    /\ Arg(r) \in DOMAIN bucket
    /\ tx' = [tx EXCEPT ![r].todo = Tail(@), ![r].src = bucket[Arg(r)]]
    /\ Quiet

\* copy: both key locks in the order of (bucket id, key).
LockKeys(r) ==
    LET own == Do("lock key", Call[r].key)
        other == Do("lock source key", Call[r].sourceKey)
        at == <<tx[r].id, Call[r].key>>
        from == <<tx[r].src, Call[r].sourceKey>>
    IN /\ Runs(r, "lock keys", {})
       /\ Goes(r, IF from = at THEN <<own>>
                  ELSE IF from[1] < at[1] \/ (from[1] = at[1] /\ from[2] < at[2])
                       THEN <<other, own>> ELSE <<own, other>>, tx[r].w)
       /\ Quiet

LiveLatest(id, k) == {v \in Versions(object, id, k) \cap latest : object[v].blob # {}}

\* _check_write_preconditions with If-None-Match: *.
Check(r) ==
    /\ Runs(r, "check", {})
    /\ LiveLatest(tx[r].id, Arg(r)) = {}
    /\ Goes(r, <<>>, tx[r].w) /\ Quiet

\* copy: the live latest source row, then _commit_reference_locked.
Read(r) ==
    /\ Runs(r, "read", {})
    /\ \E v \in LiveLatest(tx[r].src, Arg(r)) : \E c \in object[v].blob :
        Goes(r, Condition(Call[r].createOnly, Call[r].key)
                \o <<Do("share blob", c), Do("publish", [key |-> Call[r].key, blob |-> {c}])>>,
             tx[r].w)
    /\ Quiet

\* INSERT INTO pgs3.blob ... ON CONFLICT DO NOTHING.
InsertBlob(r) ==
    LET c == Arg(r)
    IN /\ Runs(r, "insert blob",
                IF c \in DOMAIN blob THEN {} ELSE {<<BlobRow(c), "update">>})
       /\ Goes(r, <<>>, [tx[r].w EXCEPT !.born = @ \cup ({c} \ DOMAIN blob)])
       /\ Quiet

\* SELECT ... FROM pgs3.blob FOR UPDATE or FOR KEY SHARE.
PinBlob(r) ==
    /\ Runs(r, "lock blob", {}) \/ Runs(r, "share blob", {})
    /\ Existing(r, {Arg(r)}) # {}
    /\ Goes(r, <<>>, tx[r].w) /\ Quiet

\* Mutant: the former latest row keeps its flag.
PublishKeepsFlag(r) ==
    LET row == [bucket |-> tx[r].id, key |-> Arg(r).key, blob |-> Arg(r).blob]
    IN /\ Runs(r, "publish", {})
       /\ Goes(r, <<>>, [tx[r].w EXCEPT
            !.rows = Merge(@, [v \in {versionSeq} |-> row]),
            !.made = @ \cup {versionSeq},
            !.delta = [c \in Body |-> @[c] + (IF c \in row.blob THEN 1 ELSE 0)]])
       /\ versionSeq' = versionSeq + 1
       /\ UNCHANGED <<tables, bucketSeq>>

\* The new latest row, with its version id from the sequence; the trigger counts.
Publish(r) ==
    LET k == Arg(r).key
        cs == Arg(r).blob
        row == [bucket |-> tx[r].id, key |-> k, blob |-> cs]
        mine == Versions(Rows(r), tx[r].id, k)
    IN /\ Runs(r, "publish", {})
       /\ Goes(r, <<>>, [tx[r].w EXCEPT
            !.rows = Merge(@, [v \in {versionSeq} |-> row]),
            !.made = (@ \ mine) \cup {versionSeq},
            !.cleared = @ \cup mine,
            !.delta = [c \in Body |-> @[c] + (IF c \in cs THEN 1 ELSE 0)]])
       /\ versionSeq' = versionSeq + 1
       /\ UNCHANGED <<tables, bucketSeq>>

\* delete with a version id: the row goes, the next newest one becomes latest.
DeleteVersion(r) ==
    LET mine == Versions(Rows(r), tx[r].id, Arg(r).key)
        gone == Arg(r).version \cap mine
        rest == mine \ gone
        next == {v \in rest : gone \cap Flags(r) # {} /\ \A w \in rest : w <= v}
    IN /\ Runs(r, "remove", {})
       /\ Goes(r, <<>>, [tx[r].w EXCEPT
            !.rows = Restrict(@, DOMAIN @ \ gone),
            !.gone = @ \cup gone,
            !.made = (@ \ gone) \cup next,
            !.delta = [c \in Body |-> @[c] - Cardinality({v \in gone : Rows(r)[v].blob = {c}})]])
       /\ Quiet

\* Mutant: delete markers are not copied.
ForkedLive(id) == {v \in latest : object[v].bucket = id /\ object[v].blob # {}}

\* fork_bucket copies the latest rows, delete markers included.
Forked(id) == {v \in latest : object[v].bucket = id}

\* fork_bucket: one statement copies the latest rows it sees and then raises
\* the counts row by row, in orders the planner chooses.
Snapshot(r) ==
    LET rows == Forked(tx[r].src)
        New(scan) == [v \in versionSeq .. versionSeq + Len(scan) - 1 |->
            LET row == object[scan[v - versionSeq + 1]]
            IN [bucket |-> tx[r].id, key |-> row.key, blob |-> row.blob]]
        blobs == UNION {object[v].blob : v \in rows}
        read == {<<object[v].key, object[v].blob>> : v \in rows}
    IN /\ Runs(r, "snapshot", {})
       /\ \E scan \in SetToSeqs(rows), order \in SetToSeqs(blobs \cap DOMAIN blob) :
            tx' = [tx EXCEPT ![r].todo = [i \in DOMAIN order |-> Do("bump", {order[i]})] \o Tail(@),
                             ![r].shot = {<<tx[r].src, read>>},
                             ![r].w.rows = New(scan), ![r].w.made = DOMAIN New(scan)]
       /\ versionSeq' = versionSeq + Cardinality(rows)
       /\ UNCHANGED <<tables, bucketSeq>>

Bump(r) ==
    /\ Runs(r, "bump", {})
    /\ Goes(r, <<>>, [tx[r].w EXCEPT !.delta = [c \in Body |-> @[c] +
            IF c \in Arg(r)
            THEN Cardinality({v \in DOMAIN tx[r].w.rows : tx[r].w.rows[v].blob = {c}})
            ELSE 0]])
    /\ Quiet

InsertBucket(r) ==
    /\ Runs(r, "insert bucket", {})
    /\ Arg(r) \notin DOMAIN bucket
    /\ tx' = [tx EXCEPT ![r].todo = Tail(@), ![r].id = bucketSeq,
                        ![r].w.named = [n \in {Arg(r)} |-> bucketSeq]]
    /\ bucketSeq' = bucketSeq + 1
    /\ UNCHANGED <<tables, versionSeq>>

\* delete_bucket: no version and no delete marker may be left.
CheckEmpty(r) ==
    LET n == Arg(r)
    IN /\ Runs(r, "check empty", {})
       /\ n \in DOMAIN bucket /\ \A v \in DOMAIN object : object[v].bucket # bucket[n]
       /\ tx' = [tx EXCEPT ![r].todo = Tail(@), ![r].id = bucket[n]]
       /\ Quiet

\* DELETE FROM pgs3.upload of the bucket: the rows first, then their cascades.
DeleteUploads(r) ==
    /\ Runs(r, "delete uploads", {})
    /\ \E us \in SetToSeqs({u \in DOMAIN upload : upload[u].bucket = tx[r].id}) :
        Goes(r, Each("delete upload", us) \o Each("release", us), tx[r].w)
    /\ Quiet

DeleteBucket(r) ==
    /\ Runs(r, "delete bucket", {})
    /\ Goes(r, <<>>, [tx[r].w EXCEPT !.unnamed = {Arg(r)}])
    /\ Quiet

InsertUpload(r) ==
    /\ Runs(r, "insert upload", {})
    /\ Goes(r, <<>>, [tx[r].w EXCEPT !.staged = [u \in {Arg(r)} |->
            [bucket |-> tx[r].id, key |-> Call[r].key, blob |-> {},
             createOnly |-> Call[r].createOnly]]])
    /\ Quiet

\* _upload_for_update.
LockUpload(r) ==
    /\ Runs(r, "lock upload", {})
    /\ Arg(r) \in DOMAIN upload
    /\ Goes(r, <<>>, tx[r].w) /\ Quiet

\* Mutant: the blob of a replaced chunk is not released.
StageKeepsOld(r) ==
    /\ Runs(r, "stage", {})
    /\ Goes(r, <<>>, [tx[r].w EXCEPT
            !.delta = [c \in Body |-> @[c] + (IF c = Arg(r) THEN 1 ELSE 0)],
            !.staged = [u \in {Call[r].upload} |-> [upload[u] EXCEPT !.blob = {Arg(r)}]]])
    /\ Quiet

\* put_chunk: the chunk row is inserted or replaced, and the counts follow.
Stage(r) ==
    LET u == Call[r].upload
        new == [bucket |-> upload[u].bucket, key |-> upload[u].key, blob |-> {Arg(r)},
                createOnly |-> upload[u].createOnly]
        old == upload[u].blob
    IN /\ Runs(r, "stage", {})
       /\ Goes(r, <<>>, [tx[r].w EXCEPT
            !.staged = [x \in {u} |-> new],
            !.delta = [c \in Body |-> @[c] + (IF c = Arg(r) THEN 1 ELSE 0)
                                           - (IF c \in old THEN 1 ELSE 0)]])
       /\ Quiet

\* The end of _commit_canonical_locked.
PublishLocked(createOnly, k, c) ==
    <<Do("lock key", k)>> \o Condition(createOnly, k)
        \o <<Do("publish", [key |-> k, blob |-> {c}])>>

\* _complete_upload and _commit_canonical_locked, once the upload row is locked.
Assemble(r) ==
    LET at == upload[Arg(r)]
        n == CHOOSE m \in DOMAIN bucket : bucket[m] = at.bucket
        c == IF at.blob = {} THEN EmptyBody ELSE CHOOSE x \in at.blob : TRUE
    IN /\ Runs(r, "assemble", {})
       /\ tx' = [tx EXCEPT ![r].id = at.bucket, ![r].todo =
            EnsureBlob(c)
            \o <<Do("child", n), Do("share blob", c)>> \o PublishLocked(at.createOnly, at.key, c)
            \o <<Do("delete upload", Arg(r)), Do("release", Arg(r))>> \o Tail(@)]
       /\ Quiet

DeleteUpload(r) ==
    /\ Runs(r, "delete upload", {})
    /\ Goes(r, <<>>, [tx[r].w EXCEPT !.dropped = @ \cup ({Arg(r)} \cap DOMAIN upload)])
    /\ Quiet

\* The refcount trigger of the cascaded chunk row.
Release(r) ==
    /\ Runs(r, "release", {})
    /\ Goes(r, <<>>, [tx[r].w EXCEPT !.delta =
            [c \in Body |-> @[c] - (IF c \in StagedBlob(r, Arg(r)) THEN 1 ELSE 0)]])
    /\ Quiet

\* gc_pending_uploads: some expired uploads, none of which anybody has locked.
Expire(r) ==
    \E U \in SUBSET {u \in DOMAIN upload : Blockers(r, UploadRow(u), "update") = {}} :
        /\ Runs(r, "expire", {<<UploadRow(u), "update">> : u \in U})
        /\ \E us \in SetToSeqs(U) :
            Goes(r, Each("release", us), [tx[r].w EXCEPT !.dropped = U])
        /\ Quiet

\* gc_blobs: the next zero-count blob that nobody has locked, while there is one.
Collectable(r) ==
    {c \in DOMAIN blob \ tx[r].w.dead :
        blob[c] = 0 /\ Blockers(r, BlobRow(c), "update") = {}}

Collect(r) ==
    /\ \/ \E c \in Collectable(r) :
            /\ Runs(r, "collect", {<<BlobRow(c), "update">>})
            /\ Goes(r, <<>>, [tx[r].w EXCEPT !.dead = @ \cup {c}])
       \/ /\ Collectable(r) = {}
          /\ Runs(r, "collect", {})
          /\ tx' = [tx EXCEPT ![r].todo = <<>>]
    /\ Quiet

-----------------------------------------------------------------------------
(* Errors.                                                                 *)

\* The exception the current statement raises, once it need not wait.
Fails(r, why) ==
    LET arg == Arg(r)
    IN CASE why = "NoSuchBucket" ->
                \/ Verb(r) \in {"child", "source", "check empty"} /\ arg \notin DOMAIN bucket
                \/ Verb(r) = "child" /\ arg \in DOMAIN bucket /\ tx[r].id \notin {0, bucket[arg]}
         [] why = "BucketAlreadyExists" -> Verb(r) = "insert bucket" /\ arg \in DOMAIN bucket
         [] why = "BucketNotEmpty" ->
                /\ Verb(r) = "check empty" /\ arg \in DOMAIN bucket
                /\ \E v \in DOMAIN object : object[v].bucket = bucket[arg]
         [] why = "PreconditionFailed" -> Verb(r) = "check" /\ LiveLatest(tx[r].id, arg) # {}
         [] why = "NoSuchKey" -> Verb(r) = "read" /\ LiveLatest(tx[r].src, arg) = {}
         [] why = "NoSuchUpload" -> Verb(r) = "lock upload" /\ arg \notin DOMAIN upload
         [] why = "internal" -> Verb(r) \in {"lock blob", "share blob"} /\ Existing(r, {arg}) = {}

Error == {"NoSuchBucket", "BucketAlreadyExists", "BucketNotEmpty", "PreconditionFailed",
          "NoSuchKey", "NoSuchUpload", "internal"}

Raise(r) ==
    /\ Open(r) /\ WaitsFor(r) = {}
    /\ \E why \in Error : Fails(r, why) /\ Rollback(r, why)

\* A cycle of waiting sessions: each waits for another one of it.
Cycle(D) == D # {} /\ \A r \in D : WaitsFor(r) \cap D # {}

Waiting == {r \in Session : WaitsFor(r) # {}}

Deadlocked(r) ==
    \E D \in SUBSET Waiting :
        r \in D /\ Cycle(D) /\ \A E \in SUBSET D : Cycle(E) => E = D

\* PostgreSQL breaks a deadlock by failing one of its sessions.
DeadlockDetected(r) == Deadlocked(r) /\ Rollback(r, "deadlock")

\* The client goes away, or the server process or the server stops.
Cancel(r) == r \in Unreliable /\ tx[r].state = "open" /\ Rollback(r, "cancelled")

-----------------------------------------------------------------------------

Run(r) ==
    \/ Lock(r) \/ LockEach(r) \/ Child(r) \/ Source(r) \/ LockKeys(r) \/ Check(r) \/ Read(r)
    \/ InsertBlob(r) \/ PinBlob(r) \/ Publish(r) \/ DeleteVersion(r)
    \/ Snapshot(r) \/ Bump(r) \/ InsertBucket(r) \/ CheckEmpty(r)
    \/ DeleteUploads(r) \/ DeleteBucket(r) \/ InsertUpload(r) \/ LockUpload(r)
    \/ Stage(r) \/ Assemble(r) \/ DeleteUpload(r) \/ Release(r)
    \/ Expire(r) \/ Collect(r)

\* The sessions that call something in the scenario start together.
Start(c) ==
    /\ bucket = [n \in Names(c) |-> n] /\ bucketSeq = 1 + Max(Names(c) \cup {0})
    /\ object = [v \in DOMAIN c.stored |->
            [bucket |-> c.stored[v].bucket, key |-> c.stored[v].key, blob |-> {c.stored[v].body}]]
    /\ latest = {v \in DOMAIN c.stored : \A w \in DOMAIN c.stored :
            c.stored[w].bucket = c.stored[v].bucket /\ c.stored[w].key = c.stored[v].key => w <= v}
    /\ upload = c.pending
    /\ blob = [b \in {c.stored[v].body : v \in DOMAIN c.stored}
                      \cup UNION {c.pending[u].blob : u \in DOMAIN c.pending} |->
                Cardinality({v \in DOMAIN c.stored : c.stored[v].body = b})
                    + Cardinality({u \in DOMAIN c.pending : b \in c.pending[u].blob})]
    /\ versionSeq = 1 + Len(c.stored)
    /\ tx = [r \in Session |->
            IF r \in c.calls THEN [Ended("open") EXCEPT !.todo = Program(r)] ELSE Ended("absent")]
    /\ held = {}

Init == \E c \in Scenario : Start(c)

Next == \E r \in Session :
    Run(r) \/ Commit(r) \/ Raise(r) \/ DeadlockDetected(r) \/ Cancel(r)

Spec == Init /\ [][Next]_vars

\* A session that can go on does, and PostgreSQL resolves deadlocks.
FairSpec ==
    Spec /\ \A r \in Session : WF_vars(Run(r) \/ Commit(r) \/ Raise(r) \/ DeadlockDetected(r))

-----------------------------------------------------------------------------
(* Properties of the committed state.                                      *)

\* The counts of committed blobs are the committed object and chunk rows that
\* own them, whatever the interleaving of triggers, cascades and collectors.
RefcountExact ==
    \A c \in DOMAIN blob :
        blob[c] = Cardinality({v \in DOMAIN object : object[v].blob = {c}})
                + Cardinality({u \in DOMAIN upload : upload[u].blob = {c}})

\* No committed row refers to a bucket or blob that is gone: the row locks of
\* _ensure_blob and _commit_*_locked hold gc_blobs off, and the lifecycle lock
\* holds delete_bucket off, until the reference is counted.
NoDangling ==
    /\ \A v \in DOMAIN object :
        object[v].blob \subseteq DOMAIN blob /\ object[v].bucket \in Range(bucket)
    /\ \A u \in DOMAIN upload :
        upload[u].blob \subseteq DOMAIN blob /\ upload[u].bucket \in Range(bucket)

\* The key lock keeps version order and publication order together: although
\* ids are drawn before COMMIT and commits of different keys overtake each
\* other, the latest row of a key is its newest version.
LatestIsNewest ==
    \A v \in DOMAIN object :
        v \in latest <=> \A w \in Versions(object, object[v].bucket, object[v].key) : w <= v

CreateOnly(r) ==
    CASE Call[r].op \in {"put", "copy"} -> Call[r].createOnly
      [] Call[r].op = "complete_upload" -> upload[Call[r].upload].createOnly
      [] OTHER -> FALSE

\* If-None-Match: * has one winner: when a create-only call commits, no live
\* object of its key is committed, although it was checked earlier.
CreateOnlyNeverCovers ==
    [][\A r \in Session : \A v \in DOMAIN object' \ DOMAIN object :
            v \in DOMAIN tx[r].w.rows /\ CreateOnly(r)
            => LiveLatest(object'[v].bucket, object'[v].key) = {}]_vars

\* Every call ends, deadlocks included: nobody waits for ever.
EveryCallEnds == <>(\A r \in Session : tx[r].state # "open")

\* "Bulk delete acquires locks in a stable bytewise order to avoid deadlocks":
\* no delete_many is failed to break a deadlock.
BulkDeletesNeverVictims ==
    \A r \in Session : Call[r].op = "delete_many" => tx[r].state # "deadlock"

\* "Shared child creators either commit first or resolve the name after deletion
\* and get NoSuchBucket": none of them is failed to break a deadlock.
ChildCreatorsNeverVictims ==
    \A r \in Session :
        Call[r].op \in {"put", "copy", "begin_upload", "complete_upload"}
        => tx[r].state # "deadlock"

\* The rows without their flags, and the moments at which open forks have read.
History ==
    [v \in DOMAIN object |->
        [bucket |-> object[v].bucket, key |-> object[v].key, entry |-> object[v].blob]]
Shots == UNION {tx[r].shot : r \in Session}

\* The transactions together do what VersionedBuckets allows in atomic steps: a
\* fork is its source at one moment, everything else happens at COMMIT.
Abstract == INSTANCE VersionedBuckets WITH
    Name <- Name,
    names <- bucket,
    history <- History,
    shots <- Shots
ActsAtomically == Abstract!Steps
=============================================================================
