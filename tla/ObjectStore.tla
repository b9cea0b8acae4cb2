---------------------------- MODULE ObjectStore ----------------------------
(***************************************************************************)
(* The semantic layer of pgs3 (sql/bootstrap.sql): buckets, versioned      *)
(* objects, content-addressed blobs with reference counts, composite blobs *)
(* made of extents, pending uploads with their chunks and parts, and the   *)
(* two garbage collectors.                                                 *)
(*                                                                         *)
(* Every SQL function is one transaction and is one action here.  A call   *)
(* that raises an exception is rolled back, so it is no step at all.  What *)
(* happens between the statements of concurrent transactions is the        *)
(* subject of module Sessions.                                             *)
(*                                                                         *)
(* A body is the sequence of its bytes and stands for its own SHA-256 (the *)
(* primary key of pgs3.blob); its MD5 appears only inside ETags.  Optional *)
(* (NULLable) values are sets of at most one element.                      *)
(***************************************************************************)
EXTENDS Integers, FiniteSets, SequencesExt

CONSTANTS
    BucketName,      \* bucket names
    Key,             \* object keys
    Role,            \* database roles that act as tenants
    Usage,           \* pairs <<a, r>>: role a has USAGE on role r (pg_has_role)
    Body,            \* bodies offered to put
    Piece,           \* bodies offered to put_chunk
    PartBody,        \* bodies offered to put_part
    UploadId,        \* identities of pending uploads
    PartNo,          \* multipart part numbers, 1 .. 10000 in the code
    MaxParts,        \* bound on the completion list, 10000 in the code
    Cond,            \* write preconditions offered by clients
    Expected,        \* optional whole-body digests given to begin_upload
    MaxVersion,      \* last value of pgs3.object_version_id_seq
    MaxBucketId,     \* last value of the bucket identity column
    MaxChunkSeq,     \* bound on put_chunk's p_seq
    InlineThreshold, \* pgs3.inline_threshold
    ChunkSize,       \* pgs3.chunk_size
    MinPartSize,     \* v_min_part_size, 5 MiB in the code
    MaxObjectSize,   \* v_max_size, 5 GiB in the code
    MaxDepth,        \* nesting limit of the readers, 64 in the code
    GcLimit          \* p_limit of the garbage collectors

ASSUME BoundsAssumption ==
    /\ MaxVersion \in Nat /\ MaxBucketId \in Nat /\ MaxChunkSeq \in Nat
    /\ InlineThreshold \in Nat /\ ChunkSize \in Nat \ {0}
    /\ MinPartSize \in Nat /\ MaxObjectSize \in Nat
    /\ MaxParts \in Nat /\ MaxDepth \in Nat /\ GcLimit \in Nat \ {0}

ASSUME PartNoAssumption == PartNo \subseteq Nat \ {0}

ASSUME UsageAssumption ==
    Usage \subseteq Role \X Role /\ \A r \in Role : <<r, r>> \in Usage

ASSUME BodyAssumption ==
    \A c \in Body \cup Piece \cup PartBody : c \in Seq(Range(c))

ASSUME CondAssumption == \A cd \in Cond : cd.ifNoneMatch \in BOOLEAN

VARIABLES
    bucket,     \* name -> [id, owner]                          (pgs3.bucket)
    object,     \* version_id -> row                            (pgs3.object)
    latest,     \* the version ids whose row has is_latest
    blob,       \* sha256 -> [kind, refcount, height]           (pgs3.blob)
    extent,     \* <<final, seq>> -> source             (pgs3.blob_extent)
    upload,     \* upload_id -> row                             (pgs3.upload)
    leased,     \* uploads whose lease_expires_at is in the future
    idle,       \* uploads whose updated_at is older than p_max_age
    chunk,      \* <<upload, part, seq>> -> blob          (pgs3.upload_chunk)
    part,       \* <<upload, part>> -> blob                (pgs3.upload_part)
    versionSeq, \* next value of object_version_id_seq
    bucketSeq   \* next value of the bucket identity

objectVars == <<object, latest, versionSeq>>
uploadVars == <<upload, leased, idle, chunk, part>>
vars == <<bucket, bucketSeq, objectVars, blob, extent, uploadVars>>

-----------------------------------------------------------------------------
(* Identities, access and preconditions.                                   *)

\* The ETag of a single body is its MD5; a multipart ETag is the MD5 of the
\* parts' MD5s with the number of parts.
Etag(c) == [multi |-> FALSE, of |-> <<c>>]
MultipartEtag(cs) == [multi |-> TRUE, of |-> cs]

\* _bucket_id: the name resolves for roles with USAGE on its owner.
Visible(a, n) == n \in DOMAIN bucket /\ <<a, bucket[n].owner>> \in Usage

\* The access test of _upload_for_update, by bucket id.
MayUse(a, id) == \E n \in DOMAIN bucket : bucket[n].id = id /\ Visible(a, n)

IsMarker(row) == row.blob = {}

Versions(o, b, k) == {v \in DOMAIN o : o[v].bucket = b /\ o[v].key = k}

\* The latest row of a key when it is a live object: a set of at most one.
LiveLatest(b, k) ==
    {v \in Versions(object, b, k) : v \in latest /\ ~IsMarker(object[v])}

\* Mutant: the create-only condition is not evaluated.
PreconditionsIgnoreCreateOnly(b, k, cd) ==
    \A e \in cd.ifMatch : \E v \in LiveLatest(b, k) : object[v].etag = {e}

\* _check_write_preconditions against the latest row read under the key lock.
PreconditionsHold(b, k, cd) ==
    /\ cd.ifNoneMatch => LiveLatest(b, k) = {}
    /\ \A e \in cd.ifMatch : \E v \in LiveLatest(b, k) : object[v].etag = {e}

-----------------------------------------------------------------------------
(* Object rows.                                                            *)

\* The tables one statement sequence on object rows changes.
Tables == [object |-> object, latest |-> latest, blob |-> blob, seq |-> versionSeq]

\* Mutant: a delete marker gets the ETag of an empty body.
ObjectRowAlwaysTagged(b, k, c, e) ==
    [bucket |-> b, key |-> k, blob |-> c, etag |-> IF e = {} THEN {Etag(<<>>)} ELSE e]

ObjectRow(b, k, c, e) == [bucket |-> b, key |-> k, blob |-> c, etag |-> e]

\* The common tail of the _commit_*_locked helpers: is_latest is cleared on the
\* key's rows and the next version is inserted as its latest one.
AddRow(o, v, row) ==
    [w \in DOMAIN o \cup {v} |-> IF w = v THEN row ELSE o[w]]

MoveLatest(o, l, v, b, k) == (l \ Versions(o, b, k)) \cup {v}

\* Mutant: the latest version is removed and nothing takes its place.
PromoteNothing(o, l, v) == l \ {v}

\* delete with a version id: if the deleted row was the latest one, the highest
\* remaining version of the key is promoted.
Promote(o, l, v) ==
    LET rest == Versions(o, o[v].bucket, o[v].key) \ {v}
    IN (l \ {v}) \cup {w \in rest : v \in l /\ \A x \in rest : x <= w}

-----------------------------------------------------------------------------
(* Blobs and reference counts.                                             *)

BlobRow(kind, refcount, height) ==
    [kind |-> kind, refcount |-> refcount, height |-> height]

\* Mutant: an upsert that rewrites the row of bytes stored before.
EnsureBlobUpsert(b, c) ==
    [x \in DOMAIN b \cup {c} |->
        IF x \in DOMAIN b
        THEN IF x = c /\ b[x].kind = "inline"
             THEN BlobRow("chunked", b[x].refcount, 0) ELSE b[x]
        ELSE BlobRow("inline", 0, 0)]

\* _ensure_blob: insert the physical blob unless its digest is already there.
EnsureBlob(b, c) ==
    [x \in DOMAIN b \cup {c} |->
        IF x \in DOMAIN b THEN b[x]
        ELSE BlobRow(IF Len(c) <= InlineThreshold THEN "inline" ELSE "chunked", 0, 0)]

\* The refcount triggers: add Delta(c) to the count of every blob c.
Adjust(b, Delta(_)) ==
    [c \in DOMAIN b |-> BlobRow(b[c].kind, b[c].refcount + Delta(c), b[c].height)]

\* Nesting of a composite over these sources, as _read_blob descends it.
HeightOver(b, src) == 1 + Max({b[src[i]].height : i \in DOMAIN src} \cup {0})

\* _ensure_staged_blob and _ensure_composite_blob: a composite blob row for
\* the concatenation c of the sources src.  Only a row inserted now gets
\* extents, and every extent row counts as an owner of its source.
EnsureComposite(b, c, src) ==
    IF c \in DOMAIN b THEN b
    ELSE [x \in DOMAIN b \cup {c} |->
            IF x = c THEN BlobRow("composite", 0, HeightOver(b, src))
            ELSE BlobRow(b[x].kind,
                         b[x].refcount + Cardinality({i \in DOMAIN src : src[i] = x}),
                         b[x].height)]

\* Mutant: the extents are numbered against the order of the sources.
CompositeExtentsReversed(b, e, c, src) ==
    IF c \in DOMAIN b THEN e
    ELSE [p \in DOMAIN e \cup {<<c, i - 1>> : i \in DOMAIN src} |->
            IF p \in DOMAIN e THEN e[p] ELSE src[Len(src) - p[2]]]

CompositeExtents(b, e, c, src) ==
    IF c \in DOMAIN b THEN e
    ELSE [p \in DOMAIN e \cup {<<c, i - 1>> : i \in DOMAIN src} |->
            IF p \in DOMAIN e THEN e[p] ELSE src[p[2] + 1]]

\* Rows of upload_chunk and upload_part that an upload or a part owns.
UploadChunks(U) == {r \in DOMAIN chunk : r[1] \in U}
UploadParts(U) == {r \in DOMAIN part : r[1] \in U}
PartChunks(u, p) == {r \in DOMAIN chunk : r[1] = u /\ r[2] = p}

CountChunks(R, c) == Cardinality({r \in R : chunk[r] = c})
CountParts(R, c) == Cardinality({r \in R : part[r] = c})
One(p) == IF p THEN 1 ELSE 0

\* Mutant: the cascaded deletes of the part rows fire no refcount trigger.
ReleaseChunksOnly(b, U) ==
    Adjust(b, LAMBDA c : 0 - CountChunks(UploadChunks(U), c))

\* DELETE FROM pgs3.upload with its cascades and their refcount triggers.
ReleaseUploads(b, U) ==
    Adjust(b, LAMBDA c : 0 - CountChunks(UploadChunks(U), c)
                           - CountParts(UploadParts(U), c))

DropUploads(U) ==
    /\ upload' = Restrict(upload, DOMAIN upload \ U)
    /\ leased' = leased \ U /\ idle' = idle \ U
    /\ chunk' = Restrict(chunk, DOMAIN chunk \ UploadChunks(U))
    /\ part' = Restrict(part, DOMAIN part \ UploadParts(U))

-----------------------------------------------------------------------------
(* Buckets.                                                                *)

\* INSERT INTO pgs3.bucket under the UNIQUE name.
AddBucket(a, n) ==
    /\ n \notin DOMAIN bucket
    /\ bucketSeq <= MaxBucketId
    /\ bucket' = [m \in DOMAIN bucket \cup {n} |->
                    IF m = n THEN [id |-> bucketSeq, owner |-> a] ELSE bucket[m]]
    /\ bucketSeq' = bucketSeq + 1

\* create_bucket of a free name.  An existing name is either a reopen that
\* changes nothing or BucketAlreadyExists.
CreateBucket(a, n) ==
    /\ AddBucket(a, n)
    /\ UNCHANGED <<objectVars, blob, extent, uploadVars>>

\* Mutant: a bucket that only has delete markers counts as empty.
DeleteBucketWithMarkers(a, n) ==
    /\ Visible(a, n)
    /\ \A v \in DOMAIN object : object[v].bucket = bucket[n].id => IsMarker(object[v])
    /\ LET U == {u \in DOMAIN upload : upload[u].bucket = bucket[n].id}
       IN blob' = ReleaseUploads(blob, U) /\ DropUploads(U)
    /\ bucket' = Restrict(bucket, DOMAIN bucket \ {n})
    /\ UNCHANGED <<bucketSeq, objectVars, extent>>

\* delete_bucket: no object row may remain; pending uploads are aborted.
DeleteBucket(a, n) ==
    /\ Visible(a, n)
    /\ \A v \in DOMAIN object : object[v].bucket # bucket[n].id
    /\ LET U == {u \in DOMAIN upload : upload[u].bucket = bucket[n].id}
       IN blob' = ReleaseUploads(blob, U) /\ DropUploads(U)
    /\ bucket' = Restrict(bucket, DOMAIN bucket \ {n})
    /\ UNCHANGED <<bucketSeq, objectVars, extent>>

-----------------------------------------------------------------------------
(* Objects.                                                                *)

\* INSERT INTO pgs3.object of a new latest row.
InsertVersion(b, k, c, e) ==
    /\ versionSeq <= MaxVersion
    /\ object' = AddRow(object, versionSeq, ObjectRow(b, k, c, e))
    /\ latest' = MoveLatest(object, latest, versionSeq, b, k)
    /\ versionSeq' = versionSeq + 1

\* put: _commit_body_locked.
Put(a, n, k, c, cd) ==
    /\ Visible(a, n)
    /\ Len(c) <= MaxObjectSize
    /\ PreconditionsHold(bucket[n].id, k, cd)
    /\ InsertVersion(bucket[n].id, k, {c}, {Etag(c)})
    /\ blob' = Adjust(EnsureBlob(blob, c), LAMBDA x : One(x = c))
    /\ UNCHANGED <<bucket, bucketSeq, extent, uploadVars>>

\* One delete inside a transaction, as a function of the tables it changes:
\* without a version a delete marker is inserted (even for an unknown key),
\* with one the row is removed; a missing version is a success that does
\* nothing.
DeleteOne(s, b, k, ver) ==
    LET gone == {v \in Versions(s.object, b, k) : ver = {v}}
    IN IF ver = {}
       THEN [object |-> AddRow(s.object, s.seq, ObjectRow(b, k, {}, {})),
             latest |-> MoveLatest(s.object, s.latest, s.seq, b, k),
             blob |-> s.blob, seq |-> s.seq + 1]
       ELSE [object |-> Restrict(s.object, DOMAIN s.object \ gone),
             latest |-> IF gone = {} THEN s.latest
                        ELSE Promote(s.object, s.latest, CHOOSE v \in gone : TRUE),
             blob |-> Adjust(s.blob, LAMBDA x :
                        0 - Cardinality({v \in gone : s.object[v].blob = {x}})),
             seq |-> s.seq]

\* The transaction that leaves the object tables as in s.
Commit(s) ==
    /\ s.seq <= MaxVersion + 1
    /\ object' = s.object /\ latest' = s.latest
    /\ blob' = s.blob /\ versionSeq' = s.seq
    /\ UNCHANGED <<bucket, bucketSeq, extent, uploadVars>>

Delete(a, n, k, ver) ==
    /\ Visible(a, n)
    /\ Commit(DeleteOne(Tables, bucket[n].id, k, ver))

\* delete_many: the entries run in request order inside one transaction; a
\* request of two entries has the repeats and the order that matter.
DeleteMany(a, n, k1, ver1, k2, ver2) ==
    /\ Visible(a, n)
    /\ Commit(DeleteOne(DeleteOne(Tables, bucket[n].id, k1, ver1),
                        bucket[n].id, k2, ver2))

\* Mutant: the shared blob is not counted for the new version.
CommitReferenceUncounted(b, k, v, cd) ==
    /\ ~IsMarker(object[v])
    /\ PreconditionsHold(b, k, cd)
    /\ object[v].blob \subseteq DOMAIN blob
    /\ InsertVersion(b, k, object[v].blob, object[v].etag)
    /\ UNCHANGED <<blob, bucket, bucketSeq, extent, uploadVars>>

\* _commit_reference_locked: a new version that shares the source row's blob.
CommitReference(b, k, v, cd) ==
    /\ ~IsMarker(object[v])
    /\ PreconditionsHold(b, k, cd)
    /\ object[v].blob \subseteq DOMAIN blob
    /\ InsertVersion(b, k, object[v].blob, object[v].etag)
    /\ blob' = Adjust(blob, LAMBDA x : One(object[v].blob = {x}))
    /\ UNCHANGED <<bucket, bucketSeq, extent, uploadVars>>

\* copy: the source is the latest live row or a given live version.
Copy(a, sn, sk, ver, dn, dk, srcMatch, cd) ==
    /\ Visible(a, sn) /\ Visible(a, dn)
    /\ \E v \in Versions(object, bucket[sn].id, sk) :
        /\ IF ver = {} THEN v \in latest ELSE ver = {v}
        /\ srcMatch = {} \/ srcMatch = object[v].etag
        /\ CommitReference(bucket[dn].id, dk, v, cd)

\* restore: an older live version of the same key becomes a new latest one;
\* only If-Match is offered.
RestoreVersion(a, n, k, v, ifMatch) ==
    /\ Visible(a, n)
    /\ v \in Versions(object, bucket[n].id, k)
    /\ CommitReference(bucket[n].id, k, v,
                       [ifNoneMatch |-> FALSE, ifMatch |-> ifMatch])

\* Mutant: the source rows change hands instead of being copied.
ForkMoves(a, sn, dn) ==
    /\ Visible(a, sn)
    /\ object' = [v \in DOMAIN object |->
                    IF v \in latest /\ object[v].bucket = bucket[sn].id
                    THEN ObjectRow(bucketSeq, object[v].key, object[v].blob, object[v].etag)
                    ELSE object[v]]
    /\ AddBucket(a, dn)
    /\ UNCHANGED <<latest, versionSeq, blob, extent, uploadVars>>

\* fork_bucket: every latest row of the source, delete markers included, is
\* copied under a fresh version id.  The scan order decides which row gets
\* which id.  The refcount trigger is off and the counts are raised set-wise.
Fork(a, sn, dn) ==
    /\ Visible(a, sn)
    /\ LET rows == {v \in latest : object[v].bucket = bucket[sn].id}
           fresh == versionSeq .. (versionSeq + Cardinality(rows) - 1)
       IN /\ versionSeq + Cardinality(rows) <= MaxVersion + 1
          /\ \E scan \in Bijection(fresh, rows) :
                object' = [w \in DOMAIN object \cup fresh |->
                            IF w \in fresh
                            THEN ObjectRow(bucketSeq, object[scan[w]].key,
                                           object[scan[w]].blob, object[scan[w]].etag)
                            ELSE object[w]]
          /\ latest' = latest \cup fresh
          /\ blob' = Adjust(blob, LAMBDA x :
                        Cardinality({v \in rows : object[v].blob = {x}}))
          /\ versionSeq' = versionSeq + Cardinality(rows)
    /\ AddBucket(a, dn)
    /\ UNCHANGED <<extent, uploadVars>>

-----------------------------------------------------------------------------
(* Pending uploads.                                                        *)

\* begin_upload.  The preconditions are stored and evaluated at completion.
BeginUpload(a, n, k, u, multi, cd, expected) ==
    /\ Visible(a, n)
    /\ u \notin DOMAIN upload
    /\ upload' = [w \in DOMAIN upload \cup {u} |->
                    IF w = u
                    THEN [bucket |-> bucket[n].id, key |-> k, multipart |-> multi,
                          cond |-> cd, expected |-> expected]
                    ELSE upload[w]]
    /\ leased' = leased \cup {u} /\ idle' = idle \ {u}
    /\ UNCHANGED <<bucket, bucketSeq, objectVars, blob, extent, chunk, part>>

\* _upload_for_update: the caller may use a pending upload.
ForUpdate(a, u) == u \in DOMAIN upload /\ MayUse(a, upload[u].bucket)

\* Its UPDATE renews the lease; a staging mutation also touches updated_at.
Mutates(a, u) ==
    /\ ForUpdate(a, u)
    /\ leased' = leased \cup {u} /\ idle' = idle \ {u}
    /\ UNCHANGED upload

\* renew_upload, and list_parts, which takes the same lock: the lease only.
RenewUpload(a, u) ==
    /\ ForUpdate(a, u)
    /\ leased' = leased \cup {u}
    /\ UNCHANGED <<bucket, bucketSeq, objectVars, blob, extent, upload, idle, chunk, part>>

\* Five minutes pass without a renewal.
LeaseExpires(u) ==
    /\ u \in leased /\ leased' = leased \ {u}
    /\ UNCHANGED <<bucket, bucketSeq, objectVars, blob, extent, upload, idle, chunk, part>>

\* p_max_age passes without a staging mutation.
StagingAges(u) ==
    /\ u \in DOMAIN upload \ idle /\ idle' = idle \cup {u}
    /\ UNCHANGED <<bucket, bucketSeq, objectVars, blob, extent, upload, leased, chunk, part>>

\* begin_part, and abort_part, which calls it: forget the part and its chunks.
BeginPart(a, u, p) ==
    /\ Mutates(a, u)
    /\ upload[u].multipart
    /\ blob' = Adjust(blob, LAMBDA c : 0 - CountChunks(PartChunks(u, p), c)
                                         - CountParts({<<u, p>>} \cap DOMAIN part, c))
    /\ chunk' = Restrict(chunk, DOMAIN chunk \ PartChunks(u, p))
    /\ part' = Restrict(part, DOMAIN part \ {<<u, p>>})
    /\ UNCHANGED <<bucket, bucketSeq, objectVars, extent>>

\* put_chunk (part 0 exactly for uploads that are not multipart): the chunk
\* row is inserted or replaced, and a completed part is reopened.
PutChunk(a, u, p, s, c) ==
    LET row == <<u, p, s>>
        b == EnsureBlob(blob, c)
    IN /\ Mutates(a, u)
       /\ upload[u].multipart <=> p # 0
       /\ blob' = Adjust(b, LAMBDA x : One(x = c)
                              - CountChunks({row} \cap DOMAIN chunk, x)
                              - CountParts({<<u, p>>} \cap DOMAIN part, x))
       /\ chunk' = [r \in DOMAIN chunk \cup {row} |->
                        IF r = row THEN c ELSE chunk[r]]
       /\ part' = Restrict(part, DOMAIN part \ {<<u, p>>})
       /\ UNCHANGED <<bucket, bucketSeq, objectVars, extent>>

\* The staged blobs of a part in seq order; they are dense from 0.
Staged(u, p) ==
    [i \in 1 .. Cardinality(PartChunks(u, p)) |-> chunk[<<u, p, i - 1>>]]

Dense(u, p) ==
    PartChunks(u, p) = {<<u, p, i - 1>> : i \in 1 .. Cardinality(PartChunks(u, p))}

\* The streaming digest walks one level less than the readers allow.
Hashable(src) == \A i \in DOMAIN src : blob[src[i]].height < MaxDepth

\* complete_part: the staged chunks become one canonical part blob; the chunk
\* rows are deleted once the part row owns it.
CompletePart(a, u, p) ==
    LET src == Staged(u, p)
        c == FlattenSeq(src)
        b == EnsureComposite(blob, c, src)
    IN /\ Mutates(a, u)
       /\ upload[u].multipart
       /\ PartChunks(u, p) # {} /\ Dense(u, p)
       /\ Hashable(src)
       /\ blob' = Adjust(b, LAMBDA x : One(x = c)
                              - CountParts({<<u, p>>} \cap DOMAIN part, x)
                              - CountChunks(PartChunks(u, p), x))
       /\ extent' = CompositeExtents(blob, extent, c, src)
       /\ part' = [r \in DOMAIN part \cup {<<u, p>>} |->
                        IF r = <<u, p>> THEN c ELSE part[r]]
       /\ chunk' = Restrict(chunk, DOMAIN chunk \ PartChunks(u, p))
       /\ UNCHANGED <<bucket, bucketSeq, objectVars>>

\* put_part cuts the body at ChunkSize; an empty body is one empty chunk.
Pieces(c) ==
    [i \in 1 .. (IF c = <<>> THEN 1 ELSE (Len(c) - 1) \div ChunkSize + 1) |->
        SubSeq(c, (i - 1) * ChunkSize + 1,
                  IF i * ChunkSize < Len(c) THEN i * ChunkSize ELSE Len(c))]

EnsureBlobs(b, cs) ==
    [x \in DOMAIN b \cup {cs[i] : i \in DOMAIN cs} |->
        IF x \in DOMAIN b THEN b[x] ELSE EnsureBlob(b, x)[x]]

\* put_part: begin_part, a put_chunk per piece and complete_part at once.
PutPart(a, u, p, c) ==
    LET src == Pieces(c)
        pieces == EnsureBlobs(blob, src)
        b == EnsureComposite(pieces, c, src)
    IN /\ Mutates(a, u)
       /\ upload[u].multipart
       /\ \A i \in DOMAIN src : pieces[src[i]].height < MaxDepth
       /\ blob' = Adjust(b, LAMBDA x : One(x = c)
                              - CountParts({<<u, p>>} \cap DOMAIN part, x)
                              - CountChunks(PartChunks(u, p), x))
       /\ extent' = CompositeExtents(pieces, extent, c, src)
       /\ part' = [r \in DOMAIN part \cup {<<u, p>>} |->
                        IF r = <<u, p>> THEN c ELSE part[r]]
       /\ chunk' = Restrict(chunk, DOMAIN chunk \ PartChunks(u, p))
       /\ UNCHANGED <<bucket, bucketSeq, objectVars>>

\* The end of every completion: digest check, _commit_canonical_locked and the
\* deletion of the upload, over the blob table b that already holds c.
PublishUpload(a, u, b, c, e) ==
    LET at == upload[u]
    IN /\ \A x \in at.expected : x = c
       /\ Len(c) <= MaxObjectSize
       /\ PreconditionsHold(at.bucket, at.key, at.cond)
       /\ InsertVersion(at.bucket, at.key, {c}, {e})
       /\ blob' = Adjust(ReleaseUploads(b, {u}), LAMBDA x : One(x = c))
       /\ DropUploads({u})
       /\ UNCHANGED <<bucket, bucketSeq>>

\* complete_upload of an upload that is not multipart.  No chunk at all is an
\* empty body.  Bodies up to the inline threshold are consolidated.
CompleteUpload(a, u) ==
    LET src == Staged(u, 0)
        c == FlattenSeq(src)
        inline == Len(c) <= InlineThreshold
    IN /\ ForUpdate(a, u)
       /\ ~upload[u].multipart
       /\ Dense(u, 0)
       /\ Hashable(src)
       /\ extent' = IF inline THEN extent ELSE CompositeExtents(blob, extent, c, src)
       /\ PublishUpload(a, u,
            IF inline THEN EnsureBlob(blob, c) ELSE EnsureComposite(blob, c, src),
            c, Etag(c))

\* _worker_complete_upload: the HTTP worker seals the ordered chunk identities
\* and the digests it computed while streaming.  Above the inline threshold
\* the stored bytes are not read back.
WorkerCompleteUpload(a, u, manifest) ==
    LET c == FlattenSeq(manifest)
    IN /\ ForUpdate(a, u)
       /\ ~upload[u].multipart
       /\ PartChunks(u, 0) # {} /\ Dense(u, 0)
       /\ manifest = Staged(u, 0)
       /\ IF Len(c) <= InlineThreshold
          THEN CompleteUpload(a, u)
          ELSE /\ extent' = CompositeExtents(blob, extent, c, manifest)
               /\ PublishUpload(a, u, EnsureComposite(blob, c, manifest), c, Etag(c))

\* complete_multipart_upload: a non-empty, strictly ascending list of existing
\* parts, all but the last at least MinPartSize long.  The optional part ETags
\* and digests of the caller can only refuse the list, and are not given here.
CompleteMultipartUpload(a, u, nos) ==
    LET src == [i \in DOMAIN nos |-> part[<<u, nos[i]>>]]
        c == FlattenSeq(src)
    IN /\ ForUpdate(a, u)
       /\ upload[u].multipart
       /\ nos # <<>>
       /\ \A i, j \in DOMAIN nos : i < j => nos[i] < nos[j]
       /\ \A i \in DOMAIN nos : <<u, nos[i]>> \in DOMAIN part
       /\ \A i \in 1 .. Len(nos) - 1 : Len(src[i]) >= MinPartSize
       /\ Hashable(src)
       /\ extent' = CompositeExtents(blob, extent, c, src)
       /\ PublishUpload(a, u, EnsureComposite(blob, c, src), c, MultipartEtag(src))

\* abort_upload.
AbortUpload(a, u) ==
    /\ ForUpdate(a, u)
    /\ blob' = ReleaseUploads(blob, {u})
    /\ DropUploads({u})
    /\ UNCHANGED <<bucket, bucketSeq, objectVars, extent>>

-----------------------------------------------------------------------------
(* Garbage collection.                                                     *)

\* gc_pending_uploads: idle uploads with an expired lease.  SKIP LOCKED lets a
\* call leave some of them behind.
GcPendingUploads(U) ==
    /\ U # {} /\ Cardinality(U) <= GcLimit
    /\ U \subseteq idle \ leased
    /\ blob' = ReleaseUploads(blob, U)
    /\ DropUploads(U)
    /\ UNCHANGED <<bucket, bucketSeq, objectVars, extent>>

\* Mutant: the claimed row's count is not tested again before the delete.
GcBlobsUnchecked(D) ==
    LET own(c) == {e \in DOMAIN extent : e[1] \in D /\ extent[e] = c}
    IN /\ D # {} /\ Cardinality(D) <= GcLimit
       /\ blob' = Adjust(Restrict(blob, DOMAIN blob \ D),
                         LAMBDA c : 0 - Cardinality(own(c)))
       /\ extent' = Restrict(extent, {e \in DOMAIN extent : e[1] \notin D})
       /\ UNCHANGED <<bucket, bucketSeq, objectVars, uploadVars>>

\* Mutant: only blobs with bytes of their own are collected.
GcBlobsStoredOnly(D) ==
    /\ D # {} /\ Cardinality(D) <= GcLimit
    /\ \A c \in D : blob[c].refcount = 0 /\ blob[c].kind # "composite"
    /\ blob' = Restrict(blob, DOMAIN blob \ D)
    /\ UNCHANGED <<bucket, bucketSeq, objectVars, extent, uploadVars>>

\* gc_blobs deletes one zero-count blob after another; deleting a composite
\* releases its sources within the same call.  D is what one call deletes: the
\* counts of D are all due to extents of other members of D.
GcBlobs(D) ==
    LET own(c) == {e \in DOMAIN extent : e[1] \in D /\ extent[e] = c}
    IN /\ D # {} /\ Cardinality(D) <= GcLimit
       /\ \A c \in D : blob[c].refcount = Cardinality(own(c))
       /\ blob' = Adjust(Restrict(blob, DOMAIN blob \ D),
                         LAMBDA c : 0 - Cardinality(own(c)))
       /\ extent' = Restrict(extent, {e \in DOMAIN extent : e[1] \notin D})
       /\ UNCHANGED <<bucket, bucketSeq, objectVars, uploadVars>>

-----------------------------------------------------------------------------

\* A table without rows.
Empty == [x \in {} |-> x]

Init ==
    /\ bucket = Empty /\ object = Empty /\ blob = Empty /\ extent = Empty
    /\ upload = Empty /\ chunk = Empty /\ part = Empty
    /\ latest = {} /\ leased = {} /\ idle = {}
    /\ versionSeq = 1 /\ bucketSeq = 1

\* An optional version id, as delete and copy take it.
VersionArg == {{}} \cup {{v} : v \in DOMAIN object}

BucketStep ==
    \E a \in Role, n \in BucketName : CreateBucket(a, n) \/ DeleteBucket(a, n)

ObjectStep ==
    \E a \in Role, n \in BucketName, k \in Key :
        \/ \E c \in Body, cd \in Cond : Put(a, n, k, c, cd)
        \/ \E ver \in VersionArg : Delete(a, n, k, ver)
        \/ \E k2 \in Key, ver, ver2 \in VersionArg : DeleteMany(a, n, k, ver, k2, ver2)
        \/ \E n2 \in BucketName, k2 \in Key, ver \in VersionArg, cd \in Cond,
              match \in {{}} \cup {{Etag(c)} : c \in Body} :
                Copy(a, n, k, ver, n2, k2, match, cd)
        \/ \E v \in DOMAIN object, cd \in Cond : RestoreVersion(a, n, k, v, cd.ifMatch)

ForkStep ==
    \E a \in Role, n, n2 \in BucketName : Fork(a, n, n2)

UploadStep ==
    \E a \in Role, u \in UploadId :
        \/ \E n \in BucketName, k \in Key, multi \in BOOLEAN, cd \in Cond,
              expected \in Expected : BeginUpload(a, n, k, u, multi, cd, expected)
        \/ RenewUpload(a, u)
        \/ \E p \in PartNo \cup {0}, s \in 0 .. MaxChunkSeq, c \in Piece :
                PutChunk(a, u, p, s, c)
        \/ \E p \in PartNo :
                \/ BeginPart(a, u, p)
                \/ CompletePart(a, u, p)
                \/ \E c \in PartBody : PutPart(a, u, p, c)
        \/ CompleteUpload(a, u)
        \/ WorkerCompleteUpload(a, u, Staged(u, 0))
        \/ \E nos \in BoundedSeq(PartNo, MaxParts) : CompleteMultipartUpload(a, u, nos)
        \/ AbortUpload(a, u)

TimeStep ==
    \E u \in UploadId : LeaseExpires(u) \/ StagingAges(u)

GcStep ==
    \/ \E U \in SUBSET DOMAIN upload : GcPendingUploads(U)
    \/ \E D \in SUBSET DOMAIN blob : GcBlobs(D)

Next ==
    \/ BucketStep \/ ObjectStep \/ ForkStep
    \/ UploadStep \/ TimeStep \/ GcStep

Spec == Init /\ [][Next]_vars

\* The GC worker calls both collectors every minute for as long as it runs;
\* time passes for an upload that nobody touches.
CollectorFairness ==
    /\ \A u \in UploadId : WF_vars(LeaseExpires(u)) /\ WF_vars(StagingAges(u))
    /\ WF_vars(\E U \in SUBSET DOMAIN upload : GcPendingUploads(U))
    /\ WF_vars(\E D \in SUBSET DOMAIN blob : GcBlobs(D))

FairSpec == Spec /\ CollectorFairness

-----------------------------------------------------------------------------
(* Properties.                                                             *)

BucketOK ==
    /\ bucketSeq \in Nat
    /\ DOMAIN bucket \subseteq BucketName
    /\ \A n \in DOMAIN bucket :
        bucket[n].id \in Nat /\ bucket[n].id < bucketSeq /\ bucket[n].owner \in Role

ObjectOK ==
    /\ versionSeq \in Nat
    /\ DOMAIN object \subseteq Nat
    /\ latest \subseteq DOMAIN object
    /\ \A v \in DOMAIN object :
        /\ v < versionSeq
        /\ object[v].bucket \in Nat /\ object[v].bucket < bucketSeq
        /\ object[v].key \in Key
        /\ IsMarker(object[v]) <=> object[v].etag = {}

BlobOK ==
    /\ IsFiniteSet(DOMAIN blob) /\ IsFiniteSet(DOMAIN extent)
    /\ \A c \in DOMAIN blob :
        blob[c].kind \in {"inline", "chunked", "composite"} /\ blob[c].refcount \in Int

UploadOK ==
    /\ DOMAIN upload \subseteq UploadId
    /\ \A u \in DOMAIN upload :
        /\ upload[u].bucket \in Nat /\ upload[u].bucket < bucketSeq
        /\ upload[u].key \in Key /\ upload[u].cond \in Cond
    /\ leased \subseteq DOMAIN upload /\ idle \subseteq DOMAIN upload
    /\ IsFiniteSet(DOMAIN chunk) /\ IsFiniteSet(DOMAIN part)
    /\ DOMAIN chunk \subseteq UploadId \X (PartNo \cup {0}) \X (0 .. MaxChunkSeq)
    /\ DOMAIN part \subseteq UploadId \X PartNo

\* Rows have the shapes the table definitions give them (a delete marker has
\* neither blob nor ETag: CHECK object_payload_shape), and both sequences stay
\* ahead of every identity found in a row.
TypeOK == BucketOK /\ ObjectOK /\ BlobOK /\ UploadOK

\* A row is the latest one exactly if it is the newest version of its key:
\* publication, delete markers, the promotion in delete() and the bulk copy of
\* fork_bucket all keep is_latest and the version order together.
NewestIsLatest(o, l) ==
    \A v \in DOMAIN o :
        v \in l <=> \A w \in Versions(o, o[v].bucket, o[v].key) : w <= v
LatestIsNewest == NewestIsLatest(object, latest)

\* The refcount column counts exactly the object, chunk, part and extent rows
\* that own the blob, through every trigger, cascade and the set-wise update
\* of fork_bucket.
RefcountExact ==
    \A c \in DOMAIN blob :
        blob[c].refcount =
              Cardinality({v \in DOMAIN object : object[v].blob = {c}})
            + Cardinality({r \in DOMAIN chunk : chunk[r] = c})
            + Cardinality({r \in DOMAIN part : part[r] = c})
            + Cardinality({e \in DOMAIN extent : extent[e] = c})

\* No row refers to a parent that is gone, so the foreign keys (RESTRICT on
\* blobs, none at all on fork_bucket's bulk insert) never have to intervene:
\* gc_blobs and delete_bucket only remove what nothing refers to.
NoDangling ==
    /\ \A v \in DOMAIN object :
        /\ object[v].blob \subseteq DOMAIN blob
        /\ \E n \in DOMAIN bucket : bucket[n].id = object[v].bucket
    /\ \A u \in DOMAIN upload : \E n \in DOMAIN bucket : bucket[n].id = upload[u].bucket
    /\ \A r \in DOMAIN chunk : r[1] \in DOMAIN upload /\ chunk[r] \in DOMAIN blob
    /\ \A r \in DOMAIN part : r[1] \in DOMAIN upload /\ part[r] \in DOMAIN blob
    /\ \A e \in DOMAIN extent : e[1] \in DOMAIN blob /\ extent[e] \in DOMAIN blob

\* Extents of a blob, as _read_blob concatenates them.
ExtentsOf(c) == {e \in DOMAIN extent : e[1] = c}
Spelled(c) == FlattenSeq([i \in 1 .. Cardinality(ExtentsOf(c)) |-> extent[<<c, i - 1>>]])

\* Reading any blob back yields the bytes it is named after: extents of a
\* composite are dense from 0, spell its body, and lead to blobs of smaller
\* height, so that the recursion of _read_blob ends; others have none.
ReadsBack ==
    \A c \in DOMAIN blob :
        IF blob[c].kind = "composite"
        THEN /\ ExtentsOf(c) = {<<c, i - 1>> : i \in 1 .. Cardinality(ExtentsOf(c))}
             /\ Spelled(c) = c
             /\ \A e \in ExtentsOf(c) : blob[extent[e]].height < blob[c].height
        ELSE ExtentsOf(c) = {} /\ blob[c].height = 0

\* History is append-only: a version that survives a step keeps its bytes, ETag
\* and place (only is_latest moves), and a version that appears is newer than
\* all others of its key, whether published, copied, restored or forked.
HistoryAppendOnly ==
    [][\A v \in DOMAIN object' :
            IF v \in DOMAIN object
            THEN object'[v] = object[v]
            ELSE \A w \in Versions(object, object'[v].bucket, object'[v].key) : w < v]_vars

\* A stored blob is immutable: a step that keeps it keeps its kind and its
\* extents, whoever uploads the same bytes again.
BlobsImmutable ==
    [][\A c \in DOMAIN blob \cap DOMAIN blob' :
            /\ blob'[c].kind = blob[c].kind
            /\ {<<e, extent[e]>> : e \in {x \in DOMAIN extent : x[1] = c}}
                 = {<<e, extent'[e]>> : e \in {x \in DOMAIN extent' : x[1] = c}}]_vars

\* The create-only condition of an upload holds when its object appears, not
\* when the upload began: a version never covers a live object through it.
CreateOnlyNeverCovers ==
    [][\A u \in DOMAIN upload : \A v \in DOMAIN object' \ DOMAIN object :
            u \notin DOMAIN upload' /\ upload[u].cond.ifNoneMatch
                => LiveLatest(upload[u].bucket, upload[u].key) = {}]_vars

\* Once clients stop, everything abandoned is collected: the pending uploads
\* with their staging rows, and then every blob, composites before their
\* sources, that no version of an object needs.
GarbageDrains ==
    <>[][TimeStep \/ GcStep]_vars
        => <>[](DOMAIN upload = {} /\ \A c \in DOMAIN blob : blob[c].refcount > 0)

\* What a client can tell of the tables: the bucket a name stands for, and the
\* place and content of every version.
BucketIds == [n \in DOMAIN bucket |-> bucket[n].id]
History ==
    [v \in DOMAIN object |->
        [bucket |-> object[v].bucket, key |-> object[v].key, entry |-> object[v].blob]]

Abstract == INSTANCE VersionedBuckets WITH
    Name <- BucketName, names <- BucketIds, history <- History, shots <- {}

\* The semantic layer is the versioned buckets it promises: a name stands for one
\* bucket, only an empty bucket goes, a completed upload, copy or restore publishes
\* exactly one version above the others of its key in a bucket that still exists, a
\* delete takes versions of its own bucket only, and fork_bucket yields what a reader
\* of the source saw.  Blobs, staging rows, leases and collectors never show.
KeepsPromises == Abstract!Spec

=============================================================================
