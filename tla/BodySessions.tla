---------------------------- MODULE BodySessions ----------------------------
(***************************************************************************)
(* The body sessions of the HTTP workers (src/s3/service.rs) over the      *)
(* staging functions of sql/bootstrap.sql.                                 *)
(*                                                                         *)
(* A request that carries the body of an object or of a part is served in  *)
(* many short transactions: one when its head arrives, one per full chunk, *)
(* heartbeats that renew the lease of the upload, and one or two when the  *)
(* body is complete.  Workers are processes; between any two of these      *)
(* transactions other sessions, clients and the collector run, and a       *)
(* worker may vanish.  Every SQL call is atomic here: it holds the lock of *)
(* the upload row from its first statement to its end (module Sessions     *)
(* looks into it).                                                         *)
(*                                                                         *)
(* Byte i of request r is <<r, i>>, so that a body tells whose it is; ETags *)
(* and digests stand for the bytes they are computed from.  Time is counted *)
(* in units of the heartbeat interval.                                     *)
(***************************************************************************)
EXTENDS Integers, FiniteSets, SequencesExt

CONSTANTS
    Request,           \* HTTP requests PutObject and UploadPart
    Upload,            \* upload ids, each used once
    PartNo,            \* part numbers; part 0 is the body of a PutObject
    BodyLen,           \* lengths of bodies
    ChunkBytes,        \* staging_chunk_bytes
    DirectBytes,       \* direct_put_bytes
    UploadLease,       \* lease of an upload row: 5 minutes
    HeartbeatInterval, \* UPLOAD_LEASE_HEARTBEAT_INTERVAL: 60 seconds
    BodyIdle,          \* BODY_IDLE_TIMEOUT: 60 seconds
    Slack,             \* longest time a worker is away from a session
    MaxAge,            \* p_max_age the GC worker passes: 24 hours
    SqlSequence,       \* chunk numbers that SQL sessions of the tenant replace
    Overlap,           \* clients may repeat a part before its last try ended
    None               \* no upload

ASSUME SizesAssumption ==
    /\ ChunkBytes \in Nat \ {0} /\ DirectBytes \in Nat /\ BodyLen \subseteq Nat
    /\ PartNo \subseteq Nat \ {0} /\ SqlSequence \subseteq Nat
    /\ Overlap \in BOOLEAN /\ None \notin Upload

ASSUME TimesAssumption ==
    /\ HeartbeatInterval \in Nat \ {0} /\ BodyIdle \in Nat \ {0} /\ Slack \in Nat
    /\ MaxAge \in Nat /\ UploadLease \in Nat

\* The lease outlives a missed heartbeat: a push just before it is due, one
\* silence up to the idle timeout and one slow call.
ASSUME LeaseAssumption == HeartbeatInterval + 2 * (BodyIdle + Slack) <= UploadLease

VARIABLES
    session,  \* request -> BodySession
    upload,   \* upload id -> row of pgs3.upload with its chunks and parts
    lastTry,  \* <<upload, part>> -> the request that began that part last
    object    \* published objects: [sent: requests, body: bytes]

vars == <<session, upload, lastTry, object>>

-----------------------------------------------------------------------------
(* Sessions.                                                               *)

Kinds == {"direct", "put", "part"}    \* DirectPut, Staged part 0, Staged part n

NewSession ==
    [pc |-> "new", kind |-> "put", upload |-> None, part |-> 0, len |-> 0,
     fixed |-> FALSE, checksum |-> FALSE, wire |-> 0, remaining |-> 0,
     sequence |-> 0, buffer |-> <<>>, manifest |-> <<>>, beat |-> 0, quiet |-> 0,
     etag |-> <<>>]

\* The session is held by a worker and its request is not answered yet.
Active(s) == s.pc \in {"read", "stage", "renew", "complete_part"}

\* What is left of a session when its request has been answered or its worker
\* has died.
Ended(s, pc, etag) ==
    [NewSession EXCEPT !.pc = pc, !.kind = s.kind, !.upload = s.upload,
                       !.part = s.part, !.len = s.len, !.etag = etag]

Bytes(r, from, to) == [i \in 1 .. to - from + 1 |-> <<r, from + i - 1>>]
BodyOf(r) == Bytes(r, 1, session[r].len)

-----------------------------------------------------------------------------
(* Rows.                                                                   *)

FreeRow ==
    [state |-> "free", multipart |-> FALSE, chunk |-> <<>>, part |-> <<>>,
     age |-> 0, lease |-> 0]

NewRow(multipart) ==
    [FreeRow EXCEPT !.state = "pending", !.multipart = multipart, !.lease = UploadLease]

Deleted(row) == [FreeRow EXCEPT !.state = "gone", !.multipart = row.multipart]

Pending(u) == u # None /\ upload[u].state = "pending"

\* _upload_for_update renews the lease; every call but renew_upload also sets
\* updated_at.
Leased(row) == [row EXCEPT !.lease = UploadLease]
Touched(row) == [Leased(row) EXCEPT !.age = 0]

ChunksOf(row, p) == {x \in DOMAIN row.chunk : x[1] = p}
WithoutPart(row, p) == Restrict(row.part, DOMAIN row.part \ {p})

\* Mutant: a new try keeps the chunks of the one before.
BeginPartKeepsChunks(row, p) == [Touched(row) EXCEPT !.part = WithoutPart(row, p)]

\* begin_part and abort_part: the part and its chunks are deleted.
BeginPart(row, p) ==
    [Touched(row) EXCEPT
        !.part = WithoutPart(row, p),
        !.chunk = Restrict(row.chunk, DOMAIN row.chunk \ ChunksOf(row, p))]

\* put_chunk and _worker_put_chunk: ON CONFLICT replaces the chunk, and a part
\* that gets a chunk is no longer complete.
PutChunk(row, p, seq, data) ==
    [Touched(row) EXCEPT
        !.chunk = [x \in DOMAIN row.chunk \cup {<<p, seq>>} |->
                      IF x = <<p, seq>> THEN data ELSE row.chunk[x]],
        !.part = WithoutPart(row, p)]

\* The chunks of a part in sequence order; dense from zero or not at all.
Dense(row, p) ==
    LET n == Cardinality(ChunksOf(row, p))
    IN n > 0 /\ \A i \in 0 .. n - 1 : <<p, i>> \in DOMAIN row.chunk

Staged(row, p) ==
    [i \in 1 .. Cardinality(ChunksOf(row, p)) |-> row.chunk[<<p, i - 1>>]]

\* complete_part: the staged chunks become the part.
CompletePartRow(row, p) ==
    [BeginPart(row, p) EXCEPT
        !.part = [q \in DOMAIN row.part \cup {p} |->
                     IF q = p THEN FlattenSeq(Staged(row, p)) ELSE row.part[q]]]

-----------------------------------------------------------------------------
Init ==
    /\ session = [r \in Request |-> NewSession]
    /\ upload = [u \in Upload |-> FreeRow]
    /\ lastTry = <<>>
    /\ object = {}

\* prepare: a short body of known length is kept in memory; any other PutObject
\* begins an upload of its own.
HandlePut(r) ==
    /\ session[r].pc = "new"
    /\ \E n \in BodyLen, f \in BOOLEAN, e \in BOOLEAN :
         LET direct == f /\ ~e /\ n <= DirectBytes    \* e: Expect: 100-continue
             s == [NewSession EXCEPT !.pc = "read", !.len = n, !.fixed = f]
         IN \/ /\ direct
               /\ session' = [session EXCEPT ![r] = [s EXCEPT !.kind = "direct"]]
               /\ UNCHANGED upload
            \/ /\ ~direct
               /\ \E u \in Upload :
                    /\ upload[u].state = "free"
                    /\ session' = [session EXCEPT ![r] = [s EXCEPT !.upload = u]]
                    /\ upload' = [upload EXCEPT ![u] = NewRow(FALSE)]
    /\ UNCHANGED <<lastTry, object>>

\* prepare for UploadPart: begin_part, in a pending multipart upload.
HandlePart(r) ==
    /\ session[r].pc = "new"
    /\ \E n \in BodyLen, f \in BOOLEAN, c \in BOOLEAN, u \in Upload, p \in PartNo :
         /\ Pending(u) /\ upload[u].multipart
         /\ Overlap \/ \A q \in Request :
                session[q].upload = u /\ session[q].part = p =>
                    session[q].pc \in {"ok", "error", "crashed"}
         /\ session' = [session EXCEPT ![r] =
                [NewSession EXCEPT !.pc = "read", !.kind = "part", !.upload = u,
                                   !.part = p, !.len = n, !.fixed = f, !.checksum = c]]
         /\ upload' = [upload EXCEPT ![u] = BeginPart(@, p)]
         /\ lastTry' = [x \in DOMAIN lastTry \cup {<<u, p>>} |->
                           IF x = <<u, p>> THEN r ELSE lastTry[x]]
    /\ UNCHANGED object

\* push_body: k bytes of the entity arrive.
PushBody(r) ==
    LET s == session[r]
    IN /\ s.pc = "read"
       /\ \E k \in 1 .. s.len - s.wire :
            session' = [session EXCEPT ![r] =
                [s EXCEPT !.pc = "stage", !.wire = s.wire + k, !.remaining = k, !.quiet = 0]]
       /\ UNCHANGED <<upload, lastTry, object>>

\* Mutant: the buffer takes whatever arrives.
SliceUnbounded(r) == session[r].remaining

\* append_staged_slice: what of the remaining bytes fits into the buffer.
Slice(r) ==
    LET s == session[r]
        fits == ChunkBytes - Len(s.buffer)
    IN IF s.kind = "direct" \/ s.remaining <= fits THEN s.remaining ELSE fits

\* The session after one put_chunk of accept_decoded.
AfterChunk(s, data) ==
    [s EXCEPT !.sequence = @ + 1, !.beat = 0, !.buffer = <<>>,
              !.manifest = IF s.part = 0 THEN Append(@, data) ELSE @]

\* accept_decoded, one turn of its loop: the buffer is filled, and a full one
\* is stored in a transaction of its own, except the exact last chunk of a
\* PutObject of known length, which finish_body stores.
AcceptDecoded(r) ==
    LET s == session[r]
        n == Slice(r)
        first == s.wire - s.remaining + 1
        data == s.buffer \o Bytes(r, first, first + n - 1)
        left == s.remaining - n
        last == s.part = 0 /\ s.fixed /\ s.wire = s.len /\ left = 0
        store == s.kind # "direct" /\ Len(data) = ChunkBytes /\ ~last
        next == [s EXCEPT !.remaining = left, !.pc = IF left = 0 THEN "renew" ELSE "stage"]
    IN /\ s.pc = "stage"
       /\ \/ /\ ~store
             /\ session' = [session EXCEPT ![r] = [next EXCEPT !.buffer = data]]
             /\ UNCHANGED upload
          \/ /\ store /\ Pending(s.upload)
             /\ session' = [session EXCEPT ![r] = AfterChunk(next, data)]
             /\ upload' = [upload EXCEPT ![s.upload] = PutChunk(@, s.part, s.sequence, data)]
       /\ UNCHANGED <<lastTry, object>>

\* Mutant: only stored chunks renew the lease.
RenewDueNever(s) == FALSE

RenewDue(s) == s.kind # "direct" /\ s.beat >= HeartbeatInterval

\* renew_upload_lease_if_due, at the end of push_body.
RenewUploadLeaseIfDue(r) ==
    LET s == session[r]
    IN /\ s.pc = "renew"
       /\ \/ /\ ~RenewDue(s)
             /\ session' = [session EXCEPT ![r].pc = "read"]
             /\ UNCHANGED upload
          \/ /\ RenewDue(s) /\ Pending(s.upload)
             /\ session' = [session EXCEPT ![r].pc = "read", ![r].beat = 0]
             /\ upload' = [upload EXCEPT ![s.upload] = Leased(@)]
       /\ UNCHANGED <<lastTry, object>>

\* The whole entity has arrived.
BodyComplete(s) == s.pc = "read" /\ s.wire = s.len

\* The final chunk of finish_body: the buffer, or an empty body's empty chunk.
FinalChunk(s) == s.buffer # <<>> \/ s.sequence = 0

\* Mutant: the manifest is compared by its number of chunks only.
SealedComparesCount(s, row, manifest) ==
    /\ row.state = "pending" /\ Dense(row, 0)
    /\ Len(manifest) = Cardinality(ChunksOf(row, 0))

\* _worker_complete_upload: the locked chunks are exactly the ones the worker
\* has seen.
Sealed(s, row, manifest) ==
    row.state = "pending" /\ Dense(row, 0) /\ Staged(row, 0) = manifest

\* finish_body of a PutObject kept in memory: one put.
FinishDirect(r) ==
    LET s == session[r]
    IN /\ BodyComplete(s) /\ s.kind = "direct"
       /\ object' = object \cup {[sent |-> <<r>>, body |-> s.buffer]}
       /\ session' = [session EXCEPT ![r] = Ended(s, "ok", s.buffer)]
       /\ UNCHANGED <<upload, lastTry>>

\* finish_body of a staged PutObject: the final chunk and the publication of
\* the sealed manifest are one transaction.
FinishPut(r) ==
    LET s == session[r]
        row == IF FinalChunk(s) THEN PutChunk(upload[s.upload], 0, s.sequence, s.buffer)
               ELSE upload[s.upload]
        manifest == IF FinalChunk(s) THEN Append(s.manifest, s.buffer) ELSE s.manifest
        body == FlattenSeq(Staged(row, 0))
    IN /\ BodyComplete(s) /\ s.kind = "put"
       /\ Sealed(s, row, manifest)
       /\ object' = object \cup {[sent |-> <<r>>, body |-> body]}
       /\ session' = [session EXCEPT ![r] = Ended(s, "ok", body)]
       /\ upload' = [upload EXCEPT ![s.upload] = Deleted(row)]
       /\ UNCHANGED lastTry

\* finish_body of an UploadPart, first half: the final chunk in its own
\* transaction.
FinishPart(r) ==
    LET s == session[r]
    IN /\ BodyComplete(s) /\ s.kind = "part"
       /\ \/ /\ FinalChunk(s) /\ Pending(s.upload)
             /\ session' = [session EXCEPT ![r] =
                    [s EXCEPT !.pc = "complete_part", !.buffer = <<>>, !.sequence = @ + 1]]
             /\ upload' = [upload EXCEPT ![s.upload] =
                    PutChunk(@, s.part, s.sequence, s.buffer)]
          \/ /\ ~FinalChunk(s)
             /\ session' = [session EXCEPT ![r].pc = "complete_part"]
             /\ UNCHANGED upload
       /\ UNCHANGED <<lastTry, object>>

\* finish_body of an UploadPart, second half: complete_part hashes what is
\* staged, checks it against x-amz-checksum-sha256 if the request had one, and
\* the ETag it returns is the answer.
CompletePart(r) ==
    LET s == session[r]
        body == FlattenSeq(Staged(upload[s.upload], s.part))
    IN /\ s.pc = "complete_part"
       /\ Pending(s.upload) /\ Dense(upload[s.upload], s.part)
       /\ s.checksum => body = BodyOf(r)
       /\ session' = [session EXCEPT ![r] = Ended(s, "ok", body)]
       /\ upload' = [upload EXCEPT ![s.upload] = CompletePartRow(@, s.part)]
       /\ UNCHANGED <<lastTry, object>>

\* A call of the session raises (a gone upload, a wrong digest, a condition, a
\* timeout of the statement, a failed commit): fail_session goes on to cleanup.
SessionFails(r) ==
    /\ session[r].pc \in {"stage", "renew", "complete_part"} \/ BodyComplete(session[r])
    /\ session' = [session EXCEPT ![r].pc = "cleanup"]
    /\ UNCHANGED <<upload, lastTry, object>>

\* abort_body: the client closes, fails or is silent too long before the entity
\* is complete, or the worker is stopped.
AbortBody(r) ==
    LET s == session[r]
    IN /\ s.pc = "read" /\ ~(s.fixed /\ s.wire = s.len)
       /\ session' = [session EXCEPT ![r].pc = "cleanup"]
       /\ UNCHANGED <<upload, lastTry, object>>

\* cleanup: abort_upload or abort_part; its own failure is ignored.
Cleanup(r) ==
    LET s == session[r]
        u == s.upload
    IN /\ s.pc = "cleanup"
       /\ session' = [session EXCEPT ![r] = Ended(s, "error", <<>>)]
       /\ \/ UNCHANGED upload
          \/ /\ Pending(u)
             /\ upload' = [upload EXCEPT ![u] =
                    IF s.part = 0 THEN Deleted(@) ELSE BeginPart(@, s.part)]
       /\ UNCHANGED <<lastTry, object>>

\* The worker process dies: its sessions are gone and nothing is cleaned up.
WorkerDies(r) ==
    /\ Active(session[r]) \/ session[r].pc = "cleanup"
    /\ session' = [session EXCEPT ![r] = Ended(session[r], "crashed", <<>>)]
    /\ UNCHANGED <<upload, lastTry, object>>

-----------------------------------------------------------------------------
(* Requests without a body session, the collector and time.                *)

CreateMultipartUpload(u) ==
    /\ upload[u].state = "free"
    /\ upload' = [upload EXCEPT ![u] = NewRow(TRUE)]
    /\ UNCHANGED <<session, lastTry, object>>

\* The public put_chunk, called by a SQL session of the same tenant with the
\* upload id of a PutObject in progress.
SqlPutChunk(u) ==
    /\ Pending(u) /\ ~upload[u].multipart
    /\ \E n \in SqlSequence :
         upload' = [upload EXCEPT ![u] = PutChunk(@, 0, n, <<<<None, 1>>>>)]
    /\ UNCHANGED <<session, lastTry, object>>

\* A listed part is there with the ETag that its request was answered with.
EtagMatches(row, r) ==
    session[r].part \in DOMAIN row.part /\ row.part[session[r].part] = session[r].etag

\* complete_multipart_upload: the client lists answered parts in ascending
\* order with the ETags it got.
CompleteMultipartUpload(u) ==
    LET row == upload[u]
    IN /\ Pending(u) /\ row.multipart
       /\ \E list \in UNION {[1 .. n -> Request] : n \in 1 .. Cardinality(PartNo)} :
            /\ \A i \in DOMAIN list :
                 /\ session[list[i]].pc = "ok" /\ session[list[i]].upload = u
                 /\ EtagMatches(row, list[i])
                 /\ i > 1 => session[list[i - 1]].part < session[list[i]].part
            /\ object' = object \cup
                 {[sent |-> list,
                   body |-> FlattenSeq([i \in DOMAIN list |-> row.part[session[list[i]].part]])]}
       /\ upload' = [upload EXCEPT ![u] = Deleted(@)]
       /\ UNCHANGED <<session, lastTry>>

AbortMultipartUpload(u) ==
    /\ Pending(u) /\ upload[u].multipart
    /\ upload' = [upload EXCEPT ![u] = Deleted(@)]
    /\ UNCHANGED <<session, lastTry, object>>

\* Mutant: multipart uploads are left alone.
GcSparesMultipart(u) ==
    /\ Pending(u) /\ ~upload[u].multipart /\ upload[u].age > MaxAge /\ upload[u].lease = 0
    /\ upload' = [upload EXCEPT ![u] = Deleted(@)]
    /\ UNCHANGED <<session, lastTry, object>>

\* gc_pending_uploads: old by updated_at and without a lease.
GcPendingUploads(u) ==
    /\ Pending(u) /\ upload[u].age > MaxAge /\ upload[u].lease = 0
    /\ upload' = [upload EXCEPT ![u] = Deleted(@)]
    /\ UNCHANGED <<session, lastTry, object>>

\* Time passes.  A worker comes back to each of its sessions within Slack, and
\* then times out a body that has been quiet for BodyIdle.
Tick ==
    /\ \A r \in Request : Active(session[r]) => session[r].quiet < BodyIdle + Slack
    /\ session' = [r \in Request |->
           IF Active(session[r])
           THEN [session[r] EXCEPT !.beat = @ + 1, !.quiet = @ + 1]
           ELSE session[r]]
    /\ upload' = [u \in Upload |->
           IF Pending(u)
           THEN [upload[u] EXCEPT !.age = IF @ > MaxAge THEN @ ELSE @ + 1,
                                  !.lease = IF @ = 0 THEN 0 ELSE @ - 1]
           ELSE upload[u]]
    /\ UNCHANGED <<lastTry, object>>

SessionStep(r) ==
    \/ AcceptDecoded(r) \/ RenewUploadLeaseIfDue(r)
    \/ FinishDirect(r) \/ FinishPut(r) \/ FinishPart(r) \/ CompletePart(r)
    \/ SessionFails(r) \/ AbortBody(r) \/ Cleanup(r)

Next ==
    \/ \E r \in Request :
         HandlePut(r) \/ HandlePart(r) \/ PushBody(r) \/ SessionStep(r) \/ WorkerDies(r)
    \/ \E u \in Upload :
         \/ CreateMultipartUpload(u) \/ SqlPutChunk(u) \/ CompleteMultipartUpload(u)
         \/ AbortMultipartUpload(u) \/ GcPendingUploads(u)
    \/ Tick

Spec == Init /\ [][Next]_vars

\* Workers go on with the sessions they hold (a body that never completes is
\* aborted by the idle timeout), time passes and the GC worker runs.
LiveSpec ==
    /\ Spec
    /\ \A r \in Request : WF_vars(SessionStep(r))
    /\ \A u \in Upload : WF_vars(GcPendingUploads(u))
    /\ WF_vars(Tick)

-----------------------------------------------------------------------------
Bodies == Seq((Request \cup {None}) \X Nat)

\* The types of the sessions and of the upload rows.
TypeOK ==
    /\ \A r \in Request :
         /\ session[r].pc \in {"new", "read", "stage", "renew", "complete_part",
                               "cleanup", "ok", "error", "crashed"}
         /\ session[r].kind \in Kinds /\ session[r].upload \in Upload \cup {None}
         /\ session[r].part \in PartNo \cup {0}
         /\ session[r].remaining \in 0 .. session[r].wire
         /\ session[r].wire \in 0 .. session[r].len
         /\ session[r].buffer \in Bodies
         /\ Len(session[r].buffer) <=
                IF session[r].kind = "direct" THEN DirectBytes ELSE ChunkBytes
         /\ session[r].beat \in Nat /\ session[r].quiet \in 0 .. BodyIdle + Slack
    /\ \A u \in Upload :
         /\ upload[u].state \in {"free", "pending", "gone"}
         /\ upload[u].age \in 0 .. MaxAge + 1 /\ upload[u].lease \in 0 .. UploadLease
    /\ DOMAIN lastTry \subseteq Upload \X PartNo

\* Every published object is, byte for byte, what its requests sent: the body
\* of one PutObject, or the bodies of the UploadPart requests whose ETags
\* CompleteMultipartUpload listed, whatever was retried, aborted or collected
\* in between.
ObjectIsWhatWasSent ==
    \A o \in object : o.body = FlattenSeq([i \in DOMAIN o.sent |-> BodyOf(o.sent[i])])

\* A part whose UploadPart was answered with success stays complete, with the
\* bytes of that request, until its upload ends or another try of it begins.
AnsweredPartKept ==
    \A x \in DOMAIN lastTry :
        LET r == lastTry[x]
        IN Pending(x[1]) /\ session[r].pc = "ok" =>
               /\ x[2] \in DOMAIN upload[x[1]].part
               /\ upload[x[1]].part[x[2]] = BodyOf(r)

\* The upload of a session that a worker still holds has an unexpired lease, so
\* gc_pending_uploads never takes it away, however slowly the body arrives.
LeaseHeld ==
    \A r \in Request :
        Active(session[r]) /\ Pending(session[r].upload) =>
            upload[session[r].upload].lease > 0

\* Every upload is completed, aborted or collected in the end, unless a SQL
\* session keeps writing to it for ever: no worker that died and no cleanup that
\* failed leaves one behind.
UploadsReclaimed ==
    \A u \in Upload :
        []<><<SqlPutChunk(u)>>_vars \/ (Pending(u) ~> ~Pending(u))
=============================================================================
