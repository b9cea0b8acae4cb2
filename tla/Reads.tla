------------------------------- MODULE Reads -------------------------------
(***************************************************************************)
(* The read side of the S3 service of one worker, and the two writes that  *)
(* begin with a read: GET, HEAD, the listings, ListParts, CopyObject with  *)
(* preconditions on its source, and CompleteMultipartUpload.               *)
(*                                                                         *)
(* A request is a sequence of database calls.  Each call is a transaction  *)
(* of its own (with_request_context in db.rs), and between two of them     *)
(* other workers and SQL clients write: a HEAD that decides preconditions  *)
(* and ranges is followed by the read of the body, the source of a copy is *)
(* examined before it is copied, the parts of an upload are validated      *)
(* before they are completed, and a listing is read page by page.  Any     *)
(* statement may also raise an error, and the worker's one session must be *)
(* clean for the next request.                                             *)
(*                                                                         *)
(* One bucket, one multipart upload.  The content of an object stands for  *)
(* its ETag and its SHA-256; creation times have a precision of a second,  *)
(* which two consecutive versions may share.                               *)
(***************************************************************************)
EXTENDS Listing

CONSTANTS
    Scripts,    \* what may be stored at first, and the requests to answer
    MaxWrites   \* bound: writes of other clients

\* Headers that are absent or single, and well formed: preconditions, byte
\* ranges and If-Range.
Single(S) == \A a, b \in S : a = b

IsCondition(c) ==
    /\ Single(c.match) /\ Single(c.none)
    /\ c.modified \subseteq Nat /\ c.unmodified \subseteq Nat

IsRange(s) == Single(s.first) /\ Single(s.last) /\ s.first \cup s.last \subseteq Nat

\* A request as the router hands it over, with the verdict on its signature.
IsRequest(r) ==
    /\ {"op", "role", "auth"} \subseteq DOMAIN r
    /\ r.auth \in {"good", "both", "neither", "unknown", "forged", "session"}
    /\ r.op \in {"GetObject", "HeadObject", "CopyObject"} =>
         Single(r.version) /\ IsCondition(r.cond)
    /\ r.op \in {"GetObject", "HeadObject"} =>
         Single(r.range) /\ \A s \in r.range : IsRange(s)
    /\ r.op = "CompleteMultipartUpload" => [i \in DOMAIN r.parts |-> r.parts[i].etag] \in Seq(Seq(Nat))

Requests == UNION {Range(s.requests) : s \in Scripts}

IsVersion(o) ==
    /\ o = [key |-> o.key, id |-> o.id, body |-> o.body, marker |-> o.marker]
    /\ o.id \in Nat /\ o.body \in Seq(Nat) /\ o.marker \in BOOLEAN

IsUpload(u) ==
    /\ u = [live |-> u.live, algorithm |-> u.algorithm, key |-> u.key, parts |-> u.parts]
    /\ \A p \in u.parts : p = [n |-> p.n, body |-> p.body]

ASSUME ReadsAssumption ==
    /\ MaxWrites \in Nat
    /\ \A r \in Requests : IsRequest(r)
    /\ \A s \in Scripts :
         /\ IsFiniteSet(s.store)
         /\ \A o \in s.store : IsVersion(o) /\ o.id <= Cardinality(s.store)
         /\ \A o, p \in s.store : o.id = p.id => o = p
         /\ IsUpload(s.upload)
         /\ \A w \in s.shared : w.body \in Seq(Nat)
         /\ s.requests \in Seq(Requests) /\ s.requests # <<>>

VARIABLES
    store,      \* the object versions of the bucket
    nextId,     \* pgs3.object.version_id, the next of its sequence
    upload,     \* the multipart upload: [live, algorithm, key, parts]
    recovery,   \* the server is a standby
    shared,     \* what other clients may write: [key, body]
    writes,     \* writes made by other clients
    todo,       \* the requests still to come
    job,        \* the request in hand and what its handler holds
    session,    \* the worker's session: [open, timer, role]
    past        \* history: the stores and uploads since the request began

vars == <<store, nextId, upload, recovery, shared, writes, todo, job, session, past>>

server == "server"  \* the role the worker's session belongs to

Roles == {server} \cup {r.role : r \in Requests}

\* Created_at, as HTTP dates show it.
Second(o) == o.id \div 2

NoAnswer == [status |-> 0]

Idle == [open |-> FALSE, timer |-> FALSE, role |-> server]

Begun(r, rows) == [at |-> "head", call |-> "none", req |-> r, info |-> {}, parts |-> {},
                   rows |-> rows, reply |-> <<>>, error |-> "none", answer |-> NoAnswer]

Init ==
    \E s \in Scripts :
       /\ store = s.store
       /\ nextId = Cardinality(s.store) + 1
       /\ upload = s.upload
       /\ recovery = s.recovery
       /\ shared = s.shared
       /\ todo = s.requests
       /\ writes = 0
       /\ job = [Begun(Head(s.requests), <<>>) EXCEPT !.at = "answered"]
       /\ session = Idle
       /\ past = {[store |-> s.store, upload |-> s.upload]}

----------------------------------------------------------------------------
(* Preconditions and ranges (headers.rs).  If-Match and If-None-Match are  *)
(* absent or [any, tags], a tag is [weak, opaque]; dates are seconds.      *)

strong_eq(tag, o) == ~tag.weak /\ tag.opaque = o.body

weak_eq(tag, o) == tag.opaque = o.body

evaluate(c, o, isGetOrHead) ==
    LET matched == \E m \in c.match : m.any \/ \E t \in m.tags : strong_eq(t, o)
        found   == \E m \in c.none : m.any \/ \E t \in m.tags : weak_eq(t, o)
    IN  CASE c.match # {} /\ ~matched -> "PreconditionFailed"
          [] c.match = {} /\ \E s \in c.unmodified : Second(o) > s -> "PreconditionFailed"
          [] OTHER ->
               CASE c.none # {} /\ found ->
                      IF isGetOrHead THEN "NotModified" ELSE "PreconditionFailed"
                 [] c.none = {} /\ isGetOrHead /\ \E s \in c.modified : Second(o) <= s ->
                      "NotModified"
                 [] OTHER -> "Proceed"

\* bytes=first-last: either may be missing, and first without last is a
\* suffix.  The first and the last byte selected, or nothing (416).
resolve(r, size) ==
    CASE r.first = {} ->
           {[start |-> Max({0, size - n}), end |-> size - 1] :
              n \in {k \in r.last : k > 0 /\ size > 0}}
      [] r.first # {} /\ r.last = {} ->
           {[start |-> n, end |-> size - 1] : n \in {f \in r.first : f < size}}
      [] OTHER ->
           {[start |-> p[1], end |-> Min({p[2], size - 1})] :
              p \in {b \in r.first \X r.last : b[1] <= b[2] /\ b[1] < size}}

permits_range(i, o) ==
    /\ \A t \in i.tag : strong_eq(t, o)
    /\ \A s \in i.date : Second(o) <= s

----------------------------------------------------------------------------
(* Requests.                                                               *)

NoCondition == [match |-> {}, none |-> {}, modified |-> {}, unmodified |-> {}]

unconditional_get_fast_path(r) ==
    /\ r.op = "GetObject"
    /\ r.cond = NoCondition
    /\ r.range = {} /\ r.ifRange = {} /\ ~r.checksumMode

has_copy_source_conditions(r) == r.cond # NoCondition

validate_copy_destination(r) == r.key # r.to \/ r.replace

\* The list of parts of a completion: not empty, in ascending order.
parse_complete_multipart(r) ==
    /\ r.parts # <<>>
    /\ \A i \in 2 .. Len(r.parts) : r.parts[i - 1].n < r.parts[i].n

IsListing(r) == r.op \in {"ListObjectsV1", "ListObjectsV2", "ListObjectVersions", "ListParts"}

\* The first database call of an operation, once the request is authorized.
dispatch(r) ==
    CASE r.op \in {"GetObject", "HeadObject"} ->
           IF unconditional_get_fast_path(r) THEN "get_object" ELSE "head_object"
      [] r.op = "CopyObject" ->
           IF has_copy_source_conditions(r) THEN "head_object" ELSE "copy_object"
      [] r.op = "CompleteMultipartUpload" -> "multipart_checksum_algorithm"
      [] r.op = "ListParts" -> "list_parts"
      [] r.op = "ListObjectVersions" -> "list_versions"
      [] OTHER -> "list_objects"

\* Calls made with `writable`: a standby refuses them at once.
writable(call) == call \in {"copy_object", "multipart_checksum_algorithm",
                            "list_parts", "complete_multipart"}

----------------------------------------------------------------------------
(* What the handler does with an outcome.                                  *)

Status(code) ==
    CASE code \in {"AccessDenied", "InvalidAccessKeyId", "SignatureDoesNotMatch",
                   "InvalidToken"} -> 403
      [] code \in {"NoSuchKey", "NoSuchVersion", "NoSuchUpload"} -> 404
      [] code = "PreconditionFailed" -> 412
      [] code = "InvalidRange" -> 416
      [] code = "InternalError" -> 500
      [] code = "NotImplemented" -> 501
      [] code \in {"ServiceUnavailable", "SlowDown"} -> 503
      [] OTHER -> 400

Answer(a) == job' = [job EXCEPT !.at = "answered", !.call = "none", !.answer = a]

Fail(code) == Answer([status |-> Status(code), code |-> code, marker |-> {}])

Call(call) == job' = [job EXCEPT !.at = "open", !.call = call]

\* The headers of an answer describe one version; the stored checksum is of
\* the whole object and goes with a 200 only.
object_headers(status, o, body, range) ==
    [status |-> status, version |-> o.id, etag |-> o.body, range |-> range,
     body |-> body,
     checksum |-> IF job.req.checksumMode /\ status = 200 THEN {o.body} ELSE {}]

MorePages == IsListing(job.req) /\ job.answer.status = 200 /\ job.answer.truncated

\* Anything but a listing's follow-up page starts a new history.
handle_head ==
    /\ job.at = "answered"
    /\ todo # <<>>
    /\ ~MorePages
    /\ todo' = Tail(todo)
    /\ job' = Begun(Head(todo), <<>>)
    /\ past' = {[store |-> store, upload |-> upload]}
    /\ UNCHANGED <<store, nextId, upload, recovery, shared, writes, session>>

\* The cursor a page ends with: V1 shows a name to go on after, V2 a token,
\* which supersedes start-after, versions a key and a version, parts a number.
list_objects_v1(r, last) == [r EXCEPT !.startAfter = {last.name}]

list_objects_v2(r, last) == [r EXCEPT !.startAfter = {}, !.token = last.next]

versions_after(r, last) ==
    [r EXCEPT !.startAfter = {p.seek : p \in last.next},
              !.versionMarker = UNION {p.version : p \in last.next}]

parts_after(r, last) == [r EXCEPT !.marker = last]

\* A truncated page: the client asks for the next one, with its cursor.
next_page ==
    /\ job.at = "answered"
    /\ MorePages
    /\ LET r    == job.req
           last == job.answer.next
       IN  job' = Begun(CASE r.op = "ListObjectsV1" -> list_objects_v1(r, last)
                          [] r.op = "ListObjectsV2" -> list_objects_v2(r, last)
                          [] r.op = "ListParts" -> parts_after(r, last)
                          [] OTHER -> versions_after(r, last),
                        job.rows)
    /\ UNCHANGED <<store, nextId, upload, recovery, shared, writes, todo, session, past>>

Handler == UNCHANGED <<store, nextId, upload, recovery, shared, writes, todo, session, past>>

\* Header and query authentication exclude each other, and one is needed.
authorize_shape ==
    /\ job.at = "head"
    /\ CASE job.req.auth = "both" -> Fail("InvalidRequest")
         [] job.req.auth = "neither" -> Fail("AccessDenied")
         [] OTHER -> Call("lookup_credential")
    /\ Handler

\* The call is back, with a result or an error.
Returned(call) == job.at = "back" /\ job.call = call /\ job.error = "none"

authorize ==
    /\ Returned("lookup_credential")
    /\ LET r == job.req
           denied ==
             CASE r.auth = "unknown" -> {"InvalidAccessKeyId"}
               [] r.auth = "forged" -> {"SignatureDoesNotMatch"}
               [] r.auth = "session" -> {"InvalidToken"}
               [] OTHER -> {}
           malformed ==
             CASE r.op = "CopyObject" /\ ~validate_copy_destination(r) -> {"InvalidRequest"}
               [] r.op = "CompleteMultipartUpload" /\ ~parse_complete_multipart(r) ->
                    {"MalformedXML"}
               [] OTHER -> {}
       IN  CASE denied # {} -> \E code \in denied : Fail(code)
             [] denied = {} /\ malformed # {} -> \E code \in malformed : Fail(code)
             [] OTHER -> Call(dispatch(r))
    /\ Handler

\* An error of a call is the answer, but a HEAD of the latest version asks
\* whether a delete marker hides the key.
should_probe_current_delete_marker(r, code) ==
    r.op = "HeadObject" /\ r.version = {} /\ code = "NoSuchKey"

call_failed ==
    /\ job.at = "back" /\ job.error # "none"
    /\ IF job.call = "head_object" /\ should_probe_current_delete_marker(job.req, job.error)
       THEN job' = [job EXCEPT !.at = "open", !.call = "current_delete_marker", !.error = "none"]
       ELSE Fail(job.error)
    /\ Handler

delete_marker_head_response ==
    /\ Returned("current_delete_marker")
    /\ Answer([status |-> 404, code |-> "NoSuchKey", marker |-> {o.id : o \in job.info}])
    /\ Handler

\* The range that a version is read with, after If-Range: an unsatisfiable
\* range has been refused before.
Chosen(r, o) ==
    {x \in UNION {resolve(s, Len(o.body)) : s \in r.range} :
       \A i \in r.ifRange : permits_range(i, o)}

get_or_head ==
    /\ Returned("head_object") /\ job.req.op # "CopyObject"
    /\ LET r       == job.req
           o       == CHOOSE v \in job.info : TRUE
           verdict == evaluate(r.cond, o, TRUE)
           refused == \E s \in r.range : resolve(s, Len(o.body)) = {}
       IN  CASE verdict = "NotModified" -> Answer(object_headers(304, o, <<>>, {}))
             [] verdict = "PreconditionFailed" -> Fail("PreconditionFailed")
             [] verdict = "Proceed" /\ refused -> Fail("InvalidRange")
             [] OTHER ->
                  CASE Chosen(r, o) # {} /\ r.op = "HeadObject" ->
                         Answer(object_headers(206, o, <<>>, Chosen(r, o)))
                    [] Chosen(r, o) # {} /\ r.op = "GetObject" -> Call("get_range")
                    [] Chosen(r, o) = {} /\ r.op = "HeadObject" ->
                         Answer(object_headers(200, o, <<>>, {}))
                    [] OTHER -> Call("get_object")
    /\ Handler

object_read ==
    /\ Returned("get_object") \/ Returned("get_range")
    /\ LET o == CHOOSE v \in job.info : TRUE
       IN  IF job.call = "get_object"
           THEN Answer(object_headers(200, o, job.reply, {}))
           ELSE Answer(object_headers(206, o, job.reply, Chosen(job.req, o)))
    /\ Handler

evaluate_copy_source_conditions ==
    /\ Returned("head_object") /\ job.req.op = "CopyObject"
    /\ IF \A o \in job.info : evaluate(job.req.cond, o, FALSE) = "Proceed"
       THEN Call("copy_object")
       ELSE Fail("PreconditionFailed")
    /\ Handler

\* The digests of the parts named, of which the composite is made: none
\* where a part is missing.
Digests(r, stored) ==
    [i \in DOMAIN r.parts |-> {p.body : p \in {q \in stored : q.n = r.parts[i].n}}]

\* Variant: the composite is not compared.
validate_multipart_sha256_completion_parts(r, stored) ==
    LET digests == Digests(r, stored) IN
    CASE \E i \in DOMAIN r.parts : digests[i] = {} -> "InvalidPart"
      [] /\ \A i \in DOMAIN r.parts : digests[i] # {}
         /\ \E i \in DOMAIN r.parts : r.parts[i].sha # digests[i] -> "BadDigest"
      [] OTHER -> "none"

\* The SHA-256 of every part named, and the composite of them, as supplied
\* and as stored.
validate_multipart_sha256_completion(r, stored) ==
    LET digests == Digests(r, stored) IN
    CASE \E i \in DOMAIN r.parts : digests[i] = {} -> "InvalidPart"
      [] /\ \A i \in DOMAIN r.parts : digests[i] # {}
         /\ (\E i \in DOMAIN r.parts : r.parts[i].sha # digests[i]) \/ r.composite # {digests} ->
           "BadDigest"
      [] OTHER -> "none"

\* The database refuses another algorithm before the handler can.
complete_after_algorithm ==
    /\ Returned("multipart_checksum_algorithm")
    /\ LET r        == job.req
           supplied == r.composite # {} \/ \E i \in DOMAIN r.parts : r.parts[i].sha # {}
       IN  CASE job.reply = <<"SHA256">> -> Call("list_parts")
             [] job.reply = <<"none">> ->
                  IF supplied THEN Fail("BadDigest") ELSE Call("complete_multipart")
             [] OTHER -> Fail("NotImplemented")
    /\ Handler

complete_after_parts ==
    /\ Returned("list_parts") /\ job.req.op = "CompleteMultipartUpload"
    /\ LET code == validate_multipart_sha256_completion(job.req, job.parts)
       IN  IF code = "none" THEN Call("complete_multipart") ELSE Fail(code)
    /\ Handler

\* The composite of the answer is that of the parts validated.
completed ==
    /\ Returned("complete_multipart")
    /\ \E o \in job.info : Answer([status |-> 200, version |-> o.id,
                                  composite |-> Digests(job.req, job.parts)])
    /\ Handler

copied ==
    /\ Returned("copy_object")
    /\ \E o \in job.info : Answer([status |-> 200, version |-> o.id])
    /\ Handler

\* A page is truncated when it is full and its last row leads on.
is_list_truncated(rows, max) == max > 0 /\ Len(rows) = max /\ Last(rows).next # {}

\* A page of rows, and where the next one goes on.
Page(rows, truncated, next) ==
    job' = [job EXCEPT !.at = "answered", !.call = "none", !.rows = @ \o rows,
                       !.answer = [status |-> 200, truncated |-> truncated, next |-> next]]

list_answer ==
    /\ Returned("list_objects") \/ Returned("list_versions")
    /\ LET truncated == is_list_truncated(job.reply, job.req.max)
       IN  Page(job.reply, truncated, IF truncated THEN Last(job.reply) ELSE {})
    /\ Handler

\* All the parts are read and the page is cut out of them.  A page of no
\* parts ends where it began, and is truncated when there are parts left.
list_parts_answer ==
    /\ Returned("list_parts") /\ job.req.op = "ListParts"
    /\ LET eligible == SetToSortSeq({p.n : p \in {q \in job.parts : q.n > job.req.marker}}, <)
           page     == SubSeq(eligible, 1, Min({Len(eligible), job.req.max}))
       IN  Page([i \in DOMAIN page |-> [name |-> <<page[i]>>, version |-> {}, folded |-> FALSE,
                                        next |-> {}]],
                Len(eligible) > job.req.max,
                IF page = <<>> THEN job.req.marker ELSE Last(page))
    /\ Handler

----------------------------------------------------------------------------
(* The transaction of a call (transaction and with_request_context).       *)

\* A standby refuses a writable call without a transaction; otherwise the
\* timer is armed, the transaction begins and the tenant's role is set for
\* it.  The credential is looked up as the server role.
with_request_context ==
    /\ job.at = "open" /\ ~session.open
    /\ IF writable(job.call) /\ recovery
       THEN /\ job' = [job EXCEPT !.at = "back", !.error = "ServiceUnavailable"]
            /\ UNCHANGED session
       ELSE /\ job' = [job EXCEPT !.at = "run"]
            /\ session' = [open |-> TRUE, timer |-> TRUE,
                           role |-> IF job.call = "lookup_credential" THEN session.role
                                    ELSE job.req.role]
    /\ UNCHANGED <<store, nextId, upload, recovery, shared, writes, todo, past>>

\* Variant: the timer stays armed after the commit.
Committed_armed(j) ==
    /\ job' = [j EXCEPT !.at = "back"]
    /\ session' = [Idle EXCEPT !.timer = TRUE]

\* The statement succeeded: commit ends the transaction-local role, and the
\* timer is disarmed.
Committed(j) ==
    /\ job' = [j EXCEPT !.at = "back"]
    /\ session' = Idle

\* The statement raised an error: control is at the error boundary, the
\* transaction still open.
Raise(code) ==
    /\ job' = [job EXCEPT !.at = "abort", !.error = code]
    /\ UNCHANGED session

\* The closure of a call returns an error of its own, a result that it cannot
\* decode: no error is raised in the database, and the transaction commits.
decode_fails ==
    /\ job.at = "back" /\ job.error = "none"
    /\ job' = [job EXCEPT !.error = "InternalError"]
    /\ UNCHANGED <<store, nextId, upload, recovery, shared, writes, todo, session, past>>

\* The statement timer fires; it may do so during any statement.
statement_timeout ==
    /\ job.at \in {"run", "probe"}
    /\ job' = [job EXCEPT !.at = "abort", !.error = "SlowDown"]
    /\ session' = [session EXCEPT !.timer = FALSE]
    /\ UNCHANGED <<store, nextId, upload, recovery, shared, writes, todo, past>>

\* Variant: the transaction is not aborted, and its role stays.
catch_others_keeps_role ==
    /\ job.at = "abort"
    /\ job' = [job EXCEPT !.at = "back"]
    /\ session' = [Idle EXCEPT !.role = session.role]
    /\ UNCHANGED <<store, nextId, upload, recovery, shared, writes, todo, past>>

\* Variant: the timer is disarmed, and the transaction stays open.
catch_others_stays_open ==
    /\ job.at = "abort"
    /\ job' = [job EXCEPT !.at = "back"]
    /\ session' = [session EXCEPT !.timer = FALSE]
    /\ UNCHANGED <<store, nextId, upload, recovery, shared, writes, todo, past>>

catch_others ==
    /\ job.at = "abort"
    /\ job' = [job EXCEPT !.at = "back"]
    /\ session' = Idle
    /\ UNCHANGED <<store, nextId, upload, recovery, shared, writes, todo, past>>

ReadOnly == UNCHANGED <<store, nextId, upload, recovery, shared, writes, todo, past>>

Running(call) == job.at = "run" /\ job.call = call

lookup_credential ==
    /\ Running("lookup_credential")
    /\ Committed(job)
    /\ ReadOnly

\* pgs3.head: the version asked for, or the latest; a delete marker is no
\* object.
head(S, key, version) ==
    {o \in IF version = {} THEN Latest(S, key) ELSE {p \in S : p.key = key /\ p.id \in version} :
       ~o.marker}

Missing(version) == IF version = {} THEN "NoSuchKey" ELSE "NoSuchVersion"

head_object ==
    /\ Running("head_object")
    /\ LET found == head(store, job.req.key, job.req.version)
       IN  IF found = {} THEN Raise(Missing(job.req.version))
           ELSE Committed([job EXCEPT !.info = found])
    /\ ReadOnly

\* list_versions with the key as the prefix and one row: the newest version
\* of the key, if it is the first of its bucket from there on.
current_delete_marker ==
    /\ Running("current_delete_marker")
    /\ LET rows == list_versions(store, [prefix |-> job.req.key, delimiter |-> {}], {}, {}, 1)
       IN  Committed([job EXCEPT !.info =
               {o \in Latest(store, job.req.key) :
                  o.marker /\ rows # <<>> /\ rows[1].version = {o.id}}])
    /\ ReadOnly

\* Variant: the latest version is read again.
Pinned_again == job.req.version

\* The body is read at the version that HEAD saw; the fast path has seen none.
Pinned == IF job.info = {} THEN job.req.version ELSE {o.id : o \in job.info}

get_object ==
    /\ Running("get_object")
    /\ LET found == head(store, job.req.key, Pinned)
       IN  IF found = {} THEN Raise(Missing(Pinned))
           ELSE \E o \in found : Committed([job EXCEPT !.info = {o}, !.reply = o.body])
    /\ ReadOnly

\* The headers stay those of HEAD.
get_range ==
    /\ Running("get_range")
    /\ LET found == head(store, job.req.key, Pinned)
           range == CHOOSE x \in Chosen(job.req, CHOOSE v \in job.info : TRUE) : TRUE
       IN  IF found = {} THEN Raise(Missing(Pinned))
           ELSE \E o \in found :
                  IF range.start >= Len(o.body)
                  THEN Raise("InvalidRange")
                  ELSE Committed([job EXCEPT !.reply =
                         SubSeq(o.body, range.start + 1, Min({range.end + 1, Len(o.body)}))])
    /\ ReadOnly

----------------------------------------------------------------------------
(* Statements that write, and the listings.                                *)

Record(S, u) == past' = past \union {[store |-> S, upload |-> u]}

\* A new version becomes the latest of its key.
Insert(key, body, marker) ==
    /\ store' = store \union {[key |-> key, id |-> nextId, body |-> body, marker |-> marker]}
    /\ nextId' = nextId + 1

\* Variant: as the headers say, whatever HEAD has found.
copy_source_unpinned ==
    [version |-> job.req.version, etag |-> UNION {{t.opaque : t \in m.tags} : m \in job.req.cond.match}]

\* What copy_object is told of its source: with conditions, the version that
\* was examined and its ETag.
copy_source == [version |-> Pinned, etag |-> {o.body : o \in job.info}]

copy_object ==
    /\ Running("copy_object")
    /\ LET found == head(store, job.req.key, copy_source.version)
           o     == CHOOSE v \in found : TRUE
       IN  CASE found = {} -> Raise(Missing(copy_source.version)) /\ ReadOnly
             [] found # {} /\ \E e \in copy_source.etag : e # o.body ->
                  Raise("PreconditionFailed") /\ ReadOnly
             [] OTHER ->
                  /\ Insert(job.req.to, o.body, FALSE)
                  /\ Committed([job EXCEPT !.info = Latest(store', job.req.to)])
                  /\ Record(store', upload)
                  /\ UNCHANGED <<upload, recovery, shared, writes, todo>>

\* The checksum algorithm in the upload's metadata, when there is one.
Supported == upload.algorithm \in {"none", "SHA256"}

multipart_checksum_algorithm ==
    /\ Running("multipart_checksum_algorithm")
    /\ CASE ~upload.live -> Raise("NoSuchUpload")
         [] upload.live /\ ~Supported -> Raise("InvalidArgument")
         [] OTHER -> Committed([job EXCEPT !.reply = <<upload.algorithm>>])
    /\ ReadOnly

list_parts ==
    /\ Running("list_parts")
    /\ IF ~upload.live THEN Raise("NoSuchUpload")
       ELSE Committed([job EXCEPT !.parts = upload.parts])
    /\ ReadOnly

\* The parts named, in ascending order, are there with the ETags named and,
\* for an upload with checksums, with the SHA-256s and the composite that the
\* service validated.
complete_multipart ==
    /\ Running("complete_multipart")
    /\ LET named  == job.req.parts
           stored == Digests(job.req, upload.parts)
           code   ==
             CASE ~upload.live -> "NoSuchUpload"
               [] upload.live /\ ~Supported -> "InvalidArgument"
               [] upload.live /\ Supported /\ named = <<>> -> "InvalidPart"
               [] /\ upload.live /\ Supported
                  /\ \E i \in 2 .. Len(named) : named[i - 1].n >= named[i].n -> "InvalidPartOrder"
               [] OTHER ->
                    CASE \E i \in DOMAIN named : stored[i] # {named[i].etag} -> "InvalidPart"
                      [] /\ upload.algorithm = "SHA256"
                         /\ \A i \in DOMAIN named : stored[i] = {named[i].etag}
                         /\ \/ \E i \in DOMAIN named : stored[i] # named[i].sha
                            \/ stored # Digests(job.req, job.parts) -> "BadDigest"
                      [] OTHER -> "none"
       IN  IF code # "none"
           THEN Raise(code) /\ ReadOnly
           ELSE /\ Insert(upload.key, FlattenSeq([i \in DOMAIN named |-> named[i].etag]), FALSE)
                /\ upload' = [upload EXCEPT !.live = FALSE, !.parts = {}]
                /\ Committed([job EXCEPT !.info = Latest(store', upload.key)])
                /\ Record(store', upload')
                /\ UNCHANGED <<recovery, shared, writes, todo>>

\* A full page whose last row leads on is followed, in its transaction, by a
\* probe for one row more.
ListStatement(rows) ==
    IF job.req.max > 0 /\ Len(rows) = job.req.max /\ Last(rows).next # {}
    THEN /\ job' = [job EXCEPT !.at = "probe", !.reply = rows]
         /\ UNCHANGED session
    ELSE Committed([job EXCEPT !.reply = rows])

list_objects ==
    /\ Running("list_objects")
    /\ ListStatement(list(store, job.req.q, job.req.startAfter, job.req.token, job.req.max))
    /\ ReadOnly

list_versions_call ==
    /\ Running("list_versions")
    /\ ListStatement(list_versions(store, job.req.q, job.req.startAfter,
                                   job.req.versionMarker, job.req.max))
    /\ ReadOnly

\* Nothing more: the page is the last one.
probe ==
    /\ job.at = "probe"
    /\ LET next == Last(job.reply).next
           more == IF job.call = "list_objects"
                   THEN list(store, job.req.q, {}, next, 1)
                   ELSE list_versions(store, job.req.q, {p.seek : p \in next},
                                      UNION {p.version : p \in next}, 1)
       IN  Committed(IF more = <<>>
                     THEN [job EXCEPT !.reply[Len(job.reply)].next = {}]
                     ELSE job)
    /\ ReadOnly

----------------------------------------------------------------------------
(* Other workers and SQL clients.                                          *)

OtherWrite ==
    /\ writes < MaxWrites
    /\ writes' = writes + 1
    /\ Record(store', upload')
    /\ UNCHANGED <<recovery, shared, todo, job, session>>

put(key, body) ==
    /\ Insert(key, body, FALSE) /\ UNCHANGED upload
    /\ OtherWrite

delete(key) ==
    /\ Insert(key, <<>>, TRUE) /\ UNCHANGED upload
    /\ OtherWrite

delete_version(o) ==
    /\ store' = store \ {o} /\ UNCHANGED <<nextId, upload>>
    /\ OtherWrite

\* UploadPart, of a new part or again of one that was there.
put_part(n, body) ==
    /\ upload.live
    /\ upload' = [upload EXCEPT !.parts = {p \in @ : p.n # n} \union {[n |-> n, body |-> body]}]
    /\ UNCHANGED <<store, nextId>>
    /\ OtherWrite

abort_upload ==
    /\ upload.live
    /\ upload' = [upload EXCEPT !.live = FALSE, !.parts = {}]
    /\ UNCHANGED <<store, nextId>>
    /\ OtherWrite

----------------------------------------------------------------------------

Worker ==
    \/ handle_head \/ next_page \/ authorize_shape \/ authorize
    \/ call_failed \/ delete_marker_head_response
    \/ get_or_head \/ object_read
    \/ evaluate_copy_source_conditions \/ copied
    \/ complete_after_algorithm \/ complete_after_parts \/ completed
    \/ list_answer \/ list_parts_answer
    \/ with_request_context \/ catch_others
    \/ lookup_credential \/ head_object \/ current_delete_marker
    \/ get_object \/ get_range \/ copy_object
    \/ multipart_checksum_algorithm \/ list_parts \/ complete_multipart
    \/ list_objects \/ list_versions_call \/ probe

Others ==
    \/ \E w \in shared : put(w.key, w.body)
    \/ \E key \in {w.key : w \in shared} : delete(key)
    \/ \E o \in {v \in store : \E w \in shared : w.key = v.key} : delete_version(o)
    \/ \E w \in shared : \E n \in 1 .. 2 : put_part(n, w.body)
    \/ abort_upload

Next == Worker \/ statement_timeout \/ decode_fails \/ Others

Spec == Init /\ [][Next]_vars /\ WF_vars(Worker)

----------------------------------------------------------------------------
(* Properties.                                                             *)

\* The worker's state is well formed: a call runs in an open session, with
\* the timer armed until it fires and never outside of a transaction (the
\* error boundary of transaction in db.rs), and a store holds one version per
\* id, below the sequence.
TypeOK ==
    /\ session \in [open : BOOLEAN, timer : BOOLEAN, role : Roles]
    /\ job.at \in {"answered", "head", "open", "run", "probe", "abort", "back"}
    /\ job.at \in {"run", "probe", "abort"} => session.open
    /\ session.timer => session.open
    /\ job.at \in {"run", "probe"} => session.timer
    /\ Cardinality({o.id : o \in store}) = Cardinality(store)
    /\ \A o \in store : o.id < nextId
    /\ writes \in 0 .. MaxWrites

Answered(op) == job.at = "answered" /\ job.answer.status # 0 /\ job.req.op = op

Stores == {p.store : p \in past}

\* The first two preconditions of RFC 9110, in their order of precedence,
\* and the last two.
Unchanged(c, o) ==
    /\ \A m \in c.match : m.any \/ \E t \in m.tags : strong_eq(t, o)
    /\ c.match = {} => \A s \in c.unmodified : Second(o) <= s

Fresh(c, o) ==
    /\ \A m \in c.none : ~m.any /\ \A t \in m.tags : t.opaque # o.body
    /\ c.none = {} => \A s \in c.modified : Second(o) > s

\* The bytes a range selects of a body, by their positions.
Selected(s, n) ==
    {i \in 0 .. n - 1 :
       IF s.first = {} THEN \E k \in s.last : i >= n - k
       ELSE /\ \E f \in s.first : f <= i /\ \A l \in s.last : f <= l
            /\ \A l \in s.last : i <= l}

Bytes(o, positions) ==
    [k \in 1 .. Cardinality(positions) |-> o.body[Min(positions) + k]]

\* An answer with headers is justified by version o: all of its headers are
\* o's, o meets the preconditions the status stands for, and the bytes are
\* those that the range selects of o.
Justified(a, r, o) ==
    LET asked == UNION {Selected(s, Len(o.body)) : s \in r.range}
        apply == r.range # {} /\ \A i \in r.ifRange : permits_range(i, o)
        bytes(positions) == IF r.op = "HeadObject" THEN <<>> ELSE Bytes(o, positions)
    IN  /\ a.version = o.id /\ a.etag = o.body
        /\ a.checksum = IF r.checksumMode /\ a.status = 200 THEN {o.body} ELSE {}
        /\ CASE a.status = 304 -> Unchanged(r.cond, o) /\ ~Fresh(r.cond, o) /\ a.body = <<>>
             [] a.status = 206 ->
                  /\ Unchanged(r.cond, o) /\ Fresh(r.cond, o) /\ apply /\ asked # {}
                  /\ a.range = {[start |-> Min(asked), end |-> Max(asked)]}
                  /\ a.body = bytes(asked)
             [] OTHER ->
                  /\ Unchanged(r.cond, o) /\ Fresh(r.cond, o) /\ ~apply
                  /\ a.body = bytes(0 .. Len(o.body) - 1)

\* A read is consistent though it takes several transactions.  An answer
\* with a version describes one version, which the request named, or which
\* was the latest at some moment while the request was served, in all of its
\* headers, its preconditions, its range and its bytes (get_or_head).  412
\* and 416 are justified by such a version too, and 404 by a moment at which
\* there was nothing to read; a delete marker announced was the latest.
ReadConsistent ==
    \A op \in {"GetObject", "HeadObject"} : Answered(op) =>
      LET a == job.answer
          r == job.req
          seen == UNION {head(S, r.key, r.version) : S \in Stores}
      IN  CASE a.status \in {200, 206, 304} -> \E o \in seen : Justified(a, r, o)
            [] a.status = 412 -> \E o \in seen : ~Unchanged(r.cond, o)
            [] a.status = 416 ->
                 \E o \in seen : /\ Unchanged(r.cond, o) /\ Fresh(r.cond, o)
                                 /\ \E s \in r.range : Selected(s, Len(o.body)) = {}
            [] a.status = 404 ->
                 /\ \/ \E S \in Stores : head(S, r.key, r.version) = {}
                    \/ a.code = "NoSuchVersion" /\ \E o \in seen, S \in Stores : o \notin S
                 /\ \A v \in a.marker : \E S \in Stores : \E o \in Latest(S, r.key) :
                       o.marker /\ o.id = v
            [] OTHER -> TRUE

\* A copy made under preconditions is the copy of a version that met them,
\* whatever was written between the examination of the source and the copy
\* (x-amz-copy-source-if-*, dispatch), and that was the latest of its key
\* while the request was served, or the one it named.
CopyGuarded ==
    Answered("CopyObject") /\ job.answer.status = 200 =>
      \E made \in UNION Stores :
         /\ made.id = job.answer.version /\ made.key = job.req.to
         /\ \E S \in Stores : \E o \in head(S, job.req.key, job.req.version) :
              /\ o.body = made.body
              /\ Unchanged(job.req.cond, o)
              /\ \A m \in job.req.cond.none : ~m.any /\ \A t \in m.tags : t.opaque # o.body

\* A completed upload is exactly what its client named: the parts in the
\* order named with the contents of the ETags named and, when the upload has
\* checksums, of the SHA-256s and the composite named, though parts may be
\* uploaded again between the validation and the completion.
CompletionGuarded ==
    Answered("CompleteMultipartUpload") /\ job.answer.status = 200 =>
      LET named == job.req.parts IN
      \E made \in UNION Stores :
         /\ made.id = job.answer.version
         /\ made.body = FlattenSeq([i \in DOMAIN named |-> named[i].etag])
         /\ \E p \in past : p.upload.live /\ \A i \in DOMAIN named :
               [n |-> named[i].n, body |-> named[i].etag] \in p.upload.parts
         /\ (\E p \in past : p.upload.algorithm = "SHA256") =>
               /\ \A i \in DOMAIN named : named[i].sha = {named[i].etag}
               /\ job.answer.composite = [i \in DOMAIN named |-> {named[i].etag}]
               /\ job.req.composite = {job.answer.composite}

\* The rows a listing ought to have for one moment: the names of the keys
\* above the start, and of the versions when it lists versions.
Listed(r, p) ==
    LET names(S, start) ==
          {[name |-> Fold(o.key, r.q),
            version |-> IF IsFolded(o.key, r.q) THEN {} ELSE {o.id}] :
             o \in {v \in S : IsPrefix(r.q.prefix, v.key)
                                /\ \A m \in start : Less(m, Fold(v.key, r.q))}}
    IN  CASE r.op = "ListParts" -> {[name |-> <<x.n>>, version |-> {}] : x \in p.upload.parts}
          [] r.op = "ListObjectVersions" -> names(p.store, {})
          [] OTHER -> names(Current(p.store), r.from)

Row(row) == [name |-> row.name, version |-> row.version]

Names(R, op) ==
    IF op = "ListObjectVersions" THEN R ELSE {[name |-> x.name, version |-> {}] : x \in R}

\* A listing read page by page to its end is complete: its rows are in
\* strict order, so none is repeated; every row was there at some moment
\* while the pages were read; and what was there throughout is in it,
\* whatever was written between the pages, and between a page and the probe
\* that says whether it is the last one.  A page of no rows that was asked
\* for is the last one, of the listings of objects and versions.
ListingComplete ==
    job.at = "answered" /\ job.answer.status = 200 /\ IsListing(job.req) =>
      LET r     == job.req
          rows  == {Row(job.rows[i]) : i \in DOMAIN job.rows}
          at(p) == Names(Listed(r, p), r.op)
      IN  /\ \A i \in 2 .. Len(job.rows) :
               \/ Less(job.rows[i - 1].name, job.rows[i].name)
               \/ /\ job.rows[i - 1].name = job.rows[i].name
                  /\ \E v \in job.rows[i - 1].version, w \in job.rows[i].version : v > w
          /\ rows \subseteq UNION {Listed(r, p) : p \in past}
          /\ r.max = 0 => rows = {} /\ (job.answer.truncated => r.op = "ListParts")
          /\ ~job.answer.truncated /\ r.max > 0 =>
               \A x \in UNION {at(p) : p \in past} :
                  (\A p \in past : x \in at(p)) => x \in Names(rows, r.op)

\* No statement runs with the authority of another: the credential is looked
\* up as the server role, a tenant's statement runs as the tenant of this
\* request, after its signature was verified, and between calls nothing of a
\* tenant is left in the worker's session, errors and timeouts included.
TenantIsolation ==
    /\ job.at \in {"run", "probe"} =>
         IF job.call = "lookup_credential" THEN session.role = server
         ELSE session.role = job.req.role /\ job.req.auth = "good"
    /\ ~session.open => session.role = server

\* Every request is answered, and a client that follows the cursors of a
\* listing comes to its end: pages and probes make progress, and an error
\* leaves the session fit for the next call (is_list_truncated and list_parts
\* in xml.rs).  Of ListParts with pages of no parts it does not hold.
EveryRequestEnds == <>[](job.at = "answered" /\ todo = <<>> /\ ~MorePages)

=============================================================================
