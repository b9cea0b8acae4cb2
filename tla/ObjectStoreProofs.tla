-------------------------- MODULE ObjectStoreProofs -------------------------
(***************************************************************************)
(* Theorems about ObjectStore, for every choice of its constants: latest   *)
(* flags and history, reference counts, nothing dangles, blobs are         *)
(* immutable and read back as the bytes they are named after, a            *)
(* conditional completion never covers a live object, and every            *)
(* transaction of the semantic layer is one step of the abstract buckets   *)
(* of VersionedBuckets, or shows nothing.                                  *)
(***************************************************************************)
EXTENDS ObjectStore, LeastElements, FiniteSetTheorems, TLAPS

-----------------------------------------------------------------------------
(* The operators on object rows.                                           *)

\* A table of object rows with its is_latest flags and the next version id, as
\* the lemmas on the row operators need it.
IsHistory(o, l, seq) ==
    /\ seq \in Nat
    /\ DOMAIN o \subseteq Nat
    /\ l \subseteq DOMAIN o
    /\ \A v \in DOMAIN o : v < seq

\* Publishing under a version id above all others keeps the newest row latest:
\* the common tail of the _commit_*_locked helpers and of delete markers.
LEMMA InsertKeepsNewest ==
    ASSUME NEW o, NEW l, NEW seq, NEW b, NEW k, NEW c, NEW e,
           IsHistory(o, l, seq), NewestIsLatest(o, l)
    PROVE  LET n == AddRow(o, seq, ObjectRow(b, k, c, e))
               m == MoveLatest(o, l, seq, b, k)
           IN IsHistory(n, m, seq + 1) /\ NewestIsLatest(n, m)
<1> DEFINE n == AddRow(o, seq, ObjectRow(b, k, c, e))
           m == MoveLatest(o, l, seq, b, k)
<1>1. DOMAIN n = DOMAIN o \cup {seq} /\ seq \notin DOMAIN o
  BY DEF AddRow, IsHistory
<1>2. n[seq].bucket = b /\ n[seq].key = k
  BY DEF AddRow, ObjectRow
<1>3. \A v \in DOMAIN o : n[v] = o[v]
  BY <1>1 DEF AddRow
<1>4. seq \in m /\ \A v \in DOMAIN o : v \in m <=> v \in l /\ ~(o[v].bucket = b /\ o[v].key = k)
  BY <1>1 DEF MoveLatest, Versions
<1>5. IsHistory(n, m, seq + 1)
  <2>1. m \subseteq DOMAIN o \cup {seq}
    BY DEF MoveLatest, IsHistory
  <2> HIDE DEF m, n
  <2> QED BY <1>1, <2>1 DEF IsHistory
<1> HIDE DEF n, m
<1>6. ASSUME NEW v \in DOMAIN n
      PROVE  v \in m <=> \A w \in Versions(n, n[v].bucket, n[v].key) : w <= v
  <2>1. CASE v = seq
    BY <1>1, <1>2, <1>4, <2>1 DEF Versions, IsHistory
  <2>2. CASE v \in DOMAIN o /\ o[v].bucket = b /\ o[v].key = k
    <3>1. seq \in Versions(n, n[v].bucket, n[v].key) /\ ~(seq <= v)
      BY <1>1, <1>2, <1>3, <2>2 DEF Versions, IsHistory
    <3> QED BY <1>4, <2>2, <3>1
  <2>3. CASE v \in DOMAIN o /\ ~(o[v].bucket = b /\ o[v].key = k)
    <3>1. Versions(n, n[v].bucket, n[v].key) = Versions(o, o[v].bucket, o[v].key)
      BY <1>1, <1>2, <1>3, <2>3 DEF Versions
    <3> QED BY <1>4, <2>3, <3>1 DEF NewestIsLatest
  <2> QED BY <1>1, <2>1, <2>2, <2>3
<1> QED BY <1>5, <1>6 DEF n, m, NewestIsLatest

\* Removing a version promotes the newest remaining one, and only if the
\* removed one was the latest.
LEMMA RemoveKeepsNewest ==
    ASSUME NEW o, NEW l, NEW seq, NEW v \in DOMAIN o,
           IsHistory(o, l, seq), NewestIsLatest(o, l)
    PROVE  LET n == Restrict(o, DOMAIN o \ {v})
               m == Promote(o, l, v)
           IN IsHistory(n, m, seq) /\ NewestIsLatest(n, m)
<1> DEFINE n == Restrict(o, DOMAIN o \ {v})
           m == Promote(o, l, v)
           rest == Versions(o, o[v].bucket, o[v].key) \ {v}
<1>1. DOMAIN n = DOMAIN o \ {v} /\ \A w \in DOMAIN n : n[w] = o[w]
  BY DEF Restrict
<1>2. \A w \in DOMAIN o : w \in m <=>
        \/ w \in l /\ w # v
        \/ w \in rest /\ v \in l /\ \A x \in rest : x <= w
  BY DEF Promote
<1>3. m \subseteq DOMAIN o \ {v}
  BY DEF Promote, Versions, IsHistory
<1> HIDE DEF n, m
<1>4. IsHistory(n, m, seq)
  BY <1>1, <1>3 DEF IsHistory
<1>5. ASSUME NEW w \in DOMAIN n
      PROVE  w \in m <=> \A x \in Versions(n, n[w].bucket, n[w].key) : x <= w
  <2>1. Versions(n, n[w].bucket, n[w].key) = Versions(o, o[w].bucket, o[w].key) \ {v}
    BY <1>1 DEF Versions
  <2>2. w \in l <=> \A x \in Versions(o, o[w].bucket, o[w].key) : x <= w
    BY <1>1 DEF NewestIsLatest
  <2>3. v \in l <=> \A x \in Versions(o, o[v].bucket, o[v].key) : x <= v
    BY DEF NewestIsLatest
  <2>4. v \in Versions(o, o[v].bucket, o[v].key) /\ w \in DOMAIN o /\ w # v
    BY <1>1 DEF Versions
  <2>5. CASE o[w].bucket = o[v].bucket /\ o[w].key = o[v].key
    <3>1. w \in rest
      BY <2>4, <2>5 DEF Versions
    <3>2. Versions(o, o[w].bucket, o[w].key) = rest \cup {v}
      BY <2>4, <2>5
    <3>3. rest \subseteq Nat /\ v \in Nat /\ w \in Nat
      BY <2>4 DEF IsHistory, Versions
    <3>4. CASE v \in l
      BY <1>2, <2>1, <2>2, <2>3, <2>4, <2>5, <3>1, <3>2, <3>3, <3>4
    <3>5. CASE v \notin l
      <4>1. ASSUME \A x \in rest : x <= w PROVE v <= w
        BY <2>3, <2>5, <3>1, <3>2, <3>3, <3>5, <4>1
      <4> QED BY <1>2, <2>1, <2>2, <2>4, <2>5, <3>2, <3>5, <4>1
    <3> QED BY <3>4, <3>5
  <2>6. CASE ~(o[w].bucket = o[v].bucket /\ o[w].key = o[v].key)
    BY <1>2, <2>1, <2>2, <2>4, <2>6 DEF Versions
  <2> QED BY <2>5, <2>6
<1> QED BY <1>4, <1>5 DEF n, m, NewestIsLatest

\* One delete of delete() or delete_many(), with or without a version id.
LEMMA DeleteOneKeepsNewest ==
    ASSUME NEW s, NEW b, NEW k, NEW ver,
           IsHistory(s.object, s.latest, s.seq), NewestIsLatest(s.object, s.latest)
    PROVE  LET t == DeleteOne(s, b, k, ver)
           IN IsHistory(t.object, t.latest, t.seq) /\ NewestIsLatest(t.object, t.latest)
<1> DEFINE gone == {v \in Versions(s.object, b, k) : ver = {v}}
           t == DeleteOne(s, b, k, ver)
<1>1. CASE ver = {}
  <2>1. /\ t.object = AddRow(s.object, s.seq, ObjectRow(b, k, {}, {}))
        /\ t.latest = MoveLatest(s.object, s.latest, s.seq, b, k)
        /\ t.seq = s.seq + 1
    BY <1>1 DEF DeleteOne
  <2> QED BY <2>1, InsertKeepsNewest
<1>2. CASE ver # {}
  <2>1. /\ t.object = Restrict(s.object, DOMAIN s.object \ gone)
        /\ t.latest = IF gone = {} THEN s.latest
                      ELSE Promote(s.object, s.latest, CHOOSE v \in gone : TRUE)
        /\ t.seq = s.seq
    BY <1>2 DEF DeleteOne
  <2>2. CASE gone = {}
    <3>1. DOMAIN t.object = DOMAIN s.object /\ \A v \in DOMAIN s.object : t.object[v] = s.object[v]
      BY <2>1, <2>2 DEF Restrict
    <3>2. t.latest = s.latest
      BY <2>1, <2>2
    <3> HIDE DEF t
    <3>3. IsHistory(t.object, t.latest, t.seq)
      BY <2>1, <3>1, <3>2 DEF IsHistory
    <3>4. NewestIsLatest(t.object, t.latest)
      BY <3>1, <3>2 DEF NewestIsLatest, Versions
    <3> QED BY <3>3, <3>4 DEF t
  <2>3. ASSUME NEW v \in gone
        PROVE  IsHistory(t.object, t.latest, t.seq) /\ NewestIsLatest(t.object, t.latest)
    <3>1. gone = {v} /\ v \in DOMAIN s.object
      BY <2>3 DEF Versions
    <3>2. (CHOOSE x \in gone : TRUE) = v
      BY <3>1
    <3>3. /\ t.object = Restrict(s.object, DOMAIN s.object \ {v})
          /\ t.latest = Promote(s.object, s.latest, v)
      BY <2>1, <3>1, <3>2
    <3> QED BY <2>1, <3>1, <3>3, RemoveKeepsNewest
  <2> QED BY <2>2, <2>3
<1> QED BY <1>1, <1>2

\* A delete keeps the rows it does not remove as they are; the only new row is
\* a delete marker of the key under the next version id.
LEMMA DeleteOneRows ==
    ASSUME NEW s, NEW b, NEW k, NEW ver
    PROVE  LET t == DeleteOne(s, b, k, ver)
           IN /\ \A v \in DOMAIN t.object :
                    \/ v \in DOMAIN s.object /\ t.object[v] = s.object[v]
                    \/ v = s.seq /\ t.object[v] = ObjectRow(b, k, {}, {})
              /\ t.seq = s.seq \/ t.seq = s.seq + 1
<1> DEFINE gone == {v \in Versions(s.object, b, k) : ver = {v}}
           t == DeleteOne(s, b, k, ver)
<1>1. CASE ver = {}
  <2>1. t.object = AddRow(s.object, s.seq, ObjectRow(b, k, {}, {})) /\ t.seq = s.seq + 1
    BY <1>1 DEF DeleteOne
  <2> HIDE DEF t
  <2> QED BY <2>1 DEF AddRow, t
<1>2. CASE ver # {}
  <2>1. t.object = Restrict(s.object, DOMAIN s.object \ gone) /\ t.seq = s.seq
    BY <1>2 DEF DeleteOne
  <2> HIDE DEF t, gone
  <2> QED BY <2>1 DEF Restrict, t
<1> QED BY <1>1, <1>2

-----------------------------------------------------------------------------
(* What a step can do to the object table.                                 *)

\* A row that one of the commit helpers may insert.
Insertable(b, k, c, e) ==
    b \in Nat /\ b < bucketSeq /\ k \in Key /\ (c = {} <=> e = {})

\* Every step leaves the object table alone, publishes one row, runs one or
\* two deletes, or forks a bucket.
LEMMA ObjectEffects ==
    ASSUME TypeOK, [Next]_vars
    PROVE  \/ UNCHANGED objectVars
           \/ \E b, k, c, e : InsertVersion(b, k, c, e) /\ Insertable(b, k, c, e)
           \/ \E a \in Role, n \in BucketName, k \in Key, ver \in VersionArg :
                Delete(a, n, k, ver)
           \/ \E a \in Role, n \in BucketName, k, k2 \in Key, ver, ver2 \in VersionArg :
                DeleteMany(a, n, k, ver, k2, ver2)
           \/ \E a \in Role, n, n2 \in BucketName : Fork(a, n, n2)
<1> DEFINE Inserts == \E b, k, c, e : InsertVersion(b, k, c, e) /\ Insertable(b, k, c, e)
<1>1. ASSUME NEW b, NEW k \in Key, NEW v \in DOMAIN object, NEW cd,
             CommitReference(b, k, v, cd), b \in Nat, b < bucketSeq
      PROVE  Inserts
  <2>1. InsertVersion(b, k, object[v].blob, object[v].etag)
    BY <1>1 DEF CommitReference
  <2>2. Insertable(b, k, object[v].blob, object[v].etag)
    BY <1>1 DEF Insertable, TypeOK, ObjectOK, IsMarker
  <2> QED BY <2>1, <2>2
<1>2. ASSUME NEW a, NEW u, NEW b, NEW c, NEW e,
             PublishUpload(a, u, b, c, e), u \in DOMAIN upload
      PROVE  Inserts
  <2>1. InsertVersion(upload[u].bucket, upload[u].key, {c}, {e})
    BY <1>2 DEF PublishUpload
  <2>2. Insertable(upload[u].bucket, upload[u].key, {c}, {e})
    BY <1>2 DEF Insertable, TypeOK, UploadOK
  <2> QED BY <2>1, <2>2
<1>3. ASSUME NEW a, NEW n, Visible(a, n)
      PROVE  bucket[n].id \in Nat /\ bucket[n].id < bucketSeq
  BY <1>3 DEF Visible, TypeOK, BucketOK
<1>4. CASE BucketStep
  BY <1>4 DEF BucketStep, CreateBucket, DeleteBucket
<1>5. CASE ObjectStep
  <2>1. PICK a \in Role, n \in BucketName, k \in Key :
            \/ \E c \in Body, cd \in Cond : Put(a, n, k, c, cd)
            \/ \E ver \in VersionArg : Delete(a, n, k, ver)
            \/ \E k2 \in Key, ver, ver2 \in VersionArg : DeleteMany(a, n, k, ver, k2, ver2)
            \/ \E n2 \in BucketName, k2 \in Key, ver \in VersionArg, cd \in Cond,
                  match \in {{}} \cup {{Etag(c)} : c \in Body} :
                    Copy(a, n, k, ver, n2, k2, match, cd)
            \/ \E v \in DOMAIN object, cd \in Cond : RestoreVersion(a, n, k, v, cd.ifMatch)
    BY <1>5 DEF ObjectStep
  <2>2. ASSUME NEW c \in Body, NEW cd \in Cond, Put(a, n, k, c, cd)
        PROVE  Inserts
    <3>1. InsertVersion(bucket[n].id, k, {c}, {Etag(c)}) /\ Visible(a, n)
      BY <2>2 DEF Put
    <3>2. Insertable(bucket[n].id, k, {c}, {Etag(c)})
      BY <1>3, <3>1 DEF Insertable
    <3> QED BY <3>1, <3>2
  <2>3. ASSUME NEW n2 \in BucketName, NEW k2 \in Key, NEW ver, NEW match, NEW cd,
               Copy(a, n, k, ver, n2, k2, match, cd)
        PROVE  Inserts
    <3>1. PICK v \in Versions(object, bucket[n].id, k) :
                CommitReference(bucket[n2].id, k2, v, cd)
      BY <2>3 DEF Copy
    <3>2. v \in DOMAIN object /\ Visible(a, n2)
      BY <2>3, <3>1 DEF Copy, Versions
    <3> QED BY <1>1, <1>3, <3>1, <3>2
  <2>4. ASSUME NEW v \in DOMAIN object, NEW cd, RestoreVersion(a, n, k, v, cd)
        PROVE  Inserts
    BY <1>1, <1>3, <2>4 DEF RestoreVersion
  <2> QED BY <2>1, <2>2, <2>3, <2>4
<1>6. CASE ForkStep
  BY <1>6 DEF ForkStep
<1>7. CASE UploadStep
  <2>1. PICK a \in Role, u \in UploadId :
            \/ \E n \in BucketName, k \in Key, multi \in BOOLEAN, cd \in Cond,
                  expected \in Expected : BeginUpload(a, n, k, u, multi, cd, expected)
            \/ RenewUpload(a, u)
            \/ \E p \in PartNo \cup {0}, s \in 0 .. MaxChunkSeq, c \in Piece :
                    PutChunk(a, u, p, s, c)
            \/ \E p \in PartNo :
                    \/ BeginPart(a, u, p)
                    \/ CompletePart(a, u, p)
                    \/ \E c \in PartBody : PutPart(a, u, p, c)
            \/ CompleteUpload(a, u)
            \/ WorkerCompleteUpload(a, u, Staged(u, 0))
            \/ \E nos \in BoundedSeq(PartNo, MaxParts) : CompleteMultipartUpload(a, u, nos)
            \/ AbortUpload(a, u)
    BY <1>7 DEF UploadStep
  <2>2. CASE CompleteUpload(a, u)
    BY <1>2, <2>2 DEF CompleteUpload, ForUpdate
  <2>3. CASE WorkerCompleteUpload(a, u, Staged(u, 0))
    BY <1>2, <2>3 DEF WorkerCompleteUpload, CompleteUpload, ForUpdate
  <2>4. ASSUME NEW nos, CompleteMultipartUpload(a, u, nos)
        PROVE  Inserts
    BY <1>2, <2>4 DEF CompleteMultipartUpload, ForUpdate
  <2> QED
    BY <2>1, <2>2, <2>3, <2>4 DEF BeginUpload, RenewUpload, PutChunk, BeginPart,
        CompletePart, PutPart, AbortUpload
<1>8. CASE TimeStep
  BY <1>8 DEF TimeStep, LeaseExpires, StagingAges
<1>9. CASE GcStep
  BY <1>9 DEF GcStep, GcPendingUploads, GcBlobs
<1>10. CASE UNCHANGED vars
  BY <1>10 DEF vars
<1> QED BY <1>4, <1>5, <1>6, <1>7, <1>8, <1>9, <1>10 DEF Next

\* The number of rows a fork copies is a natural number.
LEMMA ForkRowsFinite ==
    ASSUME ObjectOK, NEW R, R \subseteq latest
    PROVE  IsFiniteSet(R) /\ Cardinality(R) \in Nat
<1>1. R \subseteq 0 .. versionSeq
  BY DEF ObjectOK
<1>2. IsFiniteSet(0 .. versionSeq)
  BY FS_Interval DEF ObjectOK
<1> QED BY <1>1, <1>2, FS_Subset, FS_CardinalityType

\* fork_bucket appends rows of a bucket id that no row had before, one per key
\* of the source, whatever the order of its scan.
LEMMA ForkKeepsNewest ==
    ASSUME TypeOK, NEW a \in Role, NEW n, NEW n2, Fork(a, n, n2)
    PROVE  /\ ObjectOK'
           /\ LatestIsNewest => LatestIsNewest'
           /\ \A v \in DOMAIN object' :
                \/ v \in DOMAIN object /\ object'[v] = object[v]
                \/ v \notin DOMAIN object /\ versionSeq <= v
<1> DEFINE rows == {v \in latest : object[v].bucket = bucket[n].id}
           fresh == versionSeq .. (versionSeq + Cardinality(rows) - 1)
<1>1. PICK scan \in Bijection(fresh, rows) :
            object' = [w \in DOMAIN object \cup fresh |->
                        IF w \in fresh
                        THEN ObjectRow(bucketSeq, object[scan[w]].key,
                                       object[scan[w]].blob, object[scan[w]].etag)
                        ELSE object[w]]
  BY DEF Fork
<1>2. /\ latest' = latest \cup fresh
      /\ versionSeq' = versionSeq + Cardinality(rows)
      /\ bucketSeq' = bucketSeq + 1
  BY DEF Fork, AddBucket
<1>3. ObjectOK /\ bucketSeq \in Nat
  BY DEF TypeOK, BucketOK
<1>4. Cardinality(rows) \in Nat
  BY <1>3, ForkRowsFinite
<1>5. /\ scan \in [fresh -> rows]
      /\ \A v, w \in fresh : scan[v] = scan[w] => v = w
  BY <1>1 DEF Bijection, Injection, IsInjective
<1> HIDE DEF rows
<1>6. /\ \A v \in fresh : v \in Nat /\ versionSeq <= v /\ v < versionSeq'
      /\ fresh \cap DOMAIN object = {}
      /\ versionSeq' \in Nat /\ versionSeq <= versionSeq'
  BY <1>2, <1>3, <1>4 DEF ObjectOK
<1> HIDE DEF fresh
<1>7. /\ DOMAIN object' = DOMAIN object \cup fresh
      /\ \A w \in fresh :
            /\ object'[w].bucket = bucketSeq
            /\ object'[w].key = object[scan[w]].key
            /\ object'[w].blob = object[scan[w]].blob
            /\ object'[w].etag = object[scan[w]].etag
      /\ \A w \in DOMAIN object : object'[w] = object[w]
  BY <1>1, <1>6 DEF ObjectRow
<1>8. \A w \in fresh : /\ scan[w] \in DOMAIN object /\ scan[w] \in latest
                       /\ object[scan[w]].bucket = bucket[n].id
  BY <1>3, <1>5 DEF rows, ObjectOK
<1>9. ObjectOK'
  <2>1. ASSUME NEW v \in DOMAIN object'
        PROVE  /\ v < versionSeq'
               /\ object'[v].bucket \in Nat /\ object'[v].bucket < bucketSeq'
               /\ object'[v].key \in Key
               /\ object'[v].blob = {} <=> object'[v].etag = {}
    <3>1. CASE v \in fresh
      <4>1. /\ object[scan[v]].key \in Key
            /\ object[scan[v]].blob = {} <=> object[scan[v]].etag = {}
        BY <1>3, <1>8, <3>1 DEF ObjectOK, IsMarker
      <4>2. v < versionSeq' /\ bucketSeq < bucketSeq'
        BY <1>2, <1>3, <1>6, <3>1
      <4>3. /\ object'[v].bucket = bucketSeq
            /\ object'[v].key = object[scan[v]].key
            /\ object'[v].blob = object[scan[v]].blob
            /\ object'[v].etag = object[scan[v]].etag
        BY <1>7, <3>1
      <4> QED BY <1>3, <4>1, <4>2, <4>3
    <3>2. CASE v \in DOMAIN object
      BY <1>2, <1>3, <1>6, <1>7, <3>2 DEF ObjectOK, IsMarker
    <3> QED BY <1>7, <3>1, <3>2
  <2>2. DOMAIN object' \subseteq Nat /\ latest' \subseteq DOMAIN object'
    BY <1>2, <1>3, <1>6, <1>7 DEF ObjectOK
  <2> QED BY <1>6, <2>1, <2>2 DEF ObjectOK, IsMarker
<1>10. ASSUME LatestIsNewest, NEW v \in DOMAIN object'
       PROVE  v \in latest' <=>
                \A w \in Versions(object', object'[v].bucket, object'[v].key) : w <= v
  <2>1. CASE v \in fresh
    <3>1. ASSUME NEW w \in Versions(object', object'[v].bucket, object'[v].key)
          PROVE  w <= v
      <4>1. w \in fresh
        BY <1>3, <1>7, <2>1 DEF Versions, ObjectOK
      <4>2. object[scan[w]].key = object[scan[v]].key
        BY <1>7, <2>1, <4>1 DEF Versions
      <4>3. scan[w] <= scan[v] /\ scan[v] <= scan[w]
        BY <1>8, <1>10, <2>1, <4>1, <4>2 DEF LatestIsNewest, NewestIsLatest, Versions
      <4>4. scan[w] = scan[v]
        BY <1>3, <1>8, <2>1, <4>1, <4>3 DEF ObjectOK
      <4>5. w = v
        BY <1>5, <2>1, <4>1, <4>4
      <4> QED BY <1>6, <2>1, <4>5
    <3> QED BY <1>2, <2>1, <3>1
  <2>2. CASE v \in DOMAIN object
    <3>1. Versions(object', object'[v].bucket, object'[v].key)
            = Versions(object, object[v].bucket, object[v].key)
      BY <1>3, <1>7, <2>2 DEF Versions, ObjectOK
    <3>2. v \in latest' <=> v \in latest
      BY <1>2, <1>6, <2>2
    <3> QED BY <1>10, <2>2, <3>1, <3>2 DEF LatestIsNewest, NewestIsLatest
  <2> QED BY <1>7, <2>1, <2>2
<1> QED BY <1>6, <1>7, <1>9, <1>10 DEF LatestIsNewest, NewestIsLatest

-----------------------------------------------------------------------------
(* Bucket rows: identities are never handed out twice.                     *)

\* The bucket table through every action: create_bucket and fork_bucket draw
\* fresh ids, delete_bucket only removes.
LEMMA BucketPreserved ==
    ASSUME TypeOK, [Next]_vars
    PROVE  BucketOK' /\ bucketSeq' \in Nat /\ bucketSeq <= bucketSeq'
<1>1. BucketOK
  BY DEF TypeOK
<1>2. CASE UNCHANGED <<bucket, bucketSeq>>
  BY <1>1, <1>2 DEF BucketOK
<1>3. ASSUME NEW a \in Role, NEW n \in BucketName, AddBucket(a, n)
      PROVE  BucketOK' /\ bucketSeq' \in Nat /\ bucketSeq <= bucketSeq'
  <2>1. /\ DOMAIN bucket' = DOMAIN bucket \cup {n}
        /\ bucket'[n].id = bucketSeq /\ bucket'[n].owner = a
        /\ \A m \in DOMAIN bucket : bucket'[m] = bucket[m]
        /\ bucketSeq' = bucketSeq + 1
    BY <1>3 DEF AddBucket
  <2> QED BY <1>1, <2>1 DEF BucketOK
<1>4. ASSUME NEW a \in Role, NEW n \in BucketName, DeleteBucket(a, n)
      PROVE  BucketOK' /\ bucketSeq' \in Nat /\ bucketSeq <= bucketSeq'
  <2>1. /\ DOMAIN bucket' = DOMAIN bucket \ {n}
        /\ \A m \in DOMAIN bucket' : bucket'[m] = bucket[m]
        /\ bucketSeq' = bucketSeq
    BY <1>4 DEF DeleteBucket, Restrict
  <2> QED BY <1>1, <2>1 DEF BucketOK
<1>5. CASE BucketStep
  BY <1>3, <1>4, <1>5 DEF BucketStep, CreateBucket
<1>6. CASE ObjectStep
  <2>1. ASSUME NEW a, NEW n, NEW k, NEW c, NEW cd, Put(a, n, k, c, cd)
        PROVE  UNCHANGED <<bucket, bucketSeq>>
    BY <2>1 DEF Put
  <2>2. ASSUME NEW s, Commit(s) PROVE UNCHANGED <<bucket, bucketSeq>>
    BY <2>2 DEF Commit
  <2>3. ASSUME NEW b, NEW k, NEW v, NEW cd, CommitReference(b, k, v, cd)
        PROVE  UNCHANGED <<bucket, bucketSeq>>
    BY <2>3 DEF CommitReference
  <2>4. ASSUME NEW a, NEW n, NEW k, NEW ver, Delete(a, n, k, ver)
        PROVE  UNCHANGED <<bucket, bucketSeq>>
    BY <2>2, <2>4 DEF Delete
  <2>5. ASSUME NEW a, NEW n, NEW k, NEW ver, NEW k2, NEW ver2,
               DeleteMany(a, n, k, ver, k2, ver2)
        PROVE  UNCHANGED <<bucket, bucketSeq>>
    BY <2>2, <2>5 DEF DeleteMany
  <2>6. ASSUME NEW a, NEW n, NEW k, NEW ver, NEW n2, NEW k2, NEW match, NEW cd,
               Copy(a, n, k, ver, n2, k2, match, cd)
        PROVE  UNCHANGED <<bucket, bucketSeq>>
    BY <2>3, <2>6 DEF Copy
  <2>7. ASSUME NEW a, NEW n, NEW k, NEW v, NEW match, RestoreVersion(a, n, k, v, match)
        PROVE  UNCHANGED <<bucket, bucketSeq>>
    BY <2>3, <2>7 DEF RestoreVersion
  <2> QED BY <1>2, <1>6, <2>1, <2>4, <2>5, <2>6, <2>7 DEF ObjectStep
<1>7. CASE ForkStep
  BY <1>3, <1>7 DEF ForkStep, Fork
<1>8. CASE UploadStep
  <2>1. ASSUME NEW a, NEW u, NEW b, NEW c, NEW e, PublishUpload(a, u, b, c, e)
        PROVE  UNCHANGED <<bucket, bucketSeq>>
    BY <2>1 DEF PublishUpload
  <2>2. ASSUME NEW a, NEW u,
               \/ CompleteUpload(a, u) \/ WorkerCompleteUpload(a, u, Staged(u, 0))
               \/ \E nos \in BoundedSeq(PartNo, MaxParts) : CompleteMultipartUpload(a, u, nos)
        PROVE  UNCHANGED <<bucket, bucketSeq>>
    BY <2>1, <2>2 DEF CompleteUpload, WorkerCompleteUpload, CompleteMultipartUpload
  <2>3. UNCHANGED <<bucket, bucketSeq>>
    <3>1. PICK a \in Role, u \in UploadId :
            \/ \E n, k, multi, cd, ex : BeginUpload(a, n, k, u, multi, cd, ex)
            \/ RenewUpload(a, u)
            \/ \E p, s, c : PutChunk(a, u, p, s, c)
            \/ \E p : BeginPart(a, u, p) \/ CompletePart(a, u, p)
                        \/ \E c : PutPart(a, u, p, c)
            \/ \/ CompleteUpload(a, u) \/ WorkerCompleteUpload(a, u, Staged(u, 0))
               \/ \E nos \in BoundedSeq(PartNo, MaxParts) : CompleteMultipartUpload(a, u, nos)
            \/ AbortUpload(a, u)
      BY <1>8, Zenon DEF UploadStep
    <3> QED BY <2>2, <3>1 DEF BeginUpload, RenewUpload, PutChunk, BeginPart,
          CompletePart, PutPart, AbortUpload
  <2> QED BY <1>2, <2>3
<1>9. CASE TimeStep
  BY <1>2, <1>9 DEF TimeStep, LeaseExpires, StagingAges
<1>10. CASE GcStep
  BY <1>2, <1>10 DEF GcStep, GcPendingUploads, GcBlobs
<1>11. CASE UNCHANGED vars
  BY <1>2, <1>11 DEF vars
<1> QED BY <1>5, <1>6, <1>7, <1>8, <1>9, <1>10, <1>11 DEF Next

-----------------------------------------------------------------------------
(* Object rows under every step.                                           *)

\* The rows of a table, without their order.
RowsOK(o) ==
    \A v \in DOMAIN o :
        /\ o[v].bucket \in Nat /\ o[v].bucket < bucketSeq
        /\ o[v].key \in Key
        /\ o[v].blob = {} <=> o[v].etag = {}

\* A step keeps the rows it does not remove and numbers new ones upwards.
Appends == \A v \in DOMAIN object' :
                \/ v \in DOMAIN object /\ object'[v] = object[v]
                \/ v \notin DOMAIN object /\ versionSeq <= v

\* The object table and its latest flags through every action, from the
\* effects listed by ObjectEffects.
LEMMA ObjectPreserved ==
    ASSUME TypeOK, LatestIsNewest, [Next]_vars
    PROVE  ObjectOK' /\ LatestIsNewest' /\ Appends
<1> DEFINE Goal == ObjectOK' /\ LatestIsNewest' /\ Appends
<1>1. /\ bucketSeq \in Nat
      /\ IsHistory(object, latest, versionSeq) /\ RowsOK(object)
      /\ NewestIsLatest(object, latest)
  BY DEF TypeOK, ObjectOK, BucketOK, IsHistory, RowsOK, IsMarker, LatestIsNewest
<1>2. bucketSeq' \in Nat /\ bucketSeq <= bucketSeq'
  BY BucketPreserved
<1>3. ASSUME IsHistory(object', latest', versionSeq'), NewestIsLatest(object', latest'),
             RowsOK(object')
      PROVE  ObjectOK' /\ LatestIsNewest'
  <2>1. ASSUME NEW v \in DOMAIN object'
        PROVE  /\ object'[v].bucket \in Nat /\ object'[v].bucket < bucketSeq'
               /\ object'[v].key \in Key
               /\ object'[v].blob = {} <=> object'[v].etag = {}
    BY <1>1, <1>2, <1>3 DEF RowsOK
  <2> QED BY <1>3, <2>1 DEF ObjectOK, IsHistory, IsMarker, LatestIsNewest
<1>4. CASE UNCHANGED objectVars
  BY <1>1, <1>3, <1>4 DEF objectVars, Appends
<1>5. ASSUME NEW b, NEW k, NEW c, NEW e, InsertVersion(b, k, c, e), Insertable(b, k, c, e)
      PROVE  Goal
  <2>1. /\ object' = AddRow(object, versionSeq, ObjectRow(b, k, c, e))
        /\ latest' = MoveLatest(object, latest, versionSeq, b, k)
        /\ versionSeq' = versionSeq + 1
    BY <1>5 DEF InsertVersion
  <2>2. /\ DOMAIN object' = DOMAIN object \cup {versionSeq}
        /\ object'[versionSeq] = ObjectRow(b, k, c, e)
        /\ \A v \in DOMAIN object : object'[v] = object[v]
    BY <1>1, <2>1 DEF AddRow, IsHistory
  <2>3. RowsOK(object')
    BY <1>1, <1>2, <1>5, <2>2 DEF RowsOK, Insertable, ObjectRow
  <2>4. Appends
    BY <1>1, <2>2 DEF Appends, IsHistory
  <2> QED BY <1>1, <1>3, <2>1, <2>3, <2>4, InsertKeepsNewest
<1>6. ASSUME NEW s, NEW b, NEW k, NEW ver, b \in Nat, b < bucketSeq, k \in Key,
             IsHistory(s.object, s.latest, s.seq), NewestIsLatest(s.object, s.latest),
             RowsOK(s.object)
      PROVE  LET t == DeleteOne(s, b, k, ver)
             IN /\ IsHistory(t.object, t.latest, t.seq)
                /\ NewestIsLatest(t.object, t.latest)
                /\ RowsOK(t.object)
                /\ \A v \in DOMAIN t.object :
                    (v \in DOMAIN s.object /\ t.object[v] = s.object[v]) \/ v = s.seq
                /\ t.seq = s.seq \/ t.seq = s.seq + 1
  <2> DEFINE t == DeleteOne(s, b, k, ver)
  <2>1. \A v \in DOMAIN t.object :
            \/ v \in DOMAIN s.object /\ t.object[v] = s.object[v]
            \/ v = s.seq /\ t.object[v] = ObjectRow(b, k, {}, {})
    BY DeleteOneRows
  <2>2. RowsOK(t.object)
    <3> HIDE DEF t
    <3> QED BY <1>1, <1>6, <2>1 DEF RowsOK, ObjectRow
  <2> QED BY <1>6, <2>1, <2>2, DeleteOneRows, DeleteOneKeepsNewest
<1>7. /\ Tables.object = object /\ Tables.latest = latest /\ Tables.seq = versionSeq
  BY DEF Tables
<1>8. ASSUME NEW a, NEW n, Visible(a, n)
      PROVE  bucket[n].id \in Nat /\ bucket[n].id < bucketSeq
  BY <1>8 DEF Visible, TypeOK, BucketOK
<1>9. ASSUME NEW a \in Role, NEW n \in BucketName, NEW k \in Key, NEW ver,
             Delete(a, n, k, ver)
      PROVE  Goal
  <2> DEFINE t == DeleteOne(Tables, bucket[n].id, k, ver)
  <2>1. object' = t.object /\ latest' = t.latest /\ versionSeq' = t.seq /\ Visible(a, n)
    BY <1>9 DEF Delete, Commit
  <2>2. /\ IsHistory(t.object, t.latest, t.seq)
        /\ NewestIsLatest(t.object, t.latest) /\ RowsOK(t.object)
        /\ \A v \in DOMAIN t.object :
              (v \in DOMAIN object /\ t.object[v] = object[v]) \/ v = versionSeq
    BY <1>1, <1>6, <1>7, <1>8, <2>1
  <2> HIDE DEF t
  <2>3. Appends
    BY <1>1, <2>1, <2>2 DEF Appends, IsHistory
  <2> QED BY <1>3, <2>1, <2>2, <2>3
<1>10. ASSUME NEW a \in Role, NEW n \in BucketName, NEW k \in Key, NEW ver,
              NEW k2 \in Key, NEW ver2, DeleteMany(a, n, k, ver, k2, ver2)
       PROVE  Goal
  <2> DEFINE b == bucket[n].id
             s == DeleteOne(Tables, b, k, ver)
             t == DeleteOne(s, b, k2, ver2)
  <2>1. object' = t.object /\ latest' = t.latest /\ versionSeq' = t.seq /\ Visible(a, n)
    BY <1>10 DEF DeleteMany, Commit
  <2>2. b \in Nat /\ b < bucketSeq
    BY <1>8, <2>1
  <2> HIDE DEF b
  <2>3. /\ IsHistory(s.object, s.latest, s.seq)
        /\ NewestIsLatest(s.object, s.latest) /\ RowsOK(s.object)
        /\ \A v \in DOMAIN s.object :
              (v \in DOMAIN object /\ s.object[v] = object[v]) \/ v = versionSeq
        /\ s.seq = versionSeq \/ s.seq = versionSeq + 1
    BY <1>1, <1>6, <1>7, <2>2
  <2> HIDE DEF s
  <2>4. /\ IsHistory(t.object, t.latest, t.seq)
        /\ NewestIsLatest(t.object, t.latest) /\ RowsOK(t.object)
        /\ \A v \in DOMAIN t.object :
              (v \in DOMAIN s.object /\ t.object[v] = s.object[v]) \/ v = s.seq
    BY <1>6, <2>2, <2>3
  <2> HIDE DEF t
  <2>5. Appends
    BY <1>1, <2>1, <2>3, <2>4 DEF Appends, IsHistory
  <2> QED BY <1>3, <2>1, <2>4, <2>5
<1>11. ASSUME NEW a \in Role, NEW n, NEW n2, Fork(a, n, n2)
       PROVE  Goal
  BY <1>11, ForkKeepsNewest DEF Appends
<1> QED BY <1>4, <1>5, <1>9, <1>10, <1>11, ObjectEffects

-----------------------------------------------------------------------------
(* The operators on blobs and extents.                                     *)

\* The shape of a blob table, and of one that the refcount triggers adjusted.
IsBlobTable(b) ==
    /\ IsFiniteSet(DOMAIN b)
    /\ \A c \in DOMAIN b :
        b[c].kind \in {"inline", "chunked", "composite"} /\ b[c].refcount \in Int

\* The values of a function over a finite domain form a finite set.
LEMMA FiniteImage ==
    ASSUME NEW S, NEW T, NEW f \in [S -> T], IsFiniteSet(S),
           \A t \in T : \E x \in S : f[x] = t
    PROVE  IsFiniteSet(T)
<1>1. f \in Surjection(S, T)
  BY DEF Surjection
<1> QED BY <1>1, FS_Surjection

\* A refcount trigger keeps the rows of the blob table and their kinds.
LEMMA AdjustedTable ==
    ASSUME NEW b, NEW n, NEW d, IsBlobTable(b), \A c \in DOMAIN b : d[c] \in Int,
           n = [c \in DOMAIN b |-> BlobRow(b[c].kind, b[c].refcount + d[c], b[c].height)]
    PROVE  IsBlobTable(n)
<1>1. DOMAIN n = DOMAIN b
  OBVIOUS
<1>2. ASSUME NEW c \in DOMAIN b
      PROVE  n[c].kind = b[c].kind /\ n[c].refcount = b[c].refcount + d[c]
  BY DEF BlobRow
<1> QED BY <1>1, <1>2 DEF IsBlobTable

\* _ensure_blob adds at most one row, with a count of zero.
LEMMA EnsureBlobTable ==
    ASSUME NEW b, NEW c, IsBlobTable(b)
    PROVE  IsBlobTable(EnsureBlob(b, c))
<1> DEFINE n == EnsureBlob(b, c)
<1>1. DOMAIN n = DOMAIN b \cup {c}
  BY DEF EnsureBlob
<1>2. \A x \in DOMAIN b : n[x] = b[x]
  BY <1>1 DEF EnsureBlob
<1>3. c \notin DOMAIN b => n[c].kind \in {"inline", "chunked"} /\ n[c].refcount = 0
  BY DEF EnsureBlob, BlobRow
<1>4. IsFiniteSet(DOMAIN n)
  BY <1>1, FS_AddElement DEF IsBlobTable
<1> HIDE DEF n
<1> QED BY <1>1, <1>2, <1>3, <1>4 DEF IsBlobTable, n

\* The number of list places a source takes.
LEMMA PlacesNat ==
    ASSUME NEW src, IsFiniteSet(DOMAIN src), NEW x
    PROVE  Cardinality({i \in DOMAIN src : src[i] = x}) \in Nat
BY FS_Subset, FS_CardinalityType

\* A composite adds at most one row and raises the counts of its sources.
LEMMA EnsureCompositeTable ==
    ASSUME NEW b, NEW c, NEW src, IsBlobTable(b), IsFiniteSet(DOMAIN src)
    PROVE  IsBlobTable(EnsureComposite(b, c, src))
<1> DEFINE n == EnsureComposite(b, c, src)
<1>1. CASE c \in DOMAIN b
  BY <1>1 DEF EnsureComposite
<1>2. CASE c \notin DOMAIN b
  <2>1. DOMAIN n = DOMAIN b \cup {c}
    BY <1>2 DEF EnsureComposite
  <2>2. n[c].kind = "composite" /\ n[c].refcount = 0
    BY <1>2 DEF EnsureComposite, BlobRow
  <2>3. ASSUME NEW x \in DOMAIN b
        PROVE  n[x].kind = b[x].kind /\ n[x].refcount \in Int
    <3> DEFINE places == Cardinality({i \in DOMAIN src : src[i] = x})
    <3>1. n[x].kind = b[x].kind /\ n[x].refcount = b[x].refcount + places
      BY <1>2 DEF EnsureComposite, BlobRow
    <3>2. places \in Nat
      BY PlacesNat
    <3> HIDE DEF n, places
    <3> QED BY <3>1, <3>2 DEF IsBlobTable
  <2>4. IsFiniteSet(DOMAIN n)
    BY <2>1, FS_AddElement DEF IsBlobTable
  <2> HIDE DEF n
  <2>5. IsBlobTable(n)
    BY <2>1, <2>2, <2>3, <2>4 DEF IsBlobTable
  <2> QED BY <2>5 DEF n
<1> QED BY <1>1, <1>2

\* The chunks of put_part add finitely many rows.
LEMMA EnsureBlobsTable ==
    ASSUME NEW b, NEW cs, IsBlobTable(b), IsFiniteSet(DOMAIN cs)
    PROVE  IsBlobTable(EnsureBlobs(b, cs))
<1> DEFINE n == EnsureBlobs(b, cs)
           T == {cs[i] : i \in DOMAIN cs}
<1>1. DOMAIN n = DOMAIN b \cup T
  BY DEF EnsureBlobs
<1>2. \A x \in DOMAIN n : n[x] = IF x \in DOMAIN b THEN b[x] ELSE EnsureBlob(b, x)[x]
  BY DEF EnsureBlobs
<1>3. ASSUME NEW x PROVE x \in DOMAIN EnsureBlob(b, x)
  BY DEF EnsureBlob
<1>4. IsFiniteSet(T)
  <2> DEFINE f == [i \in DOMAIN cs |-> cs[i]]
  <2>1. f \in [DOMAIN cs -> T] /\ \A t \in T : \E i \in DOMAIN cs : f[i] = t
    OBVIOUS
  <2> HIDE DEF f, T
  <2> QED BY <2>1, FiniteImage
<1>5. IsFiniteSet(DOMAIN n)
  BY <1>1, <1>4, FS_Union DEF IsBlobTable
<1>6. ASSUME NEW x \in DOMAIN n
      PROVE  n[x].kind \in {"inline", "chunked", "composite"} /\ n[x].refcount \in Int
  <2>1. IsBlobTable(EnsureBlob(b, x))
    BY EnsureBlobTable
  <2> HIDE DEF n
  <2> QED BY <1>2, <1>3, <2>1 DEF IsBlobTable
<1> QED BY <1>5, <1>6 DEF IsBlobTable

\* A composite adds finitely many extent rows.
LEMMA CompositeExtentsFinite ==
    ASSUME NEW b, NEW e, NEW c, NEW src, IsFiniteSet(DOMAIN e), IsFiniteSet(DOMAIN src)
    PROVE  IsFiniteSet(DOMAIN CompositeExtents(b, e, c, src))
<1> DEFINE T == {<<c, i - 1>> : i \in DOMAIN src}
           f == [i \in DOMAIN src |-> <<c, i - 1>>]
<1>1. f \in [DOMAIN src -> T] /\ \A t \in T : \E i \in DOMAIN src : f[i] = t
  OBVIOUS
<1>2. IsFiniteSet(T)
  <2> HIDE DEF f, T
  <2> QED BY <1>1, FiniteImage
<1>3. IsFiniteSet(DOMAIN e \cup T)
  BY <1>2, FS_Union
<1> QED BY <1>3 DEF CompositeExtents

\* The counts the refcount triggers subtract.
LEMMA CountsNat ==
    ASSUME UploadOK, NEW R, NEW c
    PROVE  /\ R \subseteq DOMAIN chunk => CountChunks(R, c) \in Nat
           /\ R \subseteq DOMAIN part => CountParts(R, c) \in Nat
<1>1. ASSUME R \subseteq DOMAIN chunk PROVE CountChunks(R, c) \in Nat
  <2>1. {r \in R : chunk[r] = c} \in SUBSET DOMAIN chunk
    BY <1>1
  <2> QED BY <2>1, FS_Subset, FS_CardinalityType DEF UploadOK, CountChunks
<1>2. ASSUME R \subseteq DOMAIN part PROVE CountParts(R, c) \in Nat
  <2>1. {r \in R : part[r] = c} \in SUBSET DOMAIN part
    BY <1>2
  <2> QED BY <2>1, FS_Subset, FS_CardinalityType DEF UploadOK, CountParts
<1> QED BY <1>1, <1>2

\* Dropping uploads keeps the blob table well formed.
LEMMA ReleaseUploadsTable ==
    ASSUME UploadOK, NEW b, NEW U, IsBlobTable(b)
    PROVE  IsBlobTable(ReleaseUploads(b, U))
<1> DEFINE d == [c \in DOMAIN b |-> 0 - CountChunks(UploadChunks(U), c)
                                      - CountParts(UploadParts(U), c)]
<1>1. ReleaseUploads(b, U)
        = [c \in DOMAIN b |-> BlobRow(b[c].kind, b[c].refcount + d[c], b[c].height)]
  BY DEF ReleaseUploads, Adjust
<1>2. ASSUME NEW c \in DOMAIN b PROVE d[c] \in Int
  <2>1. CountChunks(UploadChunks(U), c) \in Nat /\ CountParts(UploadParts(U), c) \in Nat
    BY CountsNat DEF UploadChunks, UploadParts
  <2> QED BY <2>1
<1> HIDE DEF d
<1> QED BY <1>1, <1>2, AdjustedTable

\* A delete keeps the blob table well formed.
LEMMA DeleteOneTable ==
    ASSUME NEW s, NEW b, NEW k, NEW ver, IsBlobTable(s.blob)
    PROVE  IsBlobTable(DeleteOne(s, b, k, ver).blob)
<1> DEFINE gone == {v \in Versions(s.object, b, k) : ver = {v}}
           lost(c) == {v \in gone : s.object[v].blob = {c}}
           d == [c \in DOMAIN s.blob |-> 0 - Cardinality(lost(c))]
           t == DeleteOne(s, b, k, ver)
<1>1. CASE ver = {}
  BY <1>1 DEF DeleteOne
<1>2. CASE ver # {}
  <2>1. t.blob = [c \in DOMAIN s.blob |->
                    BlobRow(s.blob[c].kind, s.blob[c].refcount + d[c], s.blob[c].height)]
    BY <1>2 DEF DeleteOne, Adjust
  <2>2. ASSUME NEW c \in DOMAIN s.blob PROVE d[c] \in Int
    <3>1. PICK v : v \in ver
      BY <1>2
    <3>2. lost(c) \in SUBSET {v}
      BY <3>1
    <3>3. IsFiniteSet({v})
      BY FS_Singleton
    <3> HIDE DEF lost
    <3>4. Cardinality(lost(c)) \in Nat
      BY <3>2, <3>3, FS_Subset, FS_CardinalityType
    <3> QED BY <3>4
  <2> HIDE DEF d, t
  <2>3. IsBlobTable(t.blob)
    BY <2>1, <2>2, AdjustedTable
  <2> QED BY <2>3 DEF t
<1> QED BY <1>1, <1>2

-----------------------------------------------------------------------------
(* Blob and extent tables under every step.                                *)

\* The staged chunks of a part form a finite list.
LEMMA StagedFinite ==
    ASSUME UploadOK, NEW u, NEW p
    PROVE  IsFiniteSet(DOMAIN Staged(u, p))
<1>1. PartChunks(u, p) \in SUBSET DOMAIN chunk
  BY DEF PartChunks
<1>2. Cardinality(PartChunks(u, p)) \in Nat
  BY <1>1, FS_Subset, FS_CardinalityType DEF UploadOK
<1>3. IsFiniteSet(1 .. Cardinality(PartChunks(u, p)))
  BY <1>2, FS_Interval
<1> QED BY <1>3 DEF Staged

\* put_part cuts a body into a finite list of chunks.
LEMMA PiecesFinite ==
    ASSUME NEW c \in PartBody
    PROVE  IsFiniteSet(DOMAIN Pieces(c))
<1>1. Len(c) \in Nat
  BY BodyAssumption
<1>2. ChunkSize \in Nat \ {0}
  BY BoundsAssumption
<1>3. (IF c = <<>> THEN 1 ELSE (Len(c) - 1) \div ChunkSize + 1) \in Int
  BY <1>1, <1>2
<1>4. IsFiniteSet(1 .. (IF c = <<>> THEN 1 ELSE (Len(c) - 1) \div ChunkSize + 1))
  BY <1>3, FS_Interval
<1> QED BY <1>4 DEF Pieces

\* What a staging operation on part p adds to and takes from a blob's count.
LEMMA StagingDelta ==
    ASSUME UploadOK, NEW x, NEW c, NEW R \in SUBSET DOMAIN chunk, NEW P \in SUBSET DOMAIN part
    PROVE  /\ One(x = c) - CountParts(P, x) - CountChunks(R, x) \in Int
           /\ One(x = c) - CountChunks(R, x) - CountParts(P, x) \in Int
           /\ 0 - CountChunks(R, x) - CountParts(P, x) \in Int
           /\ One(x = c) \in Int
<1>1. CountChunks(R, x) \in Nat /\ CountParts(P, x) \in Nat
  BY CountsNat
<1>2. One(x = c) \in Int
  BY DEF One
<1> QED BY <1>1, <1>2

\* The blob and extent tables through every action.
LEMMA BlobPreserved ==
    ASSUME TypeOK, [Next]_vars
    PROVE  BlobOK'
<1> USE DEF Adjust
<1>1. IsBlobTable(blob) /\ IsFiniteSet(DOMAIN extent) /\ UploadOK /\ ObjectOK
  BY DEF TypeOK, BlobOK, IsBlobTable
<1>2. ASSUME IsBlobTable(blob'), IsFiniteSet(DOMAIN extent')
      PROVE  BlobOK'
  BY <1>2 DEF BlobOK, IsBlobTable
<1>3. CASE UNCHANGED <<blob, extent>>
  BY <1>1, <1>2, <1>3
<1>4. ASSUME NEW U, blob' = ReleaseUploads(blob, U), UNCHANGED extent
      PROVE  BlobOK'
  BY <1>1, <1>2, <1>4, ReleaseUploadsTable
<1>5. ASSUME NEW a, NEW u, NEW b, NEW c, NEW e, PublishUpload(a, u, b, c, e), IsBlobTable(b)
      PROVE  IsBlobTable(blob')
  <2> DEFINE r == ReleaseUploads(b, {u})
             d == [x \in DOMAIN r |-> One(x = c)]
  <2>1. blob' = [x \in DOMAIN r |-> BlobRow(r[x].kind, r[x].refcount + d[x], r[x].height)]
    BY <1>5 DEF PublishUpload
  <2>2. IsBlobTable(r)
    BY <1>1, <1>5, ReleaseUploadsTable
  <2>3. \A x \in DOMAIN r : d[x] \in Int
    BY DEF One
  <2> HIDE DEF r, d
  <2> QED BY <2>1, <2>2, <2>3, AdjustedTable
<1>6. ASSUME NEW s, Commit(s), IsBlobTable(s.blob)
      PROVE  BlobOK'
  BY <1>1, <1>2, <1>6 DEF Commit
<1>7. ASSUME NEW b, NEW k, NEW v, NEW cd, CommitReference(b, k, v, cd)
      PROVE  BlobOK'
  <2> DEFINE d == [x \in DOMAIN blob |-> One(object[v].blob = {x})]
  <2>1. blob' = [x \in DOMAIN blob |->
                    BlobRow(blob[x].kind, blob[x].refcount + d[x], blob[x].height)]
    BY <1>7 DEF CommitReference
  <2>2. \A x \in DOMAIN blob : d[x] \in Int
    BY DEF One
  <2>3. UNCHANGED extent
    BY <1>7 DEF CommitReference
  <2> HIDE DEF d
  <2> QED BY <1>1, <1>2, <2>1, <2>2, <2>3, AdjustedTable
<1>8. CASE BucketStep
  BY <1>3, <1>4, <1>8 DEF BucketStep, CreateBucket, DeleteBucket
<1>9. CASE ObjectStep
  <2>1. ASSUME NEW a, NEW n, NEW k, NEW c, NEW cd, Put(a, n, k, c, cd)
        PROVE  BlobOK'
    <3> DEFINE b == EnsureBlob(blob, c)
               d == [x \in DOMAIN b |-> One(x = c)]
    <3>1. blob' = [x \in DOMAIN b |-> BlobRow(b[x].kind, b[x].refcount + d[x], b[x].height)]
      BY <2>1 DEF Put
    <3>2. IsBlobTable(b)
      BY <1>1, EnsureBlobTable
    <3>3. \A x \in DOMAIN b : d[x] \in Int
      BY DEF One
    <3>4. UNCHANGED extent
      BY <2>1 DEF Put
    <3> HIDE DEF b, d
    <3> QED BY <1>1, <1>2, <3>1, <3>2, <3>3, <3>4, AdjustedTable
  <2>2. ASSUME NEW a, NEW n, NEW k, NEW ver, Delete(a, n, k, ver)
        PROVE  BlobOK'
    <3>1. IsBlobTable(Tables.blob)
      BY <1>1 DEF Tables
    <3> QED BY <1>6, <2>2, <3>1, DeleteOneTable DEF Delete
  <2>3. ASSUME NEW a, NEW n, NEW k, NEW ver, NEW k2, NEW ver2,
               DeleteMany(a, n, k, ver, k2, ver2)
        PROVE  BlobOK'
    <3>1. IsBlobTable(Tables.blob)
      BY <1>1 DEF Tables
    <3> QED BY <1>6, <2>3, <3>1, DeleteOneTable DEF DeleteMany
  <2>4. ASSUME NEW a, NEW n, NEW k, NEW ver, NEW n2, NEW k2, NEW match, NEW cd,
               Copy(a, n, k, ver, n2, k2, match, cd)
        PROVE  BlobOK'
    BY <1>7, <2>4 DEF Copy
  <2>5. ASSUME NEW a, NEW n, NEW k, NEW v, NEW match, RestoreVersion(a, n, k, v, match)
        PROVE  BlobOK'
    BY <1>7, <2>5 DEF RestoreVersion
  <2> QED BY <1>9, <2>1, <2>2, <2>3, <2>4, <2>5 DEF ObjectStep
<1>10. CASE ForkStep
  <2>1. PICK a \in Role, n \in BucketName, n2 \in BucketName : Fork(a, n, n2)
    BY <1>10 DEF ForkStep
  <2> DEFINE rows == {v \in latest : object[v].bucket = bucket[n].id}
             own(x) == {v \in rows : object[v].blob = {x}}
             d == [x \in DOMAIN blob |-> Cardinality(own(x))]
  <2>2. blob' = [x \in DOMAIN blob |->
                    BlobRow(blob[x].kind, blob[x].refcount + d[x], blob[x].height)]
    BY <2>1 DEF Fork
  <2>3. ASSUME NEW x \in DOMAIN blob PROVE d[x] \in Int
    <3>1. own(x) \subseteq latest
      OBVIOUS
    <3>2. Cardinality(own(x)) \in Nat
      BY <1>1, <3>1, ForkRowsFinite
    <3> QED BY <3>2
  <2>4. UNCHANGED extent
    BY <2>1 DEF Fork
  <2> HIDE DEF d
  <2> QED BY <1>1, <1>2, <2>2, <2>3, <2>4, AdjustedTable
<1>11. CASE UploadStep
  <2>1. ASSUME NEW a, NEW u, NEW p, BeginPart(a, u, p)
        PROVE  BlobOK'
    <3> DEFINE R == PartChunks(u, p)
               P == {<<u, p>>} \cap DOMAIN part
               d == [x \in DOMAIN blob |-> 0 - CountChunks(R, x) - CountParts(P, x)]
    <3>1. blob' = [x \in DOMAIN blob |->
                    BlobRow(blob[x].kind, blob[x].refcount + d[x], blob[x].height)]
      BY <2>1 DEF BeginPart
    <3>2. R \in SUBSET DOMAIN chunk /\ P \in SUBSET DOMAIN part
      BY DEF PartChunks
    <3> HIDE DEF R, P
    <3>3. \A x \in DOMAIN blob : d[x] \in Int
      BY <1>1, <3>2, StagingDelta
    <3>4. UNCHANGED extent
      BY <2>1 DEF BeginPart
    <3> HIDE DEF d
    <3> QED BY <1>1, <1>2, <3>1, <3>3, <3>4, AdjustedTable
  <2>2. ASSUME NEW a, NEW u, NEW p, NEW s, NEW c, PutChunk(a, u, p, s, c)
        PROVE  BlobOK'
    <3> DEFINE R == {<<u, p, s>>} \cap DOMAIN chunk
               P == {<<u, p>>} \cap DOMAIN part
               b == EnsureBlob(blob, c)
               d == [x \in DOMAIN b |-> One(x = c) - CountChunks(R, x) - CountParts(P, x)]
    <3>1. blob' = [x \in DOMAIN b |-> BlobRow(b[x].kind, b[x].refcount + d[x], b[x].height)]
      BY <2>2 DEF PutChunk
    <3>2. R \in SUBSET DOMAIN chunk /\ P \in SUBSET DOMAIN part
      OBVIOUS
    <3> HIDE DEF R, P
    <3>3. IsBlobTable(b)
      BY <1>1, EnsureBlobTable
    <3> HIDE DEF b
    <3>4. \A x \in DOMAIN b : d[x] \in Int
      BY <1>1, <3>2, StagingDelta
    <3>5. UNCHANGED extent
      BY <2>2 DEF PutChunk
    <3> HIDE DEF d
    <3> QED BY <1>1, <1>2, <3>1, <3>3, <3>4, <3>5, AdjustedTable
  <2>3. ASSUME NEW a, NEW u, NEW p, CompletePart(a, u, p)
        PROVE  BlobOK'
    <3> DEFINE R == PartChunks(u, p)
               P == {<<u, p>>} \cap DOMAIN part
               src == Staged(u, p)
               c == FlattenSeq(src)
               b == EnsureComposite(blob, c, src)
               d == [x \in DOMAIN b |-> One(x = c) - CountParts(P, x) - CountChunks(R, x)]
    <3>1. /\ blob' = [x \in DOMAIN b |->
                        BlobRow(b[x].kind, b[x].refcount + d[x], b[x].height)]
          /\ extent' = CompositeExtents(blob, extent, c, src)
      BY <2>3 DEF CompletePart
    <3>2. R \in SUBSET DOMAIN chunk /\ P \in SUBSET DOMAIN part
      BY DEF PartChunks
    <3>3. IsFiniteSet(DOMAIN src)
      BY <1>1, StagedFinite
    <3> HIDE DEF R, P, src, c
    <3>4. IsBlobTable(b)
      BY <1>1, <3>3, EnsureCompositeTable
    <3>5. IsFiniteSet(DOMAIN extent')
      BY <1>1, <3>1, <3>3, CompositeExtentsFinite
    <3> HIDE DEF b
    <3>6. \A x \in DOMAIN b : d[x] \in Int
      BY <1>1, <3>2, StagingDelta
    <3> HIDE DEF d
    <3> QED BY <1>2, <3>1, <3>4, <3>5, <3>6, AdjustedTable
  <2>4. ASSUME NEW a, NEW u, NEW p, NEW c \in PartBody, PutPart(a, u, p, c)
        PROVE  BlobOK'
    <3> DEFINE R == PartChunks(u, p)
               P == {<<u, p>>} \cap DOMAIN part
               src == Pieces(c)
               pieces == EnsureBlobs(blob, src)
               b == EnsureComposite(pieces, c, src)
               d == [x \in DOMAIN b |-> One(x = c) - CountParts(P, x) - CountChunks(R, x)]
    <3>1. /\ blob' = [x \in DOMAIN b |->
                        BlobRow(b[x].kind, b[x].refcount + d[x], b[x].height)]
          /\ extent' = CompositeExtents(pieces, extent, c, src)
      BY <2>4 DEF PutPart
    <3>2. R \in SUBSET DOMAIN chunk /\ P \in SUBSET DOMAIN part
      BY DEF PartChunks
    <3>3. IsFiniteSet(DOMAIN src)
      BY PiecesFinite
    <3> HIDE DEF R, P, src
    <3>4. IsBlobTable(b)
      BY <1>1, <3>3, EnsureBlobsTable, EnsureCompositeTable
    <3> HIDE DEF pieces
    <3>5. IsFiniteSet(DOMAIN extent')
      BY <1>1, <3>1, <3>3, CompositeExtentsFinite
    <3> HIDE DEF b
    <3>6. \A x \in DOMAIN b : d[x] \in Int
      BY <1>1, <3>2, StagingDelta
    <3> HIDE DEF d
    <3> QED BY <1>2, <3>1, <3>4, <3>5, <3>6, AdjustedTable
  <2>5. ASSUME NEW a, NEW u, CompleteUpload(a, u)
        PROVE  BlobOK'
    <3> DEFINE src == Staged(u, 0)
               c == FlattenSeq(src)
    <3>1. IsFiniteSet(DOMAIN src)
      BY <1>1, StagedFinite
    <3>2. /\ extent' = extent \/ extent' = CompositeExtents(blob, extent, c, src)
          /\ \/ PublishUpload(a, u, EnsureBlob(blob, c), c, Etag(c))
             \/ PublishUpload(a, u, EnsureComposite(blob, c, src), c, Etag(c))
      BY <2>5 DEF CompleteUpload
    <3> HIDE DEF src, c
    <3>3. IsFiniteSet(DOMAIN extent')
      BY <1>1, <3>1, <3>2, CompositeExtentsFinite
    <3>4. IsBlobTable(EnsureBlob(blob, c)) /\ IsBlobTable(EnsureComposite(blob, c, src))
      BY <1>1, <3>1, EnsureBlobTable, EnsureCompositeTable
    <3> QED BY <1>2, <1>5, <3>2, <3>3, <3>4
  <2>6. ASSUME NEW a, NEW u, WorkerCompleteUpload(a, u, Staged(u, 0))
        PROVE  BlobOK'
    <3> DEFINE src == Staged(u, 0)
               c == FlattenSeq(src)
    <3>1. IsFiniteSet(DOMAIN src)
      BY <1>1, StagedFinite
    <3>2. \/ CompleteUpload(a, u)
          \/ /\ extent' = CompositeExtents(blob, extent, c, src)
             /\ PublishUpload(a, u, EnsureComposite(blob, c, src), c, Etag(c))
      BY <2>6 DEF WorkerCompleteUpload
    <3> HIDE DEF src, c
    <3>3. IsBlobTable(EnsureComposite(blob, c, src))
      BY <1>1, <3>1, EnsureCompositeTable
    <3> QED BY <1>1, <1>2, <1>5, <2>5, <3>1, <3>2, <3>3, CompositeExtentsFinite
  <2>7. ASSUME NEW a, NEW u, NEW nos \in BoundedSeq(PartNo, MaxParts),
               CompleteMultipartUpload(a, u, nos)
        PROVE  BlobOK'
    <3> DEFINE src == [i \in DOMAIN nos |-> part[<<u, nos[i]>>]]
               c == FlattenSeq(src)
    <3>1. IsFiniteSet(DOMAIN src)
      <4>1. PICK m \in 0 .. MaxParts : nos \in [1 .. m -> PartNo]
        BY DEF BoundedSeq, SeqOf
      <4>2. IsFiniteSet(1 .. m)
        BY FS_Interval, BoundsAssumption
      <4> QED BY <4>1, <4>2
    <3>2. /\ extent' = CompositeExtents(blob, extent, c, src)
          /\ PublishUpload(a, u, EnsureComposite(blob, c, src), c, MultipartEtag(src))
      BY <2>7 DEF CompleteMultipartUpload
    <3> HIDE DEF src, c
    <3>3. IsBlobTable(EnsureComposite(blob, c, src))
      BY <1>1, <3>1, EnsureCompositeTable
    <3> QED BY <1>1, <1>2, <1>5, <3>1, <3>2, <3>3, CompositeExtentsFinite
  <2>8. ASSUME NEW a, NEW u, AbortUpload(a, u) PROVE BlobOK'
    BY <1>4, <2>8 DEF AbortUpload
  <2>9. ASSUME NEW a, NEW n, NEW k, NEW u, NEW multi, NEW cd, NEW expected,
               BeginUpload(a, n, k, u, multi, cd, expected)
        PROVE  BlobOK'
    BY <1>3, <2>9 DEF BeginUpload
  <2>10. ASSUME NEW a, NEW u, RenewUpload(a, u) PROVE BlobOK'
    BY <1>3, <2>10 DEF RenewUpload
  <2> QED BY <1>11, <2>1, <2>2, <2>3, <2>4, <2>5, <2>6, <2>7, <2>8, <2>9, <2>10
        DEF UploadStep
<1>12. CASE TimeStep
  BY <1>3, <1>12 DEF TimeStep, LeaseExpires, StagingAges
<1>13. CASE GcStep
  <2>1. ASSUME NEW U, GcPendingUploads(U) PROVE BlobOK'
    BY <1>4, <2>1 DEF GcPendingUploads
  <2>2. ASSUME NEW D, GcBlobs(D) PROVE BlobOK'
    <3> DEFINE own(c) == {e \in DOMAIN extent : e[1] \in D /\ extent[e] = c}
               b == Restrict(blob, DOMAIN blob \ D)
               d == [x \in DOMAIN b |-> 0 - Cardinality(own(x))]
    <3>1. blob' = [x \in DOMAIN b |-> BlobRow(b[x].kind, b[x].refcount + d[x], b[x].height)]
      BY <2>2 DEF GcBlobs
    <3>2. IsBlobTable(b)
      <4>1. DOMAIN b \in SUBSET DOMAIN blob /\ \A x \in DOMAIN b : b[x] = blob[x]
        BY DEF Restrict
      <4> HIDE DEF b
      <4> QED BY <1>1, <4>1, FS_Subset DEF IsBlobTable
    <3>3. ASSUME NEW x \in DOMAIN b PROVE d[x] \in Int
      <4>1. own(x) \in SUBSET DOMAIN extent
        OBVIOUS
      <4>2. Cardinality(own(x)) \in Nat
        BY <1>1, <4>1, FS_Subset, FS_CardinalityType
      <4> QED BY <4>2
    <3>4. IsFiniteSet(DOMAIN extent')
      <4>1. DOMAIN extent' \in SUBSET DOMAIN extent
        BY <2>2 DEF GcBlobs, Restrict
      <4> QED BY <1>1, <4>1, FS_Subset
    <3> HIDE DEF b, d
    <3> QED BY <1>1, <1>2, <3>1, <3>2, <3>3, <3>4, AdjustedTable
  <2> QED BY <1>13, <2>1, <2>2 DEF GcStep
<1>14. CASE UNCHANGED vars
  BY <1>3, <1>14 DEF vars
<1> QED BY <1>8, <1>9, <1>10, <1>11, <1>12, <1>13, <1>14 DEF Next

-----------------------------------------------------------------------------
(* Upload tables under every step.                                         *)

\* The shape of the staging tables.
StagingOK ==
    /\ IsFiniteSet(DOMAIN chunk) /\ IsFiniteSet(DOMAIN part)
    /\ DOMAIN chunk \subseteq UploadId \X (PartNo \cup {0}) \X (0 .. MaxChunkSeq)
    /\ DOMAIN part \subseteq UploadId \X PartNo

\* The staging tables through every action.
LEMMA UploadPreserved ==
    ASSUME TypeOK, [Next]_vars
    PROVE  UploadOK'
<1> DEFINE RowOK(r) == r.bucket \in Nat /\ r.bucket < bucketSeq /\ r.key \in Key /\ r.cond \in Cond
<1>1. UploadOK /\ StagingOK /\ bucketSeq \in Nat /\ \A u \in DOMAIN upload : RowOK(upload[u])
  BY DEF TypeOK, UploadOK, StagingOK, BucketOK
<1>2. bucketSeq' \in Nat /\ bucketSeq <= bucketSeq'
  BY BucketPreserved
<1>3. ASSUME DOMAIN upload' \subseteq UploadId, \A u \in DOMAIN upload' : RowOK(upload'[u]),
             leased' \subseteq DOMAIN upload', idle' \subseteq DOMAIN upload', StagingOK'
      PROVE  UploadOK'
  <2>1. ASSUME NEW u \in DOMAIN upload'
        PROVE  /\ upload'[u].bucket \in Nat /\ upload'[u].bucket < bucketSeq'
               /\ upload'[u].key \in Key /\ upload'[u].cond \in Cond
    BY <1>1, <1>2, <1>3
  <2> QED BY <1>3, <2>1 DEF UploadOK, StagingOK
<1>4. CASE UNCHANGED uploadVars
  BY <1>1, <1>3, <1>4 DEF uploadVars, UploadOK, StagingOK
<1>5. ASSUME NEW U, DropUploads(U)
      PROVE  UploadOK'
  <2>1. /\ DOMAIN upload' = DOMAIN upload \ U
        /\ \A u \in DOMAIN upload' : upload'[u] = upload[u]
        /\ leased' = leased \ U /\ idle' = idle \ U
        /\ DOMAIN chunk' \in SUBSET DOMAIN chunk /\ DOMAIN part' \in SUBSET DOMAIN part
    BY <1>5 DEF DropUploads, Restrict
  <2>2. StagingOK'
    BY <1>1, <2>1, FS_Subset DEF StagingOK
  <2>3. leased' \subseteq DOMAIN upload' /\ idle' \subseteq DOMAIN upload'
    BY <1>1, <2>1 DEF UploadOK
  <2>4. DOMAIN upload' \subseteq UploadId /\ \A u \in DOMAIN upload' : RowOK(upload'[u])
    BY <1>1, <2>1 DEF UploadOK
  <2> QED BY <1>3, <2>2, <2>3, <2>4
<1>6. ASSUME NEW a, NEW u, Mutates(a, u), StagingOK'
      PROVE  UploadOK'
  <2>1. u \in DOMAIN upload /\ upload' = upload
    BY <1>6 DEF Mutates, ForUpdate
  <2>2. leased' \subseteq DOMAIN upload' /\ idle' \subseteq DOMAIN upload'
    BY <1>1, <1>6, <2>1 DEF Mutates, UploadOK
  <2> QED BY <1>1, <1>3, <1>6, <2>1, <2>2 DEF UploadOK
<1>7. CASE BucketStep
  BY <1>4, <1>5, <1>7 DEF BucketStep, CreateBucket, DeleteBucket
<1>8. CASE ObjectStep
  <2>1. ASSUME NEW a, NEW n, NEW k, NEW c, NEW cd, Put(a, n, k, c, cd)
        PROVE  UNCHANGED uploadVars
    BY <2>1 DEF Put
  <2>2. ASSUME NEW s, Commit(s) PROVE UNCHANGED uploadVars
    BY <2>2 DEF Commit
  <2>3. ASSUME NEW b, NEW k, NEW v, NEW cd, CommitReference(b, k, v, cd)
        PROVE  UNCHANGED uploadVars
    BY <2>3 DEF CommitReference
  <2>4. ASSUME NEW a, NEW n, NEW k, NEW ver, Delete(a, n, k, ver)
        PROVE  UNCHANGED uploadVars
    BY <2>2, <2>4 DEF Delete
  <2>5. ASSUME NEW a, NEW n, NEW k, NEW ver, NEW k2, NEW ver2,
               DeleteMany(a, n, k, ver, k2, ver2)
        PROVE  UNCHANGED uploadVars
    BY <2>2, <2>5 DEF DeleteMany
  <2>6. ASSUME NEW a, NEW n, NEW k, NEW ver, NEW n2, NEW k2, NEW match, NEW cd,
               Copy(a, n, k, ver, n2, k2, match, cd)
        PROVE  UNCHANGED uploadVars
    BY <2>3, <2>6 DEF Copy
  <2>7. ASSUME NEW a, NEW n, NEW k, NEW v, NEW match, RestoreVersion(a, n, k, v, match)
        PROVE  UNCHANGED uploadVars
    BY <2>3, <2>7 DEF RestoreVersion
  <2> QED BY <1>4, <1>8, <2>1, <2>4, <2>5, <2>6, <2>7 DEF ObjectStep
<1>9. CASE ForkStep
  BY <1>4, <1>9 DEF ForkStep, Fork
<1>10. CASE UploadStep
  <2>1. ASSUME NEW a, NEW n, NEW k \in Key, NEW u \in UploadId, NEW multi,
               NEW cd \in Cond, NEW expected, BeginUpload(a, n, k, u, multi, cd, expected)
        PROVE  UploadOK'
    <3>1. /\ DOMAIN upload' = DOMAIN upload \cup {u} /\ u \notin DOMAIN upload
          /\ upload'[u].bucket = bucket[n].id /\ upload'[u].key = k /\ upload'[u].cond = cd
          /\ \A w \in DOMAIN upload : upload'[w] = upload[w]
          /\ leased' = leased \cup {u} /\ idle' = idle \ {u}
          /\ UNCHANGED <<chunk, part>> /\ Visible(a, n)
      BY <2>1 DEF BeginUpload
    <3>2. bucket[n].id \in Nat /\ bucket[n].id < bucketSeq
      BY <3>1 DEF Visible, TypeOK, BucketOK
    <3>3. StagingOK'
      BY <1>1, <3>1 DEF StagingOK
    <3>4. leased' \subseteq DOMAIN upload' /\ idle' \subseteq DOMAIN upload'
      BY <1>1, <3>1 DEF UploadOK
    <3>5. DOMAIN upload' \subseteq UploadId /\ \A w \in DOMAIN upload' : RowOK(upload'[w])
      BY <1>1, <3>1, <3>2 DEF UploadOK
    <3> QED BY <1>3, <3>3, <3>4, <3>5
  <2>2. ASSUME NEW a, NEW u, RenewUpload(a, u)
        PROVE  UploadOK'
    <3>1. u \in DOMAIN upload /\ leased' = leased \cup {u}
          /\ UNCHANGED <<upload, idle, chunk, part>>
      BY <2>2 DEF RenewUpload, ForUpdate
    <3> QED BY <1>1, <1>3, <3>1 DEF UploadOK, StagingOK
  <2>3. ASSUME NEW a, NEW u, NEW p, BeginPart(a, u, p)
        PROVE  UploadOK'
    <3>1. /\ Mutates(a, u)
          /\ DOMAIN chunk' \in SUBSET DOMAIN chunk /\ DOMAIN part' \in SUBSET DOMAIN part
      BY <2>3 DEF BeginPart, Restrict
    <3>2. StagingOK'
      BY <1>1, <3>1, FS_Subset DEF StagingOK
    <3> QED BY <1>6, <3>1, <3>2
  <2>4. ASSUME NEW a, NEW u \in UploadId, NEW p \in PartNo \cup {0},
               NEW s \in 0 .. MaxChunkSeq, NEW c, PutChunk(a, u, p, s, c)
        PROVE  UploadOK'
    <3>1. /\ Mutates(a, u)
          /\ DOMAIN chunk' = DOMAIN chunk \cup {<<u, p, s>>}
          /\ DOMAIN part' \in SUBSET DOMAIN part
      BY <2>4 DEF PutChunk, Restrict
    <3>2. IsFiniteSet(DOMAIN chunk') /\ IsFiniteSet(DOMAIN part')
      BY <1>1, <3>1, FS_Subset, FS_AddElement DEF StagingOK
    <3>3. StagingOK'
      BY <1>1, <3>1, <3>2 DEF StagingOK
    <3> QED BY <1>6, <3>1, <3>3
  <2>5. ASSUME NEW a, NEW u \in UploadId, NEW p \in PartNo, NEW c,
               CompletePart(a, u, p) \/ PutPart(a, u, p, c)
        PROVE  UploadOK'
    <3>1. /\ Mutates(a, u)
          /\ DOMAIN chunk' \in SUBSET DOMAIN chunk
          /\ DOMAIN part' = DOMAIN part \cup {<<u, p>>}
      BY <2>5 DEF CompletePart, PutPart, Restrict
    <3>2. IsFiniteSet(DOMAIN chunk') /\ IsFiniteSet(DOMAIN part')
      <4>1. IsFiniteSet(DOMAIN part \cup {<<u, p>>})
        BY <1>1, FS_AddElement DEF StagingOK
      <4> QED BY <1>1, <3>1, <4>1, FS_Subset DEF StagingOK
    <3>3. StagingOK'
      BY <1>1, <3>1, <3>2 DEF StagingOK
    <3> QED BY <1>6, <3>1, <3>3
  <2>6. ASSUME NEW a, NEW u,
               \/ CompleteUpload(a, u) \/ WorkerCompleteUpload(a, u, Staged(u, 0))
               \/ \E nos \in BoundedSeq(PartNo, MaxParts) : CompleteMultipartUpload(a, u, nos)
               \/ AbortUpload(a, u)
        PROVE  UploadOK'
    <3>1. ASSUME NEW b, NEW c, NEW e, PublishUpload(a, u, b, c, e) PROVE UploadOK'
      BY <1>5, <3>1 DEF PublishUpload
    <3> QED BY <1>5, <2>6, <3>1 DEF CompleteUpload, WorkerCompleteUpload,
          CompleteMultipartUpload, AbortUpload
  <2> QED BY <1>10, <2>1, <2>2, <2>3, <2>4, <2>5, <2>6 DEF UploadStep
<1>11. CASE TimeStep
  <2>1. ASSUME NEW u \in UploadId, LeaseExpires(u) PROVE UploadOK'
    BY <1>1, <1>3, <2>1 DEF LeaseExpires, UploadOK, StagingOK
  <2>2. ASSUME NEW u \in UploadId, StagingAges(u) PROVE UploadOK'
    BY <1>1, <1>3, <2>2 DEF StagingAges, UploadOK, StagingOK
  <2> QED BY <1>11, <2>1, <2>2 DEF TimeStep
<1>12. CASE GcStep
  BY <1>4, <1>5, <1>12 DEF GcStep, GcPendingUploads, GcBlobs
<1>13. CASE UNCHANGED vars
  BY <1>4, <1>13 DEF vars
<1> QED BY <1>7, <1>8, <1>9, <1>10, <1>11, <1>12, <1>13 DEF Next

-----------------------------------------------------------------------------
(* The theorems.                                                           *)

\* The rows of pgs3's tables keep their shape, and is_latest marks exactly the
\* newest version of every key, for any number of buckets, keys, roles,
\* uploads and versions.  Neither half is inductive alone: removing a version
\* relies on the order, the order on the ids of rows to come.
THEOREM HistoryInvariant == Spec => [](TypeOK /\ LatestIsNewest)
<1>1. Init => TypeOK /\ LatestIsNewest
  <2> SUFFICES ASSUME Init PROVE TypeOK /\ LatestIsNewest
    OBVIOUS
  <2>1. IsFiniteSet({})
    BY FS_EmptySet
  <2> QED BY <2>1 DEF Init, Empty, TypeOK, BucketOK, ObjectOK, BlobOK, UploadOK,
        LatestIsNewest, NewestIsLatest
<1>2. TypeOK /\ LatestIsNewest /\ [Next]_vars => (TypeOK /\ LatestIsNewest)'
  <2> SUFFICES ASSUME TypeOK, LatestIsNewest, [Next]_vars
               PROVE  TypeOK' /\ LatestIsNewest'
    OBVIOUS
  <2> QED BY BucketPreserved, ObjectPreserved, BlobPreserved, UploadPreserved DEF TypeOK
<1> QED BY <1>1, <1>2, PTL DEF Spec

\* Every table row keeps the shape its CREATE TABLE gives it.
THEOREM TypeCorrect == Spec => []TypeOK
BY HistoryInvariant, PTL

\* get() without a version id reads the newest version, in every state.
THEOREM NewestIsAlwaysLatest == Spec => []LatestIsNewest
BY HistoryInvariant, PTL

\* Published versions are never rewritten and never inserted behind others.
THEOREM HistoryNeverRewritten == Spec => HistoryAppendOnly
<1>1. TypeOK /\ LatestIsNewest /\ [Next]_vars
        => [\A v \in DOMAIN object' :
                IF v \in DOMAIN object
                THEN object'[v] = object[v]
                ELSE \A w \in Versions(object, object'[v].bucket, object'[v].key) : w < v]_vars
  <2> SUFFICES ASSUME TypeOK, LatestIsNewest, [Next]_vars, NEW v \in DOMAIN object'
               PROVE  IF v \in DOMAIN object
                      THEN object'[v] = object[v]
                      ELSE \A w \in Versions(object, object'[v].bucket, object'[v].key) : w < v
    OBVIOUS
  <2>1. \/ v \in DOMAIN object /\ object'[v] = object[v]
        \/ v \notin DOMAIN object /\ versionSeq <= v
    BY ObjectPreserved DEF Appends
  <2>2. v \in Nat
    BY ObjectPreserved DEF ObjectOK
  <2> QED BY <2>1, <2>2 DEF TypeOK, ObjectOK, Versions
<1> QED BY <1>1, HistoryInvariant, PTL DEF Spec, HistoryAppendOnly

-----------------------------------------------------------------------------
(* Counting the rows that own a blob.                                      *)

\* Owners of blob c in a table whose rows are blobs (chunks, parts, extents),
\* and in a table of object rows.
Held(f, c) == Cardinality({r \in DOMAIN f : f[r] = c})
HeldRows(o, c) == Cardinality({v \in DOMAIN o : o[v].blob = {c}})

\* The owners among the rows R.
HeldIn(f, R, c) == Cardinality({r \in R : f[r] = c})
HeldRowsIn(o, R, c) == Cardinality({v \in R : o[v].blob = {c}})

\* Owners are counted by a natural number.
LEMMA HeldNat ==
    ASSUME NEW f, NEW c, IsFiniteSet(DOMAIN f)
    PROVE  Held(f, c) \in Nat /\ HeldRows(f, c) \in Nat
<1>1. {r \in DOMAIN f : f[r] = c} \in SUBSET DOMAIN f
  OBVIOUS
<1>2. {v \in DOMAIN f : f[v].blob = {c}} \in SUBSET DOMAIN f
  OBVIOUS
<1> QED BY <1>1, <1>2, FS_Subset, FS_CardinalityType DEF Held, HeldRows

\* The part of a finite set that a subset does not take.
LEMMA SplitCardinality ==
    ASSUME NEW S, NEW T, IsFiniteSet(S), T \subseteq S
    PROVE  /\ Cardinality(S) \in Nat /\ Cardinality(T) \in Nat
           /\ Cardinality(S \ T) = Cardinality(S) - Cardinality(T)
<1>1. IsFiniteSet(T) /\ IsFiniteSet(S \ T)
  BY FS_Subset
<1>2. Cardinality(S) \in Nat /\ Cardinality(T) \in Nat /\ Cardinality(S \ T) \in Nat
  BY <1>1, FS_CardinalityType
<1>3. S \cap T = T
  OBVIOUS
<1>4. Cardinality(S \ T) = Cardinality(S) - Cardinality(S \cap T)
  BY FS_Difference
<1> QED BY <1>2, <1>3, <1>4

\* Deleting the rows R of a table of blobs.
LEMMA HeldAfterDelete ==
    ASSUME NEW f, NEW R, NEW x, IsFiniteSet(DOMAIN f), R \subseteq DOMAIN f
    PROVE  Held(Restrict(f, DOMAIN f \ R), x)
             = Held(f, x) - HeldIn(f, R, x)
<1> DEFINE S == {r \in DOMAIN f : f[r] = x}
           T == {r \in R : f[r] = x}
           g == Restrict(f, DOMAIN f \ R)
<1>1. IsFiniteSet(S)
  BY FS_Subset
<1>2. T \subseteq S
  OBVIOUS
<1>3. {r \in DOMAIN g : g[r] = x} = S \ T
  BY DEF Restrict
<1>4. Cardinality(S \ T) = Cardinality(S) - Cardinality(T)
  <2> HIDE DEF S, T
  <2> QED BY <1>1, <1>2, SplitCardinality
<1> QED BY <1>3, <1>4 DEF Held, HeldIn

\* Deleting the object rows R.
LEMMA HeldRowsAfterDelete ==
    ASSUME NEW o, NEW R, NEW x, IsFiniteSet(DOMAIN o), R \subseteq DOMAIN o
    PROVE  HeldRows(Restrict(o, DOMAIN o \ R), x)
             = HeldRows(o, x) - HeldRowsIn(o, R, x)
<1> DEFINE S == {v \in DOMAIN o : o[v].blob = {x}}
           T == {v \in R : o[v].blob = {x}}
           g == Restrict(o, DOMAIN o \ R)
<1>1. IsFiniteSet(S)
  BY FS_Subset
<1>2. T \subseteq S
  OBVIOUS
<1>3. {v \in DOMAIN g : g[v].blob = {x}} = S \ T
  BY DEF Restrict
<1>4. Cardinality(S \ T) = Cardinality(S) - Cardinality(T)
  <2> HIDE DEF S, T
  <2> QED BY <1>1, <1>2, SplitCardinality
<1> QED BY <1>3, <1>4 DEF HeldRows, HeldRowsIn

\* Inserting or replacing the row q of a table of blobs.
Upsert(f, q, c) == [r \in DOMAIN f \cup {q} |-> IF r = q THEN c ELSE f[r]]

\* The new owner counts, and the row it replaced no longer does.
LEMMA HeldAfterUpsert ==
    ASSUME NEW f, NEW q, NEW c, NEW x, IsFiniteSet(DOMAIN f)
    PROVE  Held(Upsert(f, q, c), x)
             = Held(f, x) + One(x = c) - HeldIn(f, {q} \cap DOMAIN f, x)
<1> DEFINE S == {r \in DOMAIN f : f[r] = x}
           T == {r \in {q} \cap DOMAIN f : f[r] = x}
           g == Upsert(f, q, c)
           G == {r \in DOMAIN g : g[r] = x}
<1>1. IsFiniteSet(S) /\ T \subseteq S
  BY FS_Subset
<1>2. /\ IsFiniteSet(S \ T) /\ Cardinality(S \ T) \in Nat
      /\ Cardinality(S) \in Nat /\ Cardinality(T) \in Nat
      /\ Cardinality(S \ T) = Cardinality(S) - Cardinality(T)
  <2> HIDE DEF S, T
  <2> QED BY <1>1, SplitCardinality, FS_Subset, FS_CardinalityType
<1>3. G = IF x = c THEN (S \ T) \cup {q} ELSE S \ T
  BY DEF Upsert
<1>4. q \notin S \ T
  OBVIOUS
<1>5. Cardinality((S \ T) \cup {q}) = Cardinality(S \ T) + 1
  <2> HIDE DEF S, T
  <2> QED BY <1>2, <1>4, FS_AddElement
<1>6. Cardinality(G) = Cardinality(S) + One(x = c) - Cardinality(T)
  <2> HIDE DEF S, T, G, g
  <2> QED BY <1>2, <1>3, <1>5 DEF One
<1> QED BY <1>6 DEF Held, HeldIn

\* Inserting an object row under a new version id.
LEMMA HeldRowsAfterInsert ==
    ASSUME NEW o, NEW v, NEW row, NEW x, IsFiniteSet(DOMAIN o), v \notin DOMAIN o
    PROVE  HeldRows(AddRow(o, v, row), x) = HeldRows(o, x) + One(row.blob = {x})
<1> DEFINE S == {w \in DOMAIN o : o[w].blob = {x}}
           n == AddRow(o, v, row)
           G == {w \in DOMAIN n : n[w].blob = {x}}
<1>1. IsFiniteSet(S) /\ v \notin S
  BY FS_Subset
<1>2. G = IF row.blob = {x} THEN S \cup {v} ELSE S
  BY DEF AddRow
<1>3. Cardinality(S) \in Nat /\ Cardinality(S \cup {v}) = Cardinality(S) + 1
  <2> HIDE DEF S
  <2> QED BY <1>1, FS_AddElement, FS_CardinalityType
<1>4. Cardinality(G) = Cardinality(S) + One(row.blob = {x})
  <2> HIDE DEF S, G, n
  <2> QED BY <1>2, <1>3 DEF One
<1> QED BY <1>4 DEF HeldRows

\* The extents of a new composite own every source once per place it takes.
LEMMA HeldAfterComposite ==
    ASSUME NEW b, NEW e, NEW c, NEW src, NEW x, IsFiniteSet(DOMAIN e), IsFiniteSet(DOMAIN src),
           DOMAIN src \subseteq Int, c \notin DOMAIN b, \A p \in DOMAIN e : p[1] # c
    PROVE  Held(CompositeExtents(b, e, c, src), x)
             = Held(e, x) + Cardinality({i \in DOMAIN src : src[i] = x})
<1> DEFINE S == {p \in DOMAIN e : e[p] = x}
           I == {i \in DOMAIN src : src[i] = x}
           T == {<<c, i - 1>> : i \in I}
           n == CompositeExtents(b, e, c, src)
           f == [i \in I |-> <<c, i - 1>>]
<1>1. /\ DOMAIN n = DOMAIN e \cup {<<c, i - 1>> : i \in DOMAIN src}
      /\ \A p \in DOMAIN e : n[p] = e[p]
      /\ \A i \in DOMAIN src : n[<<c, i - 1>>] = src[i]
  <2>1. n = [p \in DOMAIN e \cup {<<c, i - 1>> : i \in DOMAIN src} |->
                IF p \in DOMAIN e THEN e[p] ELSE src[p[2] + 1]]
    BY DEF CompositeExtents
  <2>2. ASSUME NEW i \in DOMAIN src
        PROVE  <<c, i - 1>> \notin DOMAIN e /\ <<c, i - 1>>[2] + 1 = i
    OBVIOUS
  <2> HIDE DEF n
  <2> QED BY <2>1, <2>2
<1>2. {p \in DOMAIN n : n[p] = x} = S \cup T
  <2> HIDE DEF n
  <2> QED BY <1>1
<1>3. S \cap T = {}
  OBVIOUS
<1>4. IsFiniteSet(S) /\ IsFiniteSet(I)
  BY FS_Subset
<1>5. f \in Bijection(I, T)
  <2>1. f \in [I -> T]
    OBVIOUS
  <2>2. \A i, j \in I : f[i] = f[j] => i = j
    OBVIOUS
  <2>3. \A t \in T : \E i \in I : f[i] = t
    OBVIOUS
  <2> HIDE DEF f, T, I
  <2> QED BY <2>1, <2>2, <2>3 DEF Bijection, Injection, Surjection, IsInjective
<1> HIDE DEF S, I, T, n, f
<1>6. IsFiniteSet(T) /\ Cardinality(T) = Cardinality(I)
  BY <1>4, <1>5, FS_Bijection DEF ExistsBijection
<1>7. Cardinality(S \cup T) = Cardinality(S) + Cardinality(T) - Cardinality({})
  BY <1>3, <1>4, <1>6, FS_Union
<1>8. Cardinality({}) = 0 /\ Cardinality(S) \in Nat /\ Cardinality(I) \in Nat
  BY <1>4, FS_EmptySet, FS_CardinalityType
<1>9. Cardinality(S \cup T) = Cardinality(S) + Cardinality(I)
  BY <1>6, <1>7, <1>8
<1> QED BY <1>2, <1>9 DEF Held, S, I, n

-----------------------------------------------------------------------------
(* Tables in balance: every count is exact and every reference resolves.   *)

\* Counts of the blob table b against the tables that own blobs.
Counted(b, o, ch, p, e) ==
    \A c \in DOMAIN b :
        b[c].refcount = HeldRows(o, c) + Held(ch, c) + Held(p, c) + Held(e, c)

\* References of the owning tables into the blob table b; an object row has at
\* most one.
RefersTo(b, S) == S = {} \/ \E c \in DOMAIN b : S = {c}

\* Every reference is to a blob that exists.
Closed(b, o, ch, p, e) ==
    /\ \A v \in DOMAIN o : RefersTo(b, o[v].blob)
    /\ \A r \in DOMAIN ch : ch[r] \in DOMAIN b
    /\ \A r \in DOMAIN p : p[r] \in DOMAIN b
    /\ \A x \in DOMAIN e : x[1] \in DOMAIN b /\ e[x] \in DOMAIN b

\* The tables are finite.
AllFinite(o, ch, p, e) ==
    /\ IsFiniteSet(DOMAIN o) /\ IsFiniteSet(DOMAIN ch)
    /\ IsFiniteSet(DOMAIN p) /\ IsFiniteSet(DOMAIN e)

\* What the triggers keep: exact counts and closed references.
Balanced(b, o, ch, p, e) ==
    AllFinite(o, ch, p, e) /\ Counted(b, o, ch, p, e) /\ Closed(b, o, ch, p, e)

\* Nothing owns a blob that is not in the table.
LEMMA UnknownBlobUnowned ==
    ASSUME NEW b, NEW o, NEW ch, NEW p, NEW e, NEW c,
           Closed(b, o, ch, p, e), c \notin DOMAIN b
    PROVE  /\ HeldRows(o, c) = 0 /\ Held(ch, c) = 0 /\ Held(p, c) = 0 /\ Held(e, c) = 0
           /\ \A x \in DOMAIN e : x[1] # c
<1>1. /\ {v \in DOMAIN o : o[v].blob = {c}} = {}
      /\ {r \in DOMAIN ch : ch[r] = c} = {}
      /\ {r \in DOMAIN p : p[r] = c} = {}
      /\ {x \in DOMAIN e : e[x] = c} = {}
  BY DEF Closed, RefersTo
<1> QED BY <1>1, FS_EmptySet DEF Held, HeldRows, Closed

\* _ensure_blob adds a row that nothing owns yet.
LEMMA EnsureBlobBalanced ==
    ASSUME NEW b, NEW o, NEW ch, NEW p, NEW e, NEW c, Balanced(b, o, ch, p, e)
    PROVE  /\ Balanced(EnsureBlob(b, c), o, ch, p, e)
           /\ DOMAIN EnsureBlob(b, c) = DOMAIN b \cup {c}
<1> DEFINE n == EnsureBlob(b, c)
<1>1. /\ DOMAIN n = DOMAIN b \cup {c}
      /\ \A x \in DOMAIN b : n[x] = b[x]
      /\ c \notin DOMAIN b => n[c].refcount = 0
  BY DEF EnsureBlob, BlobRow
<1> HIDE DEF n
<1>2. Counted(n, o, ch, p, e)
  BY <1>1, UnknownBlobUnowned DEF Counted, Balanced
<1>3. Closed(n, o, ch, p, e)
  BY <1>1 DEF Closed, RefersTo, Balanced
<1> QED BY <1>1, <1>2, <1>3 DEF Balanced, n

\* So do the blobs of put_part's pieces.
LEMMA EnsureBlobsBalanced ==
    ASSUME NEW b, NEW o, NEW ch, NEW p, NEW e, NEW cs, Balanced(b, o, ch, p, e)
    PROVE  Balanced(EnsureBlobs(b, cs), o, ch, p, e)
<1> DEFINE n == EnsureBlobs(b, cs)
<1>1. /\ DOMAIN n = DOMAIN b \cup {cs[i] : i \in DOMAIN cs}
      /\ \A x \in DOMAIN b : n[x] = b[x]
  BY DEF EnsureBlobs
<1>2. ASSUME NEW x \in DOMAIN n, x \notin DOMAIN b PROVE n[x].refcount = 0
  <2>1. n[x] = EnsureBlob(b, x)[x]
    BY <1>2 DEF EnsureBlobs
  <2>2. EnsureBlob(b, x)[x].refcount = 0
    BY <1>2 DEF EnsureBlob, BlobRow
  <2> QED BY <2>1, <2>2
<1> HIDE DEF n
<1>3. Counted(n, o, ch, p, e)
  BY <1>1, <1>2, UnknownBlobUnowned DEF Counted, Balanced
<1>4. Closed(n, o, ch, p, e)
  BY <1>1 DEF Closed, RefersTo, Balanced
<1> QED BY <1>3, <1>4 DEF Balanced, n

\* The composite is in the table, whether its row is new or not.
LEMMA CompositeStored ==
    ASSUME NEW b, NEW c, NEW src
    PROVE  c \in DOMAIN EnsureComposite(b, c, src)
BY DEF EnsureComposite

\* A list of stored blobs that a composite can be built from.
Sources(b, src) ==
    /\ IsFiniteSet(DOMAIN src) /\ DOMAIN src \subseteq Int
    /\ \A i \in DOMAIN src : src[i] \in DOMAIN b

\* _ensure_composite_blob inserts the composite's row and its extents
\* together, and counts every extent at its source.
LEMMA EnsureCompositeBalanced ==
    ASSUME NEW b, NEW o, NEW ch, NEW p, NEW e, NEW c, NEW src,
           Balanced(b, o, ch, p, e), IsBlobTable(b), Sources(b, src)
    PROVE  Balanced(EnsureComposite(b, c, src), o, ch, p, CompositeExtents(b, e, c, src))
<1> DEFINE n == EnsureComposite(b, c, src)
           x2 == CompositeExtents(b, e, c, src)
           places(x) == Cardinality({i \in DOMAIN src : src[i] = x})
<1> USE DEF Sources
<1>1. CASE c \in DOMAIN b
  BY <1>1 DEF EnsureComposite, CompositeExtents
<1>2. CASE c \notin DOMAIN b
  <2>1. /\ DOMAIN n = DOMAIN b \cup {c}
        /\ n[c].refcount = 0
        /\ \A x \in DOMAIN b : n[x].refcount = b[x].refcount + places(x)
    BY <1>2 DEF EnsureComposite, BlobRow
  <2>2. /\ DOMAIN x2 = DOMAIN e \cup {<<c, i - 1>> : i \in DOMAIN src}
        /\ \A y \in DOMAIN x2 : x2[y] = IF y \in DOMAIN e THEN e[y] ELSE src[y[2] + 1]
    BY <1>2 DEF CompositeExtents
  <2>3. \A x \in DOMAIN e : x[1] # c
    BY <1>2, UnknownBlobUnowned DEF Balanced
  <2>4. ASSUME NEW x PROVE Held(x2, x) = Held(e, x) + places(x)
    BY <1>2, <2>3, HeldAfterComposite DEF Balanced, AllFinite
  <2>5. ASSUME NEW x PROVE places(x) \in Nat
    BY PlacesNat
  <2>6. places(c) = 0
    <3>1. {i \in DOMAIN src : src[i] = c} = {}
      BY <1>2
    <3> QED BY <3>1, FS_EmptySet
  <2>7. IsFiniteSet(DOMAIN x2)
    BY CompositeExtentsFinite DEF Balanced, AllFinite
  <2>8. \A y \in DOMAIN x2 : y[1] \in DOMAIN b \cup {c} /\ x2[y] \in DOMAIN b
    <3>1. ASSUME NEW y \in DOMAIN x2, y \notin DOMAIN e
          PROVE  y[1] \in DOMAIN b \cup {c} /\ x2[y] \in DOMAIN b
      <4> HIDE DEF x2
      <4>1. PICK i \in DOMAIN src : y = <<c, i - 1>>
        BY <2>2, <3>1
      <4>2. y[1] = c /\ y[2] + 1 = i
        BY <4>1
      <4>3. x2[y] = src[i]
        BY <2>2, <3>1, <4>2
      <4> QED BY <4>2, <4>3
    <3> HIDE DEF x2
    <3> QED BY <2>2, <3>1 DEF Balanced, Closed
  <2> HIDE DEF n, x2, places
  <2>9. Counted(n, o, ch, p, x2)
    <3> SUFFICES ASSUME NEW x \in DOMAIN n
                 PROVE  n[x].refcount = HeldRows(o, x) + Held(ch, x) + Held(p, x) + Held(x2, x)
      BY DEF Counted
    <3>1. /\ HeldRows(o, x) \in Nat /\ Held(ch, x) \in Nat
          /\ Held(p, x) \in Nat /\ Held(e, x) \in Nat
      BY HeldNat DEF Balanced, AllFinite
    <3>2. CASE x = c
      BY <1>2, <2>1, <2>4, <2>6, <3>2, UnknownBlobUnowned DEF Balanced
    <3>3. CASE x \in DOMAIN b
      <4>1. b[x].refcount = HeldRows(o, x) + Held(ch, x) + Held(p, x) + Held(e, x)
        BY <3>3 DEF Balanced, Counted
      <4> QED BY <2>1, <2>4, <2>5, <3>1, <3>3, <4>1
    <3> QED BY <2>1, <3>2, <3>3
  <2>10. Closed(n, o, ch, p, x2)
    BY <2>1, <2>8 DEF Closed, RefersTo, Balanced
  <2>11. Balanced(n, o, ch, p, x2)
    BY <2>7, <2>9, <2>10 DEF Balanced, AllFinite
  <2> QED BY <2>11 DEF n, x2
<1> QED BY <1>1, <1>2

\* The blob table n is b after the refcount triggers added d.
Adjusted(n, b, d) ==
    n = [c \in DOMAIN b |-> BlobRow(b[c].kind, b[c].refcount + d[c], b[c].height)]

\* A statement whose triggers add to every count what the tables gain.
LEMMA AdjustBalanced ==
    ASSUME NEW b, NEW o, NEW ch, NEW p, NEW e, NEW n, NEW d,
           NEW o2, NEW ch2, NEW p2, NEW e2,
           Balanced(b, o, ch, p, e), AllFinite(o2, ch2, p2, e2), Closed(b, o2, ch2, p2, e2),
           Adjusted(n, b, d),
           \A c \in DOMAIN b :
                HeldRows(o2, c) + Held(ch2, c) + Held(p2, c) + Held(e2, c)
                  = HeldRows(o, c) + Held(ch, c) + Held(p, c) + Held(e, c) + d[c]
    PROVE  Balanced(n, o2, ch2, p2, e2) /\ DOMAIN n = DOMAIN b
<1>1. DOMAIN n = DOMAIN b /\ \A c \in DOMAIN b : n[c].refcount = b[c].refcount + d[c]
  BY DEF BlobRow, Adjusted
<1>2. Counted(n, o2, ch2, p2, e2)
  BY <1>1 DEF Counted, Balanced
<1>3. Closed(n, o2, ch2, p2, e2)
  BY <1>1 DEF Closed, RefersTo
<1> QED BY <1>1, <1>2, <1>3 DEF Balanced

\* A new object row counts as one owner of its blob.
LEMMA InsertBalanced ==
    ASSUME NEW b, NEW o, NEW ch, NEW p, NEW e, NEW v, NEW row, NEW n, NEW d,
           Balanced(b, o, ch, p, e), v \notin DOMAIN o, RefersTo(b, row.blob),
           Adjusted(n, b, d), \A x \in DOMAIN b : d[x] = One(row.blob = {x})
    PROVE  Balanced(n, AddRow(o, v, row), ch, p, e)
<1> DEFINE o2 == AddRow(o, v, row)
<1>1. DOMAIN o2 = DOMAIN o \cup {v} /\ \A w \in DOMAIN o2 : o2[w] = IF w = v THEN row ELSE o[w]
  BY DEF AddRow
<1>2. \A x : HeldRows(o2, x) = HeldRows(o, x) + One(row.blob = {x})
  BY HeldRowsAfterInsert DEF Balanced, AllFinite
<1> HIDE DEF o2
<1>3. AllFinite(o2, ch, p, e)
  BY <1>1, FS_AddElement DEF AllFinite, Balanced
<1>4. Closed(b, o2, ch, p, e)
  BY <1>1 DEF Closed, Balanced
<1>5. ASSUME NEW c \in DOMAIN b
      PROVE  HeldRows(o2, c) + Held(ch, c) + Held(p, c) + Held(e, c)
               = HeldRows(o, c) + Held(ch, c) + Held(p, c) + Held(e, c) + d[c]
  <2>1. /\ HeldRows(o, c) \in Nat /\ Held(ch, c) \in Nat
        /\ Held(p, c) \in Nat /\ Held(e, c) \in Nat
    BY HeldNat DEF Balanced, AllFinite
  <2>2. d[c] = One(row.blob = {c}) /\ One(row.blob = {c}) \in Nat
    BY DEF One
  <2> QED BY <1>2, <2>1, <2>2
<1>6. Balanced(n, o2, ch, p, e)
  BY <1>3, <1>4, <1>5, AdjustBalanced
<1> QED BY <1>6 DEF o2

\* One delete releases the blob of the row it removes; a delete marker owns
\* none.
LEMMA DeleteOneBalanced ==
    ASSUME NEW s, NEW b, NEW k, NEW ver, NEW ch, NEW p, NEW e,
           Balanced(s.blob, s.object, ch, p, e), s.seq \notin DOMAIN s.object
    PROVE  LET t == DeleteOne(s, b, k, ver)
           IN Balanced(t.blob, t.object, ch, p, e)
<1> DEFINE gone == {v \in Versions(s.object, b, k) : ver = {v}}
           t == DeleteOne(s, b, k, ver)
<1>1. CASE ver = {}
  <2> DEFINE row == ObjectRow(b, k, {}, {})
             o2 == AddRow(s.object, s.seq, row)
  <2>1. t.object = o2 /\ t.blob = s.blob
    BY <1>1 DEF DeleteOne
  <2>2. row.blob = {}
    BY DEF ObjectRow
  <2>3. /\ DOMAIN o2 = DOMAIN s.object \cup {s.seq}
        /\ \A w \in DOMAIN o2 : o2[w] = IF w = s.seq THEN row ELSE s.object[w]
    BY DEF AddRow
  <2>4. \A x : HeldRows(o2, x) = HeldRows(s.object, x) + One(row.blob = {x})
    BY HeldRowsAfterInsert DEF Balanced, AllFinite
  <2>5. ASSUME NEW x PROVE HeldRows(o2, x) = HeldRows(s.object, x)
    <3>1. One(row.blob = {x}) = 0
      BY <2>2 DEF One
    <3>2. HeldRows(s.object, x) \in Nat
      BY HeldNat DEF Balanced, AllFinite
    <3> QED BY <2>4, <3>1, <3>2
  <2> HIDE DEF o2, row
  <2>6. AllFinite(o2, ch, p, e)
    BY <2>3, FS_AddElement DEF AllFinite, Balanced
  <2>7. Closed(s.blob, o2, ch, p, e)
    BY <2>2, <2>3 DEF Closed, RefersTo, Balanced
  <2>8. Counted(s.blob, o2, ch, p, e)
    BY <2>5 DEF Counted, Balanced
  <2>9. Balanced(s.blob, o2, ch, p, e)
    BY <2>6, <2>7, <2>8 DEF Balanced
  <2> QED BY <2>1, <2>9
<1>2. CASE ver # {}
  <2> DEFINE lost(c) == {v \in gone : s.object[v].blob = {c}}
             d == [c \in DOMAIN s.blob |-> 0 - Cardinality(lost(c))]
             o2 == Restrict(s.object, DOMAIN s.object \ gone)
  <2>1. /\ t.object = o2
        /\ Adjusted(t.blob, s.blob, d)
    BY <1>2 DEF DeleteOne, Adjust, Adjusted
  <2>2. gone \subseteq DOMAIN s.object
    BY DEF Versions
  <2>3. DOMAIN o2 \subseteq DOMAIN s.object /\ \A w \in DOMAIN o2 : o2[w] = s.object[w]
    BY DEF Restrict
  <2>4. ASSUME NEW x PROVE HeldRows(o2, x) = HeldRows(s.object, x) - Cardinality(lost(x))
    <3>1. HeldRowsIn(s.object, gone, x) = Cardinality(lost(x))
      BY DEF HeldRowsIn
    <3> HIDE DEF gone, lost
    <3>2. HeldRows(o2, x) = HeldRows(s.object, x) - HeldRowsIn(s.object, gone, x)
      BY <2>2, HeldRowsAfterDelete DEF Balanced, AllFinite
    <3> QED BY <3>1, <3>2
  <2>5. ASSUME NEW x PROVE Cardinality(lost(x)) \in Nat
    <3>1. lost(x) \in SUBSET DOMAIN s.object
      BY <2>2
    <3> HIDE DEF lost
    <3> QED BY <3>1, FS_Subset, FS_CardinalityType DEF Balanced, AllFinite
  <2> HIDE DEF o2, lost, gone
  <2>6. AllFinite(o2, ch, p, e)
    BY <2>3, FS_Subset DEF AllFinite, Balanced
  <2>7. Closed(s.blob, o2, ch, p, e)
    BY <2>3 DEF Closed, Balanced
  <2>8. ASSUME NEW c \in DOMAIN s.blob
        PROVE  HeldRows(o2, c) + Held(ch, c) + Held(p, c) + Held(e, c)
                 = HeldRows(s.object, c) + Held(ch, c) + Held(p, c) + Held(e, c) + d[c]
    <3>1. /\ HeldRows(s.object, c) \in Nat /\ Held(ch, c) \in Nat
          /\ Held(p, c) \in Nat /\ Held(e, c) \in Nat
      BY HeldNat DEF Balanced, AllFinite
    <3> QED BY <2>4, <2>5, <3>1
  <2> HIDE DEF d, t
  <2>9. Balanced(t.blob, o2, ch, p, e)
    BY <2>1, <2>6, <2>7, <2>8, AdjustBalanced
  <2> QED BY <2>1, <2>9 DEF t
<1> QED BY <1>1, <1>2

\* The staging tables ch, p become ch2, p2, whose owners differ by d.
StagingChange(b, ch, p, ch2, p2, d) ==
    /\ IsFiniteSet(DOMAIN ch2) /\ IsFiniteSet(DOMAIN p2)
    /\ \A r \in DOMAIN ch2 : ch2[r] \in DOMAIN b
    /\ \A r \in DOMAIN p2 : p2[r] \in DOMAIN b
    /\ \A x \in DOMAIN b :
        d[x] \in Int /\ Held(ch2, x) + Held(p2, x) = Held(ch, x) + Held(p, x) + d[x]

\* Replacing and deleting staging rows moves the counts with the rows.
LEMMA StagingBalanced ==
    ASSUME NEW b, NEW o, NEW ch, NEW p, NEW e, NEW ch2, NEW p2, NEW d, NEW n,
           Balanced(b, o, ch, p, e), StagingChange(b, ch, p, ch2, p2, d), Adjusted(n, b, d)
    PROVE  Balanced(n, o, ch2, p2, e) /\ DOMAIN n = DOMAIN b
<1> USE DEF StagingChange
<1>1. AllFinite(o, ch2, p2, e)
  BY DEF AllFinite, Balanced
<1>2. Closed(b, o, ch2, p2, e)
  BY DEF Closed, Balanced
<1>3. ASSUME NEW c \in DOMAIN b
      PROVE  HeldRows(o, c) + Held(ch2, c) + Held(p2, c) + Held(e, c)
               = HeldRows(o, c) + Held(ch, c) + Held(p, c) + Held(e, c) + d[c]
  <2>1. /\ HeldRows(o, c) \in Nat /\ Held(ch, c) \in Nat /\ Held(p, c) \in Nat
        /\ Held(ch2, c) \in Nat /\ Held(p2, c) \in Nat /\ Held(e, c) \in Nat
    BY HeldNat DEF Balanced, AllFinite
  <2>2. Held(ch2, c) + Held(p2, c) = Held(ch, c) + Held(p, c) + d[c]
    OBVIOUS
  <2>3. d[c] \in Int
    OBVIOUS
  <2> QED BY <2>1, <2>2, <2>3
<1> QED BY <1>1, <1>2, <1>3, AdjustBalanced

\* Dropping uploads releases what their chunks and parts own.
LEMMA ReleaseBalanced ==
    ASSUME NEW b, NEW o, NEW e, NEW U, Balanced(b, o, chunk, part, e)
    PROVE  /\ Balanced(ReleaseUploads(b, U), o, Restrict(chunk, DOMAIN chunk \ UploadChunks(U)),
                       Restrict(part, DOMAIN part \ UploadParts(U)), e)
           /\ DOMAIN ReleaseUploads(b, U) = DOMAIN b
<1> DEFINE R == UploadChunks(U)
           P == UploadParts(U)
           ch2 == Restrict(chunk, DOMAIN chunk \ R)
           p2 == Restrict(part, DOMAIN part \ P)
           d == [x \in DOMAIN b |-> 0 - CountChunks(R, x) - CountParts(P, x)]
           n == ReleaseUploads(b, U)
<1>1. Adjusted(n, b, d)
  BY DEF ReleaseUploads, Adjust, Adjusted
<1>2. R \subseteq DOMAIN chunk /\ P \subseteq DOMAIN part
  BY DEF UploadChunks, UploadParts
<1>3. IsFiniteSet(DOMAIN chunk) /\ IsFiniteSet(DOMAIN part)
  BY DEF Balanced, AllFinite
<1> HIDE DEF R, P
<1>4. /\ DOMAIN ch2 \subseteq DOMAIN chunk /\ \A r \in DOMAIN ch2 : ch2[r] = chunk[r]
      /\ DOMAIN p2 \subseteq DOMAIN part /\ \A r \in DOMAIN p2 : p2[r] = part[r]
  BY DEF Restrict
<1>5. ASSUME NEW x \in DOMAIN b
      PROVE  d[x] \in Int /\ Held(ch2, x) + Held(p2, x) = Held(chunk, x) + Held(part, x) + d[x]
  <2>1. Held(ch2, x) = Held(chunk, x) - CountChunks(R, x)
    <3>1. CountChunks(R, x) = HeldIn(chunk, R, x)
      BY DEF CountChunks, HeldIn
    <3> QED BY <1>2, <1>3, <3>1, HeldAfterDelete
  <2>2. Held(p2, x) = Held(part, x) - CountParts(P, x)
    <3>1. CountParts(P, x) = HeldIn(part, P, x)
      BY DEF CountParts, HeldIn
    <3> QED BY <1>2, <1>3, <3>1, HeldAfterDelete
  <2>3. CountChunks(R, x) \in Nat /\ CountParts(P, x) \in Nat
    <3>1. {r \in R : chunk[r] = x} \subseteq DOMAIN chunk /\ {r \in P : part[r] = x} \subseteq DOMAIN part
      BY <1>2
    <3> QED BY <1>3, <3>1, FS_Subset, FS_CardinalityType DEF CountChunks, CountParts
  <2>4. Held(chunk, x) \in Nat /\ Held(part, x) \in Nat
    BY <1>3, HeldNat
  <2> HIDE DEF ch2, p2
  <2> QED BY <2>1, <2>2, <2>3, <2>4
<1> HIDE DEF ch2, p2, d, n
<1>6. IsFiniteSet(DOMAIN ch2) /\ IsFiniteSet(DOMAIN p2)
  BY <1>3, <1>4, FS_Subset
<1>7. /\ \A r \in DOMAIN ch2 : ch2[r] \in DOMAIN b
      /\ \A r \in DOMAIN p2 : p2[r] \in DOMAIN b
  BY <1>4 DEF Balanced, Closed
<1>8. StagingChange(b, chunk, part, ch2, p2, d)
  BY <1>5, <1>6, <1>7 DEF StagingChange
<1>9. Balanced(n, o, ch2, p2, e) /\ DOMAIN n = DOMAIN b
  BY <1>1, <1>8, StagingBalanced
<1> QED BY <1>9 DEF n, ch2, p2, R, P

-----------------------------------------------------------------------------
(* Every action keeps the tables in balance.                               *)

\* The tables of the state are in balance.
InBalance == Balanced(blob, object, chunk, part, extent)

\* Publishing inserts a version at an id that no row has.
LEMMA NextVersionFresh ==
    ASSUME ObjectOK
    PROVE  versionSeq \notin DOMAIN object
BY DEF ObjectOK

\* Version ids are numbers below the sequence, so there are finitely many.
LEMMA VersionsFinite ==
    ASSUME NEW o, NEW seq \in Nat, DOMAIN o \subseteq Nat, \A v \in DOMAIN o : v < seq
    PROVE  IsFiniteSet(DOMAIN o)
<1>1. DOMAIN o \subseteq 0 .. seq
  OBVIOUS
<1>2. IsFiniteSet(0 .. seq)
  BY FS_Interval
<1> QED BY <1>1, <1>2, FS_Subset

\* put, and the two copies by reference.
LEMMA PutBalanced ==
    ASSUME ObjectOK, InBalance, NEW a, NEW n, NEW k, NEW c, NEW cd, Put(a, n, k, c, cd)
    PROVE  InBalance'
<1> DEFINE b == EnsureBlob(blob, c)
           row == ObjectRow(bucket[n].id, k, {c}, {Etag(c)})
           d == [x \in DOMAIN b |-> One(x = c)]
<1>1. /\ Adjusted(blob', b, d)
      /\ object' = AddRow(object, versionSeq, row)
      /\ UNCHANGED <<chunk, part, extent>>
  BY DEF Put, Adjust, Adjusted, InsertVersion, uploadVars
<1>2. Balanced(b, object, chunk, part, extent) /\ c \in DOMAIN b
  <2>1. Balanced(b, object, chunk, part, extent) /\ DOMAIN b = DOMAIN blob \cup {c}
    BY EnsureBlobBalanced DEF InBalance
  <2> HIDE DEF b
  <2> QED BY <2>1
<1>3. row.blob = {c}
  BY DEF ObjectRow
<1>4. RefersTo(b, row.blob)
  BY <1>2, <1>3 DEF RefersTo
<1> HIDE DEF b, row
<1>5. \A x \in DOMAIN b : d[x] = One(row.blob = {x})
  BY <1>3 DEF One
<1> HIDE DEF d
<1>6. Balanced(blob', AddRow(object, versionSeq, row), chunk, part, extent)
  BY <1>1, <1>2, <1>4, <1>5, NextVersionFresh, InsertBalanced
<1> QED BY <1>1, <1>6 DEF InBalance

\* A version that shares the source row's blob is one owner more of it.
LEMMA ReferenceBalanced ==
    ASSUME ObjectOK, InBalance, NEW b, NEW k, NEW v \in DOMAIN object, NEW cd,
           CommitReference(b, k, v, cd)
    PROVE  InBalance'
<1> DEFINE row == ObjectRow(b, k, object[v].blob, object[v].etag)
           d == [x \in DOMAIN blob |-> One(object[v].blob = {x})]
<1>1. /\ Adjusted(blob', blob, d)
      /\ object' = AddRow(object, versionSeq, row)
      /\ UNCHANGED <<chunk, part, extent>>
  BY DEF CommitReference, Adjust, Adjusted, InsertVersion, uploadVars
<1>2. row.blob = object[v].blob
  BY DEF ObjectRow
<1>3. RefersTo(blob, row.blob)
  BY <1>2 DEF InBalance, Balanced, Closed
<1> HIDE DEF row
<1>4. \A x \in DOMAIN blob : d[x] = One(row.blob = {x})
  BY <1>2
<1> HIDE DEF d
<1>5. Balanced(blob', AddRow(object, versionSeq, row), chunk, part, extent)
  BY <1>1, <1>3, <1>4, NextVersionFresh, InsertBalanced DEF InBalance
<1> QED BY <1>1, <1>5 DEF InBalance

\* delete and delete_many.
LEMMA DeletesBalanced ==
    ASSUME TypeOK, LatestIsNewest, InBalance, NEW a, NEW n, NEW k, NEW ver, NEW k2, NEW ver2,
           Delete(a, n, k, ver) \/ DeleteMany(a, n, k, ver, k2, ver2)
    PROVE  InBalance'
<1> DEFINE b == bucket[n].id
           s == DeleteOne(Tables, b, k, ver)
           t == DeleteOne(s, b, k2, ver2)
<1>1. \/ object' = s.object /\ blob' = s.blob
      \/ object' = t.object /\ blob' = t.blob
  BY DEF Delete, DeleteMany, Commit
<1>2. UNCHANGED <<chunk, part, extent>>
  BY DEF Delete, DeleteMany, Commit, uploadVars
<1>3. /\ Tables.object = object /\ Tables.latest = latest
      /\ Tables.blob = blob /\ Tables.seq = versionSeq
  BY DEF Tables
<1>4. IsHistory(object, latest, versionSeq) /\ NewestIsLatest(object, latest)
  BY DEF TypeOK, ObjectOK, IsHistory, LatestIsNewest
<1> HIDE DEF b
<1>5. Balanced(s.blob, s.object, chunk, part, extent)
  BY <1>3, <1>4, DeleteOneBalanced DEF InBalance, IsHistory
<1>6. IsHistory(s.object, s.latest, s.seq)
  BY <1>3, <1>4, DeleteOneKeepsNewest
<1> HIDE DEF s
<1>7. s.seq \notin DOMAIN s.object
  BY <1>6 DEF IsHistory
<1>8. Balanced(t.blob, t.object, chunk, part, extent)
  BY <1>5, <1>7, DeleteOneBalanced
<1> HIDE DEF t
<1> QED BY <1>1, <1>2, <1>5, <1>8 DEF InBalance

\* fork_bucket raises every count by the number of rows it copies.
LEMMA ForkBalanced ==
    ASSUME ObjectOK, InBalance, ObjectOK', NEW a, NEW n, NEW n2, Fork(a, n, n2)
    PROVE  InBalance'
<1> DEFINE rows == {v \in latest : object[v].bucket = bucket[n].id}
           fresh == versionSeq .. (versionSeq + Cardinality(rows) - 1)
           own(x) == {v \in rows : object[v].blob = {x}}
           d == [x \in DOMAIN blob |-> Cardinality(own(x))]
<1>1. PICK scan \in Bijection(fresh, rows) :
            object' = [w \in DOMAIN object \cup fresh |->
                        IF w \in fresh
                        THEN ObjectRow(bucketSeq, object[scan[w]].key,
                                       object[scan[w]].blob, object[scan[w]].etag)
                        ELSE object[w]]
  BY DEF Fork
<1>2. Adjusted(blob', blob, d) /\ UNCHANGED <<chunk, part, extent>>
  BY DEF Fork, Adjust, Adjusted, uploadVars
<1>3. /\ scan \in [fresh -> rows]
      /\ \A v, w \in fresh : scan[v] = scan[w] => v = w
      /\ \A v \in rows : \E w \in fresh : scan[w] = v
  BY <1>1 DEF Bijection, Injection, Surjection, IsInjective
<1>4. rows \subseteq DOMAIN object /\ rows \subseteq latest
  BY DEF ObjectOK
<1>5. IsFiniteSet(rows) /\ Cardinality(rows) \in Nat
  BY <1>4, ForkRowsFinite
<1> HIDE DEF rows
<1>6. fresh \cap DOMAIN object = {}
  BY <1>5 DEF ObjectOK
<1> HIDE DEF fresh
<1>7. /\ DOMAIN object' = DOMAIN object \cup fresh
      /\ \A w \in fresh : object'[w].blob = object[scan[w]].blob
      /\ \A w \in DOMAIN object : object'[w] = object[w]
  BY <1>1, <1>6 DEF ObjectRow
<1>8. ASSUME NEW x
      PROVE  /\ HeldRows(object', x) = HeldRows(object, x) + Cardinality(own(x))
             /\ Cardinality(own(x)) \in Nat
  <2> DEFINE S == {v \in DOMAIN object : object[v].blob = {x}}
             T == {w \in fresh : object'[w].blob = {x}}
             f == [w \in T |-> scan[w]]
  <2>1. {v \in DOMAIN object' : object'[v].blob = {x}} = S \cup T
    BY <1>7
  <2>2. S \cap T = {}
    BY <1>6
  <2>3. IsFiniteSet(S)
    BY FS_Subset DEF InBalance, Balanced, AllFinite
  <2>4. f \in Bijection(T, own(x))
    <3>1. f \in [T -> own(x)]
      BY <1>3, <1>7
    <3>2. \A v, w \in T : f[v] = f[w] => v = w
      BY <1>3
    <3>3. \A v \in own(x) : \E w \in T : f[w] = v
      BY <1>3, <1>7
    <3> HIDE DEF f, T, own
    <3> QED BY <3>1, <3>2, <3>3 DEF Bijection, Injection, Surjection, IsInjective
  <2>5. IsFiniteSet(own(x))
    BY <1>5, FS_Subset
  <2>6. IsFiniteSet(fresh)
    <3>1. IsFiniteSet(DOMAIN object')
      BY VersionsFinite DEF ObjectOK
    <3> QED BY <1>7, <3>1, FS_Subset
  <2>7. IsFiniteSet(T)
    BY <2>6, FS_Subset
  <2> HIDE DEF S, T, f, own
  <2>8. Cardinality(T) = Cardinality(own(x))
    BY <2>4, <2>7, FS_Bijection DEF ExistsBijection
  <2>9. Cardinality(S \cup T) = Cardinality(S) + Cardinality(T) - Cardinality({})
    BY <2>2, <2>3, <2>7, FS_Union
  <2>10. /\ Cardinality({}) = 0 /\ Cardinality(S) \in Nat /\ Cardinality(own(x)) \in Nat
    BY <2>3, <2>5, FS_EmptySet, FS_CardinalityType
  <2>11. Cardinality(S \cup T) = Cardinality(S) + Cardinality(own(x))
    BY <2>8, <2>9, <2>10
  <2>12. HeldRows(object, x) = Cardinality(S) /\ HeldRows(object', x) = Cardinality(S \cup T)
    BY <2>1 DEF HeldRows, S
  <2> QED BY <2>10, <2>11, <2>12
<1>9. AllFinite(object', chunk, part, extent)
  BY VersionsFinite DEF ObjectOK, AllFinite, InBalance, Balanced
<1>10. Closed(blob, object', chunk, part, extent)
  <2>1. ASSUME NEW v \in DOMAIN object' PROVE RefersTo(blob, object'[v].blob)
    <3>1. CASE v \in DOMAIN object
      BY <1>7, <3>1 DEF InBalance, Balanced, Closed
    <3>2. CASE v \in fresh
      BY <1>3, <1>4, <1>7, <3>2 DEF InBalance, Balanced, Closed
    <3> QED BY <1>7, <3>1, <3>2
  <2> QED BY <2>1 DEF InBalance, Balanced, Closed
<1>11. ASSUME NEW c \in DOMAIN blob
       PROVE  HeldRows(object', c) + Held(chunk, c) + Held(part, c) + Held(extent, c)
                = HeldRows(object, c) + Held(chunk, c) + Held(part, c) + Held(extent, c) + d[c]
  <2>1. /\ HeldRows(object, c) \in Nat /\ Held(chunk, c) \in Nat
        /\ Held(part, c) \in Nat /\ Held(extent, c) \in Nat
    BY HeldNat DEF InBalance, Balanced, AllFinite
  <2> HIDE DEF own
  <2>2. d[c] = Cardinality(own(c))
    OBVIOUS
  <2> HIDE DEF d
  <2> QED BY <1>8, <2>1, <2>2
<1> HIDE DEF d
<1>12. Balanced(blob', object', chunk, part, extent)
  BY <1>2, <1>9, <1>10, <1>11, AdjustBalanced DEF InBalance
<1> QED BY <1>2, <1>12 DEF InBalance

\* Staging counts over the rows of the chunk and part tables.
LEMMA StagingCounts ==
    ASSUME IsFiniteSet(DOMAIN chunk), IsFiniteSet(DOMAIN part), NEW x,
           NEW R \in SUBSET DOMAIN chunk, NEW P \in SUBSET DOMAIN part
    PROVE  /\ CountChunks(R, x) = HeldIn(chunk, R, x) /\ CountChunks(R, x) \in Nat
           /\ CountParts(P, x) = HeldIn(part, P, x) /\ CountParts(P, x) \in Nat
<1>1. /\ {r \in R : chunk[r] = x} \subseteq DOMAIN chunk
      /\ {r \in P : part[r] = x} \subseteq DOMAIN part
  OBVIOUS
<1> QED BY <1>1, FS_Subset, FS_CardinalityType DEF CountChunks, CountParts, HeldIn

\* begin_part forgets the part and its chunks.
LEMMA BeginPartBalanced ==
    ASSUME InBalance, NEW a, NEW u, NEW p, BeginPart(a, u, p)
    PROVE  InBalance'
<1> DEFINE R == PartChunks(u, p)
           P == {<<u, p>>} \cap DOMAIN part
           d == [x \in DOMAIN blob |-> 0 - CountChunks(R, x) - CountParts(P, x)]
<1>1. /\ Adjusted(blob', blob, d)
      /\ chunk' = Restrict(chunk, DOMAIN chunk \ R)
      /\ UNCHANGED <<object, extent>>
  BY DEF BeginPart, Adjust, Adjusted, objectVars
<1>2. part' = Restrict(part, DOMAIN part \ P)
  <2>1. DOMAIN part \ {<<u, p>>} = DOMAIN part \ P
    OBVIOUS
  <2> QED BY <2>1 DEF BeginPart
<1>3. R \in SUBSET DOMAIN chunk /\ P \in SUBSET DOMAIN part
  BY DEF PartChunks
<1> HIDE DEF R, P
<1>4. IsFiniteSet(DOMAIN chunk) /\ IsFiniteSet(DOMAIN part)
  BY DEF InBalance, Balanced, AllFinite
<1>5. ASSUME NEW x \in DOMAIN blob
      PROVE  /\ d[x] \in Int
             /\ Held(chunk', x) + Held(part', x) = Held(chunk, x) + Held(part, x) + d[x]
  <2>1. Held(chunk', x) = Held(chunk, x) - CountChunks(R, x)
    <3>1. CountChunks(R, x) = HeldIn(chunk, R, x)
      BY <1>1, <1>3, <1>4, StagingCounts
    <3> QED BY <1>1, <1>3, <1>4, <3>1, HeldAfterDelete
  <2>2. Held(part', x) = Held(part, x) - CountParts(P, x)
    <3>1. CountParts(P, x) = HeldIn(part, P, x)
      BY <1>2, <1>3, <1>4, StagingCounts
    <3> QED BY <1>2, <1>3, <1>4, <3>1, HeldAfterDelete
  <2>3. CountChunks(R, x) \in Nat /\ CountParts(P, x) \in Nat
    BY <1>3, <1>4, StagingCounts
  <2>4. Held(chunk, x) \in Nat /\ Held(part, x) \in Nat
    BY <1>4, HeldNat
  <2> QED BY <2>1, <2>2, <2>3, <2>4
<1> HIDE DEF d
<1>6. /\ DOMAIN chunk' \subseteq DOMAIN chunk /\ \A r \in DOMAIN chunk' : chunk'[r] = chunk[r]
      /\ DOMAIN part' \subseteq DOMAIN part /\ \A r \in DOMAIN part' : part'[r] = part[r]
  BY <1>1, <1>2 DEF Restrict
<1>7. IsFiniteSet(DOMAIN chunk') /\ IsFiniteSet(DOMAIN part')
  BY <1>4, <1>6, FS_Subset
<1>8. /\ \A r \in DOMAIN chunk' : chunk'[r] \in DOMAIN blob
      /\ \A r \in DOMAIN part' : part'[r] \in DOMAIN blob
  BY <1>6 DEF InBalance, Balanced, Closed
<1>9. StagingChange(blob, chunk, part, chunk', part', d)
  BY <1>5, <1>7, <1>8 DEF StagingChange
<1>10. Balanced(blob', object, chunk', part', extent)
  BY <1>1, <1>9, StagingBalanced DEF InBalance
<1> QED BY <1>1, <1>10 DEF InBalance

\* put_chunk replaces the chunk row and reopens the part.
LEMMA PutChunkBalanced ==
    ASSUME InBalance, NEW a, NEW u, NEW p, NEW s, NEW c, PutChunk(a, u, p, s, c)
    PROVE  InBalance'
<1> DEFINE q == <<u, p, s>>
           R == {q} \cap DOMAIN chunk
           P == {<<u, p>>} \cap DOMAIN part
           b == EnsureBlob(blob, c)
           d == [x \in DOMAIN b |-> One(x = c) - CountChunks(R, x) - CountParts(P, x)]
<1>1. /\ Adjusted(blob', b, d)
      /\ chunk' = Upsert(chunk, q, c)
      /\ UNCHANGED <<object, extent>>
  BY DEF PutChunk, Adjust, Adjusted, Upsert, objectVars
<1>2. part' = Restrict(part, DOMAIN part \ P)
  <2>1. DOMAIN part \ {<<u, p>>} = DOMAIN part \ P
    OBVIOUS
  <2> QED BY <2>1 DEF PutChunk
<1>3. R \in SUBSET DOMAIN chunk /\ P \in SUBSET DOMAIN part
  OBVIOUS
<1>4. IsFiniteSet(DOMAIN chunk) /\ IsFiniteSet(DOMAIN part)
  BY DEF InBalance, Balanced, AllFinite
<1>5. Balanced(b, object, chunk, part, extent) /\ DOMAIN b = DOMAIN blob \cup {c}
  BY EnsureBlobBalanced DEF InBalance
<1> HIDE DEF P, b, q
<1>6. ASSUME NEW x \in DOMAIN b
      PROVE  /\ d[x] \in Int
             /\ Held(chunk', x) + Held(part', x) = Held(chunk, x) + Held(part, x) + d[x]
  <2>1. Held(chunk', x) = Held(chunk, x) + One(x = c) - CountChunks(R, x)
    <3>1. Held(Upsert(chunk, q, c), x)
            = Held(chunk, x) + One(x = c) - HeldIn(chunk, {q} \cap DOMAIN chunk, x)
      BY <1>4, HeldAfterUpsert
    <3>2. CountChunks(R, x) = HeldIn(chunk, R, x)
      BY <1>3, <1>4, StagingCounts
    <3> QED BY <1>1, <3>1, <3>2
  <2>2. Held(part', x) = Held(part, x) - CountParts(P, x)
    <3>1. CountParts(P, x) = HeldIn(part, P, x)
      BY <1>2, <1>3, <1>4, StagingCounts
    <3> QED BY <1>2, <1>3, <1>4, <3>1, HeldAfterDelete
  <2>3. CountChunks(R, x) \in Nat /\ CountParts(P, x) \in Nat
    BY <1>3, <1>4, StagingCounts
  <2>4. Held(chunk, x) \in Nat /\ Held(part, x) \in Nat /\ One(x = c) \in Nat
    BY <1>4, HeldNat DEF One
  <2> HIDE DEF R
  <2> QED BY <2>1, <2>2, <2>3, <2>4
<1> HIDE DEF d, R
<1>7. /\ DOMAIN chunk' = DOMAIN chunk \cup {q}
      /\ \A r \in DOMAIN chunk' : chunk'[r] = IF r = q THEN c ELSE chunk[r]
      /\ DOMAIN part' \subseteq DOMAIN part /\ \A r \in DOMAIN part' : part'[r] = part[r]
  BY <1>1, <1>2 DEF Restrict, Upsert
<1>8. IsFiniteSet(DOMAIN chunk') /\ IsFiniteSet(DOMAIN part')
  BY <1>4, <1>7, FS_Subset, FS_AddElement
<1>9. /\ \A r \in DOMAIN chunk' : chunk'[r] \in DOMAIN b
      /\ \A r \in DOMAIN part' : part'[r] \in DOMAIN b
  BY <1>5, <1>7 DEF Balanced, Closed
<1>10. StagingChange(b, chunk, part, chunk', part', d)
  BY <1>6, <1>8, <1>9 DEF StagingChange
<1>11. Balanced(blob', object, chunk', part', extent)
  BY <1>1, <1>5, <1>10, StagingBalanced
<1> QED BY <1>1, <1>11 DEF InBalance

\* complete_part and put_part: the part row takes over from the chunk rows,
\* over a blob table b and extents e that hold the composite c.
LEMMA PartRowBalanced ==
    ASSUME NEW u, NEW p, NEW b, NEW e, NEW c, NEW d,
           Balanced(b, object, chunk, part, e), c \in DOMAIN b, Adjusted(blob', b, d),
           \A x \in DOMAIN b : d[x] = One(x = c) - CountParts({<<u, p>>} \cap DOMAIN part, x)
                                                 - CountChunks(PartChunks(u, p), x),
           part' = Upsert(part, <<u, p>>, c),
           chunk' = Restrict(chunk, DOMAIN chunk \ PartChunks(u, p))
    PROVE  Balanced(blob', object, chunk', part', e)
<1> DEFINE q == <<u, p>>
           R == PartChunks(u, p)
           P == {q} \cap DOMAIN part
<1>1. \A x \in DOMAIN b : d[x] = One(x = c) - CountParts(P, x) - CountChunks(R, x)
  OBVIOUS
<1>2. R \in SUBSET DOMAIN chunk /\ P \in SUBSET DOMAIN part
  BY DEF PartChunks
<1>3. IsFiniteSet(DOMAIN chunk) /\ IsFiniteSet(DOMAIN part)
  BY DEF Balanced, AllFinite
<1>4. /\ part' = Upsert(part, q, c)
      /\ chunk' = Restrict(chunk, DOMAIN chunk \ R)
  OBVIOUS
<1> HIDE DEF q, R
<1>5. ASSUME NEW x \in DOMAIN b
      PROVE  /\ d[x] \in Int
             /\ Held(chunk', x) + Held(part', x) = Held(chunk, x) + Held(part, x) + d[x]
  <2>1. Held(part', x) = Held(part, x) + One(x = c) - CountParts(P, x)
    <3>1. Held(Upsert(part, q, c), x)
            = Held(part, x) + One(x = c) - HeldIn(part, {q} \cap DOMAIN part, x)
      BY <1>3, HeldAfterUpsert
    <3>2. CountParts(P, x) = HeldIn(part, P, x)
      BY <1>2, <1>3, StagingCounts
    <3> QED BY <1>4, <3>1, <3>2
  <2>2. Held(chunk', x) = Held(chunk, x) - CountChunks(R, x)
    <3>1. CountChunks(R, x) = HeldIn(chunk, R, x)
      BY <1>2, <1>3, <1>4, StagingCounts
    <3> QED BY <1>2, <1>3, <1>4, <3>1, HeldAfterDelete
  <2>3. CountChunks(R, x) \in Nat /\ CountParts(P, x) \in Nat
    BY <1>2, <1>3, StagingCounts
  <2>4. Held(chunk, x) \in Nat /\ Held(part, x) \in Nat /\ One(x = c) \in Nat
    BY <1>3, HeldNat DEF One
  <2> HIDE DEF P
  <2> QED BY <1>1, <2>1, <2>2, <2>3, <2>4
<1> HIDE DEF P
<1>6. /\ DOMAIN part' = DOMAIN part \cup {q}
      /\ \A r \in DOMAIN part' : part'[r] = IF r = q THEN c ELSE part[r]
      /\ DOMAIN chunk' \subseteq DOMAIN chunk /\ \A r \in DOMAIN chunk' : chunk'[r] = chunk[r]
  BY <1>4 DEF Restrict, Upsert
<1>7. IsFiniteSet(DOMAIN chunk') /\ IsFiniteSet(DOMAIN part')
  BY <1>3, <1>6, FS_Subset, FS_AddElement
<1>8. /\ \A r \in DOMAIN chunk' : chunk'[r] \in DOMAIN b
      /\ \A r \in DOMAIN part' : part'[r] \in DOMAIN b
  BY <1>6 DEF Balanced, Closed
<1>9. StagingChange(b, chunk, part, chunk', part', d)
  BY <1>5, <1>7, <1>8 DEF StagingChange
<1> QED BY <1>9, StagingBalanced

\* The sources of a list that a composite is built from.
LEMMA StagedSources ==
    ASSUME InBalance, NEW u, NEW p, Dense(u, p)
    PROVE  Sources(blob, Staged(u, p))
<1> DEFINE R == PartChunks(u, p)
<1>1. R \subseteq DOMAIN chunk /\ R = {<<u, p, i - 1>> : i \in 1 .. Cardinality(R)}
  BY DEF PartChunks, Dense
<1>2. Cardinality(R) \in Nat
  BY <1>1, FS_Subset, FS_CardinalityType DEF InBalance, Balanced, AllFinite
<1>3. IsFiniteSet(1 .. Cardinality(R))
  BY <1>2, FS_Interval
<1>4. ASSUME NEW i \in 1 .. Cardinality(R) PROVE chunk[<<u, p, i - 1>>] \in DOMAIN blob
  BY <1>1 DEF InBalance, Balanced, Closed
<1> QED BY <1>2, <1>3, <1>4 DEF Staged, Sources

\* complete_part.
LEMMA CompletePartBalanced ==
    ASSUME BlobOK, InBalance, NEW a, NEW u, NEW p, CompletePart(a, u, p)
    PROVE  InBalance'
<1> DEFINE src == Staged(u, p)
           c == FlattenSeq(src)
           b == EnsureComposite(blob, c, src)
           e == CompositeExtents(blob, extent, c, src)
           d == [x \in DOMAIN b |-> One(x = c) - CountParts({<<u, p>>} \cap DOMAIN part, x)
                                               - CountChunks(PartChunks(u, p), x)]
<1>1. /\ Adjusted(blob', b, d)
      /\ extent' = e
      /\ part' = Upsert(part, <<u, p>>, c)
      /\ chunk' = Restrict(chunk, DOMAIN chunk \ PartChunks(u, p))
      /\ UNCHANGED object /\ Dense(u, p)
  BY DEF CompletePart, Adjust, Adjusted, Upsert, objectVars
<1>2. Sources(blob, src)
  BY <1>1, StagedSources
<1>3. IsBlobTable(blob)
  BY DEF BlobOK, IsBlobTable
<1> HIDE DEF src, c
<1>4. Balanced(b, object, chunk, part, e)
  BY <1>2, <1>3, EnsureCompositeBalanced DEF InBalance
<1>5. c \in DOMAIN b
  BY CompositeStored
<1> HIDE DEF b, e
<1>6. \A x \in DOMAIN b : d[x] = One(x = c) - CountParts({<<u, p>>} \cap DOMAIN part, x)
                                            - CountChunks(PartChunks(u, p), x)
  OBVIOUS
<1> HIDE DEF d
<1>7. Balanced(blob', object, chunk', part', e)
  BY <1>1, <1>4, <1>5, <1>6, PartRowBalanced
<1> QED BY <1>1, <1>7 DEF InBalance

\* put_part: the pieces are stored first and become the composite's sources.
LEMMA PutPartBalanced ==
    ASSUME BlobOK, InBalance, NEW a, NEW u, NEW p, NEW c \in PartBody, PutPart(a, u, p, c)
    PROVE  InBalance'
<1> DEFINE src == Pieces(c)
           pieces == EnsureBlobs(blob, src)
           b == EnsureComposite(pieces, c, src)
           e == CompositeExtents(pieces, extent, c, src)
           d == [x \in DOMAIN b |-> One(x = c) - CountParts({<<u, p>>} \cap DOMAIN part, x)
                                               - CountChunks(PartChunks(u, p), x)]
<1>1. /\ Adjusted(blob', b, d)
      /\ extent' = e
      /\ part' = Upsert(part, <<u, p>>, c)
      /\ chunk' = Restrict(chunk, DOMAIN chunk \ PartChunks(u, p))
      /\ UNCHANGED object
  BY DEF PutPart, Adjust, Adjusted, Upsert, objectVars
<1>2. IsFiniteSet(DOMAIN src) /\ DOMAIN src \subseteq Int
  BY PiecesFinite DEF Pieces
<1>3. IsBlobTable(blob)
  BY DEF BlobOK, IsBlobTable
<1> HIDE DEF src
<1>4. IsBlobTable(pieces)
  BY <1>2, <1>3, EnsureBlobsTable
<1>5. Balanced(pieces, object, chunk, part, extent)
  BY EnsureBlobsBalanced DEF InBalance
<1>6. Sources(pieces, src)
  BY <1>2 DEF Sources, EnsureBlobs
<1> HIDE DEF pieces
<1>7. Balanced(b, object, chunk, part, e)
  BY <1>4, <1>5, <1>6, EnsureCompositeBalanced
<1>8. c \in DOMAIN b
  BY CompositeStored
<1> HIDE DEF b, e
<1>9. \A x \in DOMAIN b : d[x] = One(x = c) - CountParts({<<u, p>>} \cap DOMAIN part, x)
                                            - CountChunks(PartChunks(u, p), x)
  OBVIOUS
<1> HIDE DEF d
<1>10. Balanced(blob', object, chunk', part', e)
  BY <1>1, <1>7, <1>8, <1>9, PartRowBalanced
<1> QED BY <1>1, <1>10 DEF InBalance

\* The end of every completion: the version becomes an owner while the
\* staging rows stop being owners.
LEMMA PublishBalanced ==
    ASSUME ObjectOK, NEW a, NEW u, NEW b, NEW e, NEW c, NEW et,
           Balanced(b, object, chunk, part, e), c \in DOMAIN b, PublishUpload(a, u, b, c, et)
    PROVE  Balanced(blob', object', chunk', part', e)
<1> DEFINE r == ReleaseUploads(b, {u})
           row == ObjectRow(upload[u].bucket, upload[u].key, {c}, {et})
           d == [x \in DOMAIN r |-> One(x = c)]
<1>1. /\ Adjusted(blob', r, d)
      /\ object' = AddRow(object, versionSeq, row)
      /\ chunk' = Restrict(chunk, DOMAIN chunk \ UploadChunks({u}))
      /\ part' = Restrict(part, DOMAIN part \ UploadParts({u}))
  BY DEF PublishUpload, DropUploads, InsertVersion, Adjust, Adjusted
<1>2. Balanced(r, object, chunk', part', e) /\ DOMAIN r = DOMAIN b
  BY <1>1, ReleaseBalanced
<1>3. row.blob = {c}
  BY DEF ObjectRow
<1> HIDE DEF r, row
<1>4. RefersTo(r, row.blob)
  BY <1>2, <1>3 DEF RefersTo
<1>5. \A x \in DOMAIN r : d[x] = One(row.blob = {x})
  BY <1>3 DEF One
<1> HIDE DEF d
<1>6. Balanced(blob', AddRow(object, versionSeq, row), chunk', part', e)
  BY <1>1, <1>2, <1>4, <1>5, NextVersionFresh, InsertBalanced
<1> QED BY <1>1, <1>6

\* The three completions of an upload.
LEMMA CompletionsBalanced ==
    ASSUME TypeOK, InBalance, NEW a, NEW u,
           \/ CompleteUpload(a, u) \/ WorkerCompleteUpload(a, u, Staged(u, 0))
           \/ \E nos \in BoundedSeq(PartNo, MaxParts) : CompleteMultipartUpload(a, u, nos)
    PROVE  InBalance'
<1>1. ObjectOK /\ IsBlobTable(blob)
  BY DEF TypeOK, BlobOK, IsBlobTable
<1>2. ASSUME NEW src, NEW c, NEW et, Sources(blob, src),
             extent' = CompositeExtents(blob, extent, c, src),
             PublishUpload(a, u, EnsureComposite(blob, c, src), c, et)
      PROVE  InBalance'
  <2> DEFINE b == EnsureComposite(blob, c, src)
             e == CompositeExtents(blob, extent, c, src)
  <2>1. Balanced(b, object, chunk, part, e)
    BY <1>1, <1>2, EnsureCompositeBalanced DEF InBalance
  <2>2. extent' = e /\ PublishUpload(a, u, b, c, et)
    BY <1>2
  <2>3. c \in DOMAIN b
    BY CompositeStored
  <2> HIDE DEF b, e
  <2> QED BY <1>1, <2>1, <2>2, <2>3, PublishBalanced DEF InBalance
<1>3. ASSUME NEW c, NEW et, UNCHANGED extent, PublishUpload(a, u, EnsureBlob(blob, c), c, et)
      PROVE  InBalance'
  <2> DEFINE b == EnsureBlob(blob, c)
  <2>1. Balanced(b, object, chunk, part, extent) /\ DOMAIN b = DOMAIN blob \cup {c}
    BY EnsureBlobBalanced DEF InBalance
  <2>2. PublishUpload(a, u, b, c, et)
    BY <1>3
  <2> HIDE DEF b
  <2>3. c \in DOMAIN b
    BY <2>1
  <2> QED BY <1>1, <1>3, <2>1, <2>2, <2>3, PublishBalanced DEF InBalance
<1>4. ASSUME Dense(u, 0)
      PROVE  Sources(blob, Staged(u, 0))
  BY <1>4, StagedSources
<1>5. CASE CompleteUpload(a, u)
  <2> DEFINE src == Staged(u, 0)
             c == FlattenSeq(src)
  <2>1. /\ Dense(u, 0)
        /\ \/ UNCHANGED extent /\ PublishUpload(a, u, EnsureBlob(blob, c), c, Etag(c))
           \/ /\ extent' = CompositeExtents(blob, extent, c, src)
              /\ PublishUpload(a, u, EnsureComposite(blob, c, src), c, Etag(c))
    BY <1>5 DEF CompleteUpload
  <2>2. Sources(blob, src)
    BY <1>4, <2>1
  <2> HIDE DEF src, c
  <2> QED BY <1>2, <1>3, <2>1, <2>2
<1>6. CASE WorkerCompleteUpload(a, u, Staged(u, 0))
  <2> DEFINE src == Staged(u, 0)
             c == FlattenSeq(src)
  <2>1. /\ Dense(u, 0)
        /\ \/ CompleteUpload(a, u)
           \/ /\ extent' = CompositeExtents(blob, extent, c, src)
              /\ PublishUpload(a, u, EnsureComposite(blob, c, src), c, Etag(c))
    BY <1>6 DEF WorkerCompleteUpload
  <2>2. Sources(blob, src)
    BY <1>4, <2>1
  <2> HIDE DEF src, c
  <2> QED BY <1>2, <1>5, <2>1, <2>2
<1>7. ASSUME NEW nos \in BoundedSeq(PartNo, MaxParts), CompleteMultipartUpload(a, u, nos)
      PROVE  InBalance'
  <2> DEFINE src == [i \in DOMAIN nos |-> part[<<u, nos[i]>>]]
             c == FlattenSeq(src)
  <2>1. /\ extent' = CompositeExtents(blob, extent, c, src)
        /\ PublishUpload(a, u, EnsureComposite(blob, c, src), c, MultipartEtag(src))
        /\ \A i \in DOMAIN nos : <<u, nos[i]>> \in DOMAIN part
    BY <1>7 DEF CompleteMultipartUpload
  <2>2. IsFiniteSet(DOMAIN src) /\ DOMAIN src \subseteq Int
    <3>1. PICK m \in 0 .. MaxParts : nos \in [1 .. m -> PartNo]
      BY DEF BoundedSeq, SeqOf
    <3>2. IsFiniteSet(1 .. m)
      BY FS_Interval, BoundsAssumption
    <3> QED BY <3>1, <3>2
  <2>3. Sources(blob, src)
    BY <2>1, <2>2 DEF InBalance, Balanced, Closed, Sources
  <2> HIDE DEF src, c
  <2> QED BY <1>2, <2>1, <2>3
<1> QED BY <1>5, <1>6, <1>7

\* abort_upload, delete_bucket and gc_pending_uploads drop uploads.
LEMMA DropBalanced ==
    ASSUME InBalance, NEW U, blob' = ReleaseUploads(blob, U), DropUploads(U),
           UNCHANGED <<object, extent>>
    PROVE  InBalance'
BY ReleaseBalanced DEF DropUploads, InBalance

\* gc_blobs: a blob whose count is due to extents of collected blobs alone has
\* no other owner, so that nothing keeps a reference to what is deleted.
LEMMA CollectedUnowned ==
    ASSUME InBalance, NEW D \in SUBSET DOMAIN blob, NEW c \in D, GcBlobs(D)
    PROVE  /\ \A v \in DOMAIN object : object[v].blob # {c}
           /\ \A r \in DOMAIN chunk : chunk[r] # c
           /\ \A r \in DOMAIN part : part[r] # c
           /\ \A e \in DOMAIN extent : extent[e] = c => e[1] \in D
<1> DEFINE own == {e \in DOMAIN extent : e[1] \in D /\ extent[e] = c}
           O == {v \in DOMAIN object : object[v].blob = {c}}
           C == {r \in DOMAIN chunk : chunk[r] = c}
           P == {r \in DOMAIN part : part[r] = c}
           E == {e \in DOMAIN extent : extent[e] = c}
<1>1. blob[c].refcount = Cardinality(own)
  BY DEF GcBlobs
<1>2. blob[c].refcount = Cardinality(O) + Cardinality(C) + Cardinality(P) + Cardinality(E)
  BY DEF InBalance, Balanced, Counted, Held, HeldRows
<1>3. IsFiniteSet(O) /\ IsFiniteSet(C) /\ IsFiniteSet(P) /\ IsFiniteSet(E)
  BY FS_Subset DEF InBalance, Balanced, AllFinite
<1>4. own \subseteq E
  OBVIOUS
<1> HIDE DEF own, O, C, P, E
<1>5. /\ Cardinality(O) \in Nat /\ Cardinality(C) \in Nat
      /\ Cardinality(P) \in Nat /\ Cardinality(E) \in Nat
  BY <1>3, FS_CardinalityType
<1>6. /\ Cardinality(own) \in Nat
      /\ Cardinality(E \ own) = Cardinality(E) - Cardinality(own)
  BY <1>3, <1>4, SplitCardinality
<1>7. IsFiniteSet(E \ own) /\ Cardinality(E \ own) \in Nat
  BY <1>3, FS_Subset, FS_CardinalityType
<1>8. /\ Cardinality(O) = 0 /\ Cardinality(C) = 0
      /\ Cardinality(P) = 0 /\ Cardinality(E \ own) = 0
  <2> DEFINE o == Cardinality(O)
             k == Cardinality(C)
             p == Cardinality(P)
             x == Cardinality(E)
             w == Cardinality(own)
             y == Cardinality(E \ own)
  <2>1. w = o + k + p + x /\ y = x - w
    BY <1>1, <1>2, <1>6
  <2>2. o \in Nat /\ k \in Nat /\ p \in Nat /\ x \in Nat /\ w \in Nat /\ y \in Nat
    BY <1>5, <1>6, <1>7
  <2> HIDE DEF o, k, p, x, w, y
  <2>3. o = 0 /\ k = 0 /\ p = 0 /\ y = 0
    BY <2>1, <2>2
  <2> QED BY <2>3 DEF o, k, p, y
<1>9. O = {} /\ C = {} /\ P = {} /\ E \ own = {}
  BY <1>3, <1>7, <1>8, FS_EmptySet
<1> QED BY <1>9 DEF own, O, C, P, E

\* gc_blobs releases the sources of the composites it deletes.
LEMMA GcBalanced ==
    ASSUME InBalance, NEW D \in SUBSET DOMAIN blob, GcBlobs(D)
    PROVE  InBalance'
<1> DEFINE own(c) == {e \in DOMAIN extent : e[1] \in D /\ extent[e] = c}
           b == Restrict(blob, DOMAIN blob \ D)
           R == {e \in DOMAIN extent : e[1] \in D}
           d == [x \in DOMAIN b |-> 0 - Cardinality(own(x))]
<1>1. Adjusted(blob', b, d) /\ UNCHANGED <<object, chunk, part>>
  BY DEF GcBlobs, Adjust, Adjusted, objectVars, uploadVars
<1>2. extent' = Restrict(extent, DOMAIN extent \ R)
  <2>1. {e \in DOMAIN extent : e[1] \notin D} = DOMAIN extent \ R
    OBVIOUS
  <2> QED BY <2>1 DEF GcBlobs
<1>3. /\ DOMAIN blob' = DOMAIN blob \ D
      /\ \A c \in DOMAIN blob' : blob'[c].refcount = blob[c].refcount - Cardinality(own(c))
  <2>1. DOMAIN b = DOMAIN blob \ D /\ \A c \in DOMAIN b : b[c] = blob[c]
    BY DEF Restrict
  <2>2. DOMAIN blob' = DOMAIN b /\ \A c \in DOMAIN b : blob'[c].refcount = b[c].refcount + d[c]
    <3> HIDE DEF b, d
    <3> QED BY <1>1 DEF Adjusted, BlobRow
  <2>3. \A c \in DOMAIN b : d[c] = 0 - Cardinality(own(c))
    OBVIOUS
  <2>4. ASSUME NEW c \in DOMAIN blob PROVE Cardinality(own(c)) \in Nat /\ blob[c].refcount \in Int
    <3>1. own(c) \subseteq DOMAIN extent
      OBVIOUS
    <3>2. Cardinality(own(c)) \in Nat
      BY <3>1, FS_Subset, FS_CardinalityType DEF InBalance, Balanced, AllFinite
    <3>3. /\ HeldRows(object, c) \in Nat /\ Held(chunk, c) \in Nat
          /\ Held(part, c) \in Nat /\ Held(extent, c) \in Nat
      BY HeldNat DEF InBalance, Balanced, AllFinite
    <3>4. blob[c].refcount = HeldRows(object, c) + Held(chunk, c) + Held(part, c) + Held(extent, c)
      BY DEF InBalance, Balanced, Counted
    <3> QED BY <3>2, <3>3, <3>4
  <2> HIDE DEF b, d, own
  <2> QED BY <2>1, <2>2, <2>3, <2>4
<1>4. R \subseteq DOMAIN extent /\ IsFiniteSet(DOMAIN extent)
  BY DEF InBalance, Balanced, AllFinite
<1>5. /\ DOMAIN extent' = {e \in DOMAIN extent : e[1] \notin D}
      /\ \A e \in DOMAIN extent' : extent'[e] = extent[e]
  BY <1>2 DEF Restrict
<1>6. ASSUME NEW c
      PROVE  /\ Held(extent', c) = Held(extent, c) - Cardinality(own(c))
             /\ Cardinality(own(c)) \in Nat
  <2>1. HeldIn(extent, R, c) = Cardinality(own(c))
    <3>1. {r \in R : extent[r] = c} = own(c)
      OBVIOUS
    <3> QED BY <3>1 DEF HeldIn
  <2>2. own(c) \subseteq DOMAIN extent
    OBVIOUS
  <2> HIDE DEF own, R
  <2>3. Cardinality(own(c)) \in Nat
    BY <1>4, <2>2, FS_Subset, FS_CardinalityType
  <2> QED BY <1>2, <1>4, <2>1, <2>3, HeldAfterDelete
<1> HIDE DEF own, b, R, d
<1>7. Counted(blob', object, chunk, part, extent')
  <2> SUFFICES ASSUME NEW c \in DOMAIN blob'
               PROVE  blob'[c].refcount
                        = HeldRows(object, c) + Held(chunk, c) + Held(part, c) + Held(extent', c)
    BY DEF Counted
  <2>1. /\ HeldRows(object, c) \in Nat /\ Held(chunk, c) \in Nat
        /\ Held(part, c) \in Nat /\ Held(extent, c) \in Nat
    BY HeldNat DEF InBalance, Balanced, AllFinite
  <2>2. blob[c].refcount = HeldRows(object, c) + Held(chunk, c) + Held(part, c) + Held(extent, c)
    BY <1>3 DEF InBalance, Balanced, Counted
  <2> QED BY <1>3, <1>6, <2>1, <2>2
<1>8. Closed(blob', object, chunk, part, extent')
  <2>1. \A v \in DOMAIN object : RefersTo(blob', object[v].blob)
    BY <1>3, CollectedUnowned DEF InBalance, Balanced, Closed, RefersTo
  <2>2. /\ \A r \in DOMAIN chunk : chunk[r] \in DOMAIN blob'
        /\ \A r \in DOMAIN part : part[r] \in DOMAIN blob'
    BY <1>3, CollectedUnowned DEF InBalance, Balanced, Closed
  <2>3. \A e \in DOMAIN extent' : e[1] \in DOMAIN blob' /\ extent'[e] \in DOMAIN blob'
    BY <1>3, <1>5, CollectedUnowned DEF InBalance, Balanced, Closed
  <2> QED BY <2>1, <2>2, <2>3 DEF Closed
<1>9. AllFinite(object, chunk, part, extent')
  <2>1. DOMAIN extent' \subseteq DOMAIN extent
    BY <1>5
  <2> QED BY <2>1, FS_Subset DEF InBalance, Balanced, AllFinite
<1> QED BY <1>1, <1>7, <1>8, <1>9 DEF InBalance, Balanced

\* The balance through every action.
LEMMA BalancePreserved ==
    ASSUME TypeOK, LatestIsNewest, InBalance, [Next]_vars
    PROVE  InBalance'
<1>1. ObjectOK /\ BlobOK /\ ObjectOK'
  BY ObjectPreserved DEF TypeOK
<1>2. CASE UNCHANGED <<blob, object, chunk, part, extent>>
  BY <1>2 DEF InBalance
<1>3. CASE BucketStep
  <2>1. ASSUME NEW a, NEW n, CreateBucket(a, n) PROVE InBalance'
    BY <1>2, <2>1 DEF CreateBucket, objectVars, uploadVars
  <2>2. ASSUME NEW a, NEW n, DeleteBucket(a, n) PROVE InBalance'
    BY <2>2, DropBalanced DEF DeleteBucket, objectVars
  <2> QED BY <1>3, <2>1, <2>2 DEF BucketStep
<1>4. CASE ObjectStep
  <2>1. ASSUME NEW a, NEW n, NEW k, NEW c, NEW cd, Put(a, n, k, c, cd) PROVE InBalance'
    BY <1>1, <2>1, PutBalanced
  <2>2. ASSUME NEW a, NEW n, NEW k, NEW ver, Delete(a, n, k, ver) PROVE InBalance'
    BY <2>2, DeletesBalanced
  <2>3. ASSUME NEW a, NEW n, NEW k, NEW ver, NEW k2, NEW ver2,
               DeleteMany(a, n, k, ver, k2, ver2)
        PROVE  InBalance'
    BY <2>3, DeletesBalanced
  <2>4. ASSUME NEW a, NEW n, NEW k, NEW ver, NEW n2, NEW k2, NEW match, NEW cd,
               Copy(a, n, k, ver, n2, k2, match, cd)
        PROVE  InBalance'
    BY <1>1, <2>4, ReferenceBalanced DEF Copy, Versions
  <2>5. ASSUME NEW a, NEW n, NEW k, NEW v, NEW match, RestoreVersion(a, n, k, v, match)
        PROVE  InBalance'
    BY <1>1, <2>5, ReferenceBalanced DEF RestoreVersion, Versions
  <2> QED BY <1>4, <2>1, <2>2, <2>3, <2>4, <2>5 DEF ObjectStep
<1>5. CASE ForkStep
  BY <1>1, <1>5, ForkBalanced DEF ForkStep
<1>6. CASE UploadStep
  <2>1. ASSUME NEW a, NEW n, NEW k, NEW u, NEW multi, NEW cd, NEW expected,
               BeginUpload(a, n, k, u, multi, cd, expected)
        PROVE  InBalance'
    BY <1>2, <2>1 DEF BeginUpload, objectVars
  <2>2. ASSUME NEW a, NEW u, RenewUpload(a, u) PROVE InBalance'
    BY <1>2, <2>2 DEF RenewUpload, objectVars
  <2>3. ASSUME NEW a, NEW u, AbortUpload(a, u) PROVE InBalance'
    BY <2>3, DropBalanced DEF AbortUpload, objectVars
  <2> QED BY <1>1, <1>6, <2>1, <2>2, <2>3, PutChunkBalanced, BeginPartBalanced,
        CompletePartBalanced, PutPartBalanced, CompletionsBalanced DEF UploadStep
<1>7. CASE TimeStep
  BY <1>2, <1>7 DEF TimeStep, LeaseExpires, StagingAges, objectVars
<1>8. CASE GcStep
  <2>1. ASSUME NEW U, GcPendingUploads(U) PROVE InBalance'
    BY <2>1, DropBalanced DEF GcPendingUploads, objectVars
  <2> QED BY <1>8, <2>1, GcBalanced DEF GcStep
<1>9. CASE UNCHANGED vars
  BY <1>2, <1>9 DEF vars, objectVars, uploadVars
<1> QED BY <1>3, <1>4, <1>5, <1>6, <1>7, <1>8, <1>9 DEF Next

-----------------------------------------------------------------------------
(* Rows keep the bucket and the upload they belong to.                     *)

\* The bucket with this id exists.
HasBucket(id) == \E n \in DOMAIN bucket : bucket[n].id = id

\* Versions and uploads have their bucket, staged rows their upload.
Anchored ==
    /\ \A v \in DOMAIN object : HasBucket(object[v].bucket)
    /\ \A u \in DOMAIN upload : HasBucket(upload[u].bucket)
    /\ \A r \in DOMAIN chunk : r[1] \in DOMAIN upload
    /\ \A r \in DOMAIN part : r[1] \in DOMAIN upload

\* Rows of a step that keeps the buckets: an object row is an old one or of a
\* known bucket.
LEMMA ObjectsAnchored ==
    ASSUME Anchored, UNCHANGED <<bucket, uploadVars>>, NEW b, HasBucket(b),
           \A v \in DOMAIN object' :
                \/ v \in DOMAIN object /\ object'[v] = object[v]
                \/ object'[v].bucket = b
    PROVE  Anchored'
BY DEF Anchored, HasBucket, uploadVars

\* Dropping uploads drops their chunks and parts with them.
LEMMA DropAnchored ==
    ASSUME Anchored, NEW U, DropUploads(U)
    PROVE  /\ DOMAIN upload' = DOMAIN upload \ U
           /\ \A u \in DOMAIN upload' : upload'[u] = upload[u]
           /\ \A r \in DOMAIN chunk' : r[1] \in DOMAIN upload'
           /\ \A r \in DOMAIN part' : r[1] \in DOMAIN upload'
BY DEF DropUploads, Restrict, UploadChunks, UploadParts, Anchored

\* A step that only touches staging rows of one upload.
LEMMA StagingAnchored ==
    ASSUME Anchored, NEW u \in DOMAIN upload, UNCHANGED <<bucket, object, upload>>,
           \A r \in DOMAIN chunk' : r \in DOMAIN chunk \/ r[1] = u,
           \A r \in DOMAIN part' : r \in DOMAIN part \/ r[1] = u
    PROVE  Anchored'
BY DEF Anchored, HasBucket

\* A step that publishes a row of bucket b and drops uploads.
LEMMA PublishAnchored ==
    ASSUME Anchored, ObjectOK, NEW a, NEW u \in DOMAIN upload, NEW b, NEW c, NEW e,
           PublishUpload(a, u, b, c, e)
    PROVE  Anchored'
<1>1. /\ object' = AddRow(object, versionSeq,
                          ObjectRow(upload[u].bucket, upload[u].key, {c}, {e}))
      /\ UNCHANGED bucket /\ DropUploads({u})
  BY DEF PublishUpload, InsertVersion
<1>2. \A v \in DOMAIN object' :
        \/ v \in DOMAIN object /\ object'[v] = object[v]
        \/ object'[v].bucket = upload[u].bucket
  BY <1>1, NextVersionFresh DEF AddRow, ObjectRow
<1>3. /\ \A w \in DOMAIN upload' : w \in DOMAIN upload /\ upload'[w] = upload[w]
      /\ \A r \in DOMAIN chunk' : r[1] \in DOMAIN upload'
      /\ \A r \in DOMAIN part' : r[1] \in DOMAIN upload'
  BY <1>1, DropAnchored
<1> QED BY <1>1, <1>2, <1>3 DEF Anchored, HasBucket

\* The parents through every action.
LEMMA AnchoredPreserved ==
    ASSUME TypeOK, Anchored, [Next]_vars
    PROVE  Anchored'
<1>1. ObjectOK
  BY DEF TypeOK
<1>2. CASE UNCHANGED <<bucket, object, upload, chunk, part>>
  BY <1>2 DEF Anchored, HasBucket
<1>3. ASSUME NEW a, NEW n, Visible(a, n) PROVE HasBucket(bucket[n].id)
  BY <1>3 DEF Visible, HasBucket
<1>4. CASE BucketStep
  <2>1. ASSUME NEW a, NEW n, CreateBucket(a, n) PROVE Anchored'
    <3>1. /\ DOMAIN bucket \subseteq DOMAIN bucket'
          /\ \A m \in DOMAIN bucket : bucket'[m] = bucket[m]
          /\ UNCHANGED <<object, upload, chunk, part>>
      BY <2>1 DEF CreateBucket, AddBucket, objectVars, uploadVars
    <3> QED BY <3>1 DEF Anchored, HasBucket
  <2>2. ASSUME NEW a, NEW n, DeleteBucket(a, n) PROVE Anchored'
    <3> DEFINE U == {u \in DOMAIN upload : upload[u].bucket = bucket[n].id}
    <3>1. /\ DropUploads(U) /\ UNCHANGED object
          /\ DOMAIN bucket' = DOMAIN bucket \ {n}
          /\ \A m \in DOMAIN bucket' : bucket'[m] = bucket[m]
          /\ \A v \in DOMAIN object : object[v].bucket # bucket[n].id
      BY <2>2 DEF DeleteBucket, objectVars, Restrict
    <3>2. ASSUME NEW id, HasBucket(id), id # bucket[n].id
          PROVE  \E m \in DOMAIN bucket' : bucket'[m].id = id
      BY <3>1, <3>2 DEF HasBucket
    <3>3. \A u \in DOMAIN upload : upload[u].bucket = bucket[n].id => u \in U
      OBVIOUS
    <3> HIDE DEF U
    <3>4. /\ DOMAIN upload' = DOMAIN upload \ U
          /\ \A u \in DOMAIN upload' : upload'[u] = upload[u]
          /\ \A r \in DOMAIN chunk' : r[1] \in DOMAIN upload'
          /\ \A r \in DOMAIN part' : r[1] \in DOMAIN upload'
      BY <3>1, DropAnchored
    <3>5. \A u \in DOMAIN upload' : \E m \in DOMAIN bucket' : bucket'[m].id = upload'[u].bucket
      BY <3>2, <3>3, <3>4 DEF Anchored
    <3>6. \A v \in DOMAIN object' : \E m \in DOMAIN bucket' : bucket'[m].id = object'[v].bucket
      BY <3>1, <3>2 DEF Anchored
    <3> QED BY <3>4, <3>5, <3>6 DEF Anchored, HasBucket
  <2> QED BY <1>4, <2>1, <2>2 DEF BucketStep
<1>5. CASE ObjectStep
  <2>1. ASSUME NEW b, NEW k, NEW c, NEW e, InsertVersion(b, k, c, e), HasBucket(b),
               UNCHANGED <<bucket, uploadVars>>
        PROVE  Anchored'
    <3>1. \A v \in DOMAIN object' :
            \/ v \in DOMAIN object /\ object'[v] = object[v]
            \/ object'[v].bucket = b
      BY <1>1, <2>1, NextVersionFresh DEF InsertVersion, AddRow, ObjectRow
    <3> QED BY <2>1, <3>1, ObjectsAnchored
  <2>2. ASSUME NEW a, NEW n, NEW k, NEW c, NEW cd, Put(a, n, k, c, cd) PROVE Anchored'
    BY <1>3, <2>1, <2>2 DEF Put
  <2>3. ASSUME NEW b, NEW k, NEW v, NEW cd, CommitReference(b, k, v, cd), HasBucket(b)
        PROVE  Anchored'
    BY <2>1, <2>3 DEF CommitReference
  <2>4. ASSUME NEW a, NEW n, NEW k, NEW ver, NEW n2, NEW k2, NEW match, NEW cd,
               Copy(a, n, k, ver, n2, k2, match, cd)
        PROVE  Anchored'
    BY <1>3, <2>3, <2>4 DEF Copy
  <2>5. ASSUME NEW a, NEW n, NEW k, NEW v, NEW match, RestoreVersion(a, n, k, v, match)
        PROVE  Anchored'
    BY <1>3, <2>3, <2>5 DEF RestoreVersion
  <2>6. ASSUME NEW a, NEW n, NEW k, NEW ver, NEW k2, NEW ver2,
               Delete(a, n, k, ver) \/ DeleteMany(a, n, k, ver, k2, ver2)
        PROVE  Anchored'
    <3> DEFINE b == bucket[n].id
               s == DeleteOne(Tables, b, k, ver)
               t == DeleteOne(s, b, k2, ver2)
    <3>1. /\ object' = s.object \/ object' = t.object
          /\ UNCHANGED <<bucket, uploadVars>> /\ Visible(a, n)
      BY <2>6 DEF Delete, DeleteMany, Commit
    <3>2. HasBucket(b)
      BY <1>3, <3>1
    <3>3. Tables.object = object
      BY DEF Tables
    <3> HIDE DEF b
    <3>4. \A v \in DOMAIN s.object :
            \/ v \in DOMAIN object /\ s.object[v] = object[v]
            \/ s.object[v] = ObjectRow(b, k, {}, {})
      BY <3>3, DeleteOneRows
    <3> HIDE DEF s
    <3>5. \A v \in DOMAIN t.object :
            \/ v \in DOMAIN s.object /\ t.object[v] = s.object[v]
            \/ t.object[v] = ObjectRow(b, k2, {}, {})
      BY DeleteOneRows
    <3> HIDE DEF t
    <3>6. \A v \in DOMAIN object' :
            \/ v \in DOMAIN object /\ object'[v] = object[v]
            \/ object'[v].bucket = b
      BY <3>1, <3>4, <3>5 DEF ObjectRow
    <3> QED BY <3>1, <3>2, <3>6, ObjectsAnchored
  <2> QED BY <1>5, <2>2, <2>4, <2>5, <2>6 DEF ObjectStep
<1>6. CASE ForkStep
  <2>1. PICK a \in Role, n \in BucketName, n2 \in BucketName : Fork(a, n, n2)
    BY <1>6 DEF ForkStep
  <2>2. /\ DOMAIN bucket' = DOMAIN bucket \cup {n2} /\ bucket'[n2].id = bucketSeq
        /\ \A m \in DOMAIN bucket : bucket'[m] = bucket[m]
        /\ UNCHANGED <<upload, chunk, part>>
    BY <2>1 DEF Fork, AddBucket, uploadVars
  <2> DEFINE rows == {v \in latest : object[v].bucket = bucket[n].id}
             fresh == versionSeq .. (versionSeq + Cardinality(rows) - 1)
  <2>3. PICK scan \in Bijection(fresh, rows) :
            object' = [w \in DOMAIN object \cup fresh |->
                        IF w \in fresh
                        THEN ObjectRow(bucketSeq, object[scan[w]].key,
                                       object[scan[w]].blob, object[scan[w]].etag)
                        ELSE object[w]]
    BY <2>1 DEF Fork
  <2> HIDE DEF rows, fresh
  <2>4. \A v \in DOMAIN object' :
            \/ v \in DOMAIN object /\ object'[v] = object[v]
            \/ object'[v].bucket = bucketSeq
    BY <2>3 DEF ObjectRow
  <2> QED BY <2>2, <2>4 DEF Anchored, HasBucket
<1>7. CASE UploadStep
  <2>1. ASSUME NEW a, NEW n, NEW k, NEW u, NEW multi, NEW cd, NEW expected,
               BeginUpload(a, n, k, u, multi, cd, expected)
        PROVE  Anchored'
    <3>1. /\ DOMAIN upload' = DOMAIN upload \cup {u}
          /\ upload'[u].bucket = bucket[n].id
          /\ \A w \in DOMAIN upload : upload'[w] = upload[w] \/ w = u
          /\ UNCHANGED <<bucket, object, chunk, part>> /\ Visible(a, n)
      BY <2>1 DEF BeginUpload, objectVars
    <3> QED BY <1>3, <3>1 DEF Anchored, HasBucket
  <2>2. ASSUME NEW a, NEW u, RenewUpload(a, u) PROVE Anchored'
    BY <1>2, <2>2 DEF RenewUpload, objectVars
  <2>3. ASSUME NEW a, NEW u, NEW p,
               \/ BeginPart(a, u, p) \/ CompletePart(a, u, p)
               \/ \E s, c : PutChunk(a, u, p, s, c)
               \/ \E c : PutPart(a, u, p, c)
        PROVE  Anchored'
    <3> DEFINE Staging == /\ \A r \in DOMAIN chunk' : r \in DOMAIN chunk \/ r[1] = u
                          /\ \A r \in DOMAIN part' : r \in DOMAIN part \/ r[1] = u
    <3>1. u \in DOMAIN upload /\ UNCHANGED <<bucket, object, upload>>
      BY <2>3 DEF BeginPart, CompletePart, PutChunk, PutPart, Mutates, ForUpdate, objectVars
    <3>2. CASE BeginPart(a, u, p)
      <4>1. Staging
        BY <3>2 DEF BeginPart, Restrict
      <4> QED BY <3>1, <4>1, StagingAnchored
    <3>3. CASE CompletePart(a, u, p)
      <4>1. /\ DOMAIN chunk' \subseteq DOMAIN chunk
            /\ DOMAIN part' = DOMAIN part \cup {<<u, p>>}
        BY <3>3 DEF CompletePart, Restrict
      <4>2. Staging
        BY <4>1
      <4> QED BY <3>1, <4>2, StagingAnchored
    <3>4. ASSUME NEW s, NEW c, PutChunk(a, u, p, s, c) PROVE Anchored'
      <4>1. /\ DOMAIN part' \subseteq DOMAIN part
            /\ DOMAIN chunk' = DOMAIN chunk \cup {<<u, p, s>>}
        BY <3>4 DEF PutChunk, Restrict
      <4>2. Staging
        BY <4>1
      <4> QED BY <3>1, <4>2, StagingAnchored
    <3>5. ASSUME NEW c, PutPart(a, u, p, c) PROVE Anchored'
      <4>1. /\ DOMAIN chunk' \subseteq DOMAIN chunk
            /\ DOMAIN part' = DOMAIN part \cup {<<u, p>>}
        BY <3>5 DEF PutPart, Restrict
      <4>2. Staging
        BY <4>1
      <4> QED BY <3>1, <4>2, StagingAnchored
    <3> QED BY <2>3, <3>2, <3>3, <3>4, <3>5
  <2>4. ASSUME NEW a, NEW u,
               \/ CompleteUpload(a, u) \/ WorkerCompleteUpload(a, u, Staged(u, 0))
               \/ \E nos \in BoundedSeq(PartNo, MaxParts) : CompleteMultipartUpload(a, u, nos)
        PROVE  Anchored'
    BY <1>1, <2>4, PublishAnchored
      DEF CompleteUpload, WorkerCompleteUpload, CompleteMultipartUpload, ForUpdate
  <2>5. ASSUME NEW a, NEW u, AbortUpload(a, u) PROVE Anchored'
    BY <2>5, DropAnchored DEF AbortUpload, Anchored, HasBucket, objectVars
  <2> QED BY <1>7, <2>1, <2>2, <2>3, <2>4, <2>5 DEF UploadStep
<1>8. CASE TimeStep
  BY <1>2, <1>8 DEF TimeStep, LeaseExpires, StagingAges, objectVars
<1>9. CASE GcStep
  <2>1. ASSUME NEW U, GcPendingUploads(U) PROVE Anchored'
    <3>1. /\ DropUploads(U) /\ UNCHANGED <<bucket, object>>
      BY <2>1 DEF GcPendingUploads, objectVars
    <3>2. /\ \A u \in DOMAIN upload' : u \in DOMAIN upload /\ upload'[u] = upload[u]
          /\ \A r \in DOMAIN chunk' : r[1] \in DOMAIN upload'
          /\ \A r \in DOMAIN part' : r[1] \in DOMAIN upload'
      BY <3>1, DropAnchored
    <3> QED BY <3>1, <3>2 DEF Anchored, HasBucket
  <2>2. ASSUME NEW D, GcBlobs(D) PROVE Anchored'
    BY <1>2, <2>2 DEF GcBlobs, objectVars, uploadVars
  <2> QED BY <1>9, <2>1, <2>2 DEF GcStep
<1>10. CASE UNCHANGED vars
  BY <1>2, <1>10 DEF vars, objectVars, uploadVars
<1> QED BY <1>4, <1>5, <1>6, <1>7, <1>8, <1>9, <1>10 DEF Next

-----------------------------------------------------------------------------
(* The theorems.                                                           *)

\* Counts and references together: that gc_blobs leaves no dangling reference
\* rests on the counts being exact, and that they stay exact rests on new
\* rows being unowned, which is that nothing dangles.
THEOREM ReferenceInvariant == Spec => [](InBalance /\ Anchored)
<1>1. Init => InBalance /\ Anchored
  <2> SUFFICES ASSUME Init PROVE InBalance /\ Anchored
    OBVIOUS
  <2>1. /\ DOMAIN object = {} /\ DOMAIN chunk = {} /\ DOMAIN part = {}
        /\ DOMAIN extent = {} /\ DOMAIN blob = {} /\ DOMAIN upload = {}
    BY DEF Init, Empty
  <2>2. IsFiniteSet({})
    BY FS_EmptySet
  <2> QED BY <2>1, <2>2 DEF InBalance, Balanced, AllFinite, Counted, Closed, Anchored
<1>2. TypeOK /\ LatestIsNewest /\ InBalance /\ Anchored /\ [Next]_vars => (InBalance /\ Anchored)'
  <2> SUFFICES ASSUME TypeOK, LatestIsNewest, InBalance, Anchored, [Next]_vars
               PROVE  InBalance' /\ Anchored'
    OBVIOUS
  <2> QED BY BalancePreserved, AnchoredPreserved
<1> QED BY <1>1, <1>2, HistoryInvariant, PTL DEF Spec

\* The refcount column equals the number of object, chunk, part and extent
\* rows that own the blob, after any sequence of calls.
THEOREM RefcountsAlwaysExact == Spec => []RefcountExact
<1>1. InBalance /\ Anchored => RefcountExact
  BY DEF InBalance, Balanced, Counted, Held, HeldRows, RefcountExact
<1> QED BY <1>1, ReferenceInvariant, PTL

\* No row ever refers to a blob, a bucket or an upload that is gone.
THEOREM NothingDangles == Spec => []NoDangling
<1>1. InBalance /\ Anchored => NoDangling
  BY DEF InBalance, Balanced, Closed, RefersTo, Anchored, HasBucket, NoDangling
<1> QED BY <1>1, ReferenceInvariant, PTL

-----------------------------------------------------------------------------
(* The pieces of a part, and the heights of composites.                    *)

\* The pieces of put_part end where the next one starts.
CutAt(c, i) == IF i * ChunkSize < Len(c) THEN i * ChunkSize ELSE Len(c)

\* They lie within the body, in order.
LEMMA CutsAscend ==
    ASSUME NEW S, NEW c \in Seq(S), NEW i \in Nat
    PROVE  /\ CutAt(c, i) \in 0 .. Len(c)
           /\ i # 0 => CutAt(c, i - 1) \in 0 .. CutAt(c, i)
<1>1. Len(c) \in Nat
  OBVIOUS
<1>2. i * ChunkSize \in Nat
  BY BoundsAssumption
<1>3. i # 0 => (i - 1) * ChunkSize = i * ChunkSize - ChunkSize
  BY BoundsAssumption
<1>4. ChunkSize \in Nat
  BY BoundsAssumption
<1> DEFINE z == i * ChunkSize
<1>. HIDE DEF z
<1> QED BY <1>1, <1>2, <1>3, <1>4 DEF z, CutAt

\* The last piece ends where the body does.
LEMMA LastCut ==
    ASSUME NEW S, NEW c \in Seq(S), c # <<>>
    PROVE  /\ (Len(c) - 1) \div ChunkSize \in Nat
           /\ CutAt(c, (Len(c) - 1) \div ChunkSize + 1) = Len(c)
           /\ \A i \in 1 .. (Len(c) - 1) \div ChunkSize + 1 : (i - 1) * ChunkSize <= Len(c)
<1> DEFINE q == (Len(c) - 1) \div ChunkSize
<1>1. Len(c) \in Nat \ {0} /\ ChunkSize \in Nat \ {0}
  BY BoundsAssumption, EmptySeq
<1>2. q \in Nat /\ (q + 1) * ChunkSize >= Len(c)
  BY <1>1, SMT
<1>3. q * ChunkSize <= Len(c) - 1
  BY <1>1, SMT
<1>4. ASSUME NEW i \in 1 .. q + 1 PROVE (i - 1) * ChunkSize <= q * ChunkSize
  <2> DEFINE j == q - (i - 1)
  <2>1. j \in Nat /\ q = (i - 1) + j
    BY <1>2
  <2>2. j * ChunkSize \in Nat /\ (i - 1) * ChunkSize \in Nat
    BY <1>1, <2>1
  <2>3. ((i - 1) + j) * ChunkSize = (i - 1) * ChunkSize + j * ChunkSize
    BY <1>1, <2>1
  <2> HIDE DEF j, q
  <2> QED BY <2>1, <2>2, <2>3
<1>5. \A i \in 1 .. q + 1 : (i - 1) * ChunkSize <= Len(c)
  <2> SUFFICES ASSUME NEW i \in 1 .. q + 1 PROVE (i - 1) * ChunkSize <= Len(c)
    OBVIOUS
  <2>1. (i - 1) * ChunkSize \in Int /\ q * ChunkSize \in Int
    BY <1>1, <1>2
  <2> HIDE DEF q
  <2> QED BY <1>1, <1>3, <1>4, <2>1
<1> QED BY <1>1, <1>2, <1>5 DEF CutAt

\* The pieces of put_part, cut at ChunkSize, spell the body they are cut from.
LEMMA PiecesSpell ==
    ASSUME NEW c \in PartBody
    PROVE  /\ FlattenSeq(Pieces(c)) = c
           /\ \E n \in Nat : DOMAIN Pieces(c) = 1 .. n
           /\ Pieces(c) = [i \in DOMAIN Pieces(c) |-> Pieces(c)[i]]
<1> DEFINE S == Range(c)
           n == IF c = <<>> THEN 1 ELSE (Len(c) - 1) \div ChunkSize + 1
           src == Pieces(c)
           g == [i \in 1 .. n |-> SubSeq(c, 1, CutAt(c, i))]
<1>1. c \in Seq(S)
  BY BodyAssumption
<1>2. /\ n \in Nat \ {0} /\ CutAt(c, n) = Len(c)
      /\ \A i \in 1 .. n : (i - 1) * ChunkSize <= Len(c)
  <2>1. CASE c = <<>>
    BY <2>1, BoundsAssumption DEF CutAt
  <2>2. CASE c # <<>>
    BY <1>1, <2>2, LastCut
  <2> QED BY <2>1, <2>2
<1>3. src = [i \in 1 .. n |-> SubSeq(c, CutAt(c, i - 1) + 1, CutAt(c, i))]
  <2>1. ASSUME NEW i \in 1 .. n
        PROVE  SubSeq(c, (i - 1) * ChunkSize + 1, IF i * ChunkSize < Len(c) THEN i * ChunkSize ELSE Len(c))
                  = SubSeq(c, CutAt(c, i - 1) + 1, CutAt(c, i))
    <3>1. (i - 1) * ChunkSize <= Len(c)
      BY <1>2
    <3>2. CutAt(c, i - 1) = (i - 1) * ChunkSize
      BY <1>1, <3>1, BoundsAssumption DEF CutAt
    <3> QED BY <3>2 DEF CutAt
  <2> QED BY <2>1 DEF Pieces
<1>4. Len(src) = n /\ DOMAIN src = 1 .. n
  BY <1>2, <1>3
<1> HIDE DEF n, src, S
<1>5. \A i \in 1 .. n : i # 1 => g[i - 1] \o src[i] = g[i]
  <2> SUFFICES ASSUME NEW i \in 1 .. n, i # 1 PROVE g[i - 1] \o src[i] = g[i]
    OBVIOUS
  <2>1. i \in Nat /\ i - 1 \in 1 .. n /\ i # 0
    BY <1>2
  <2>2. CutAt(c, i) \in 0 .. Len(c) /\ CutAt(c, i - 1) \in 0 .. CutAt(c, i)
    BY <1>1, <2>1, CutsAscend
  <2> DEFINE x == CutAt(c, i - 1)
             y == CutAt(c, i)
  <2>3. g[i - 1] = SubSeq(c, 1, x) /\ g[i] = SubSeq(c, 1, y) /\ src[i] = SubSeq(c, x + 1, y)
    BY <1>3, <2>1
  <2> HIDE DEF g, x, y
  <2>4. /\ 1 \in 1 .. Len(c) + 1 /\ x \in 1 - 1 .. Len(c) /\ y \in x .. Len(c)
    BY <1>1, <2>2 DEF x, y
  <2>5. SubSeq(c, 1, x) \o SubSeq(c, x + 1, y) = SubSeq(c, 1, y)
    BY <1>1, <2>4, ConcatAdjacentSubSeq
  <2> QED BY <2>3, <2>5
<1>6. src[1] = g[1]
  <2>1. CutAt(c, 0) = 0
    BY <1>1, BoundsAssumption DEF CutAt
  <2>2. 1 - 1 = 0
    OBVIOUS
  <2> QED BY <1>2, <1>3, <2>1, <2>2
<1>7. Joins(g, src, n)
  BY <1>2, <1>4, <1>5, <1>6 DEF Joins
<1>8. FlattenSeq(src) = g[n]
  <2> HIDE DEF g
  <2> QED BY <1>2, <1>4, <1>7, FlattenUnfolds
<1>9. g[n] = c
  BY <1>1, <1>2, SubSeqFull
<1> QED BY <1>2, <1>3, <1>4, <1>8, <1>9 DEF src
\* A composite is higher than each of its sources.
LEMMA HeightAbove ==
    ASSUME NEW b, NEW src, NEW n \in Nat, DOMAIN src = 1 .. n,
           \A i \in DOMAIN src : b[src[i]].height \in Nat
    PROVE  /\ HeightOver(b, src) \in Nat
           /\ \A i \in DOMAIN src : b[src[i]].height < HeightOver(b, src)
<1> DEFINE h == [i \in 1 .. n |-> b[src[i]].height]
           T == {b[src[i]].height : i \in DOMAIN src} \cup {0}
           Bounds == {B \in Nat : \A x \in T : x <= B}
<1>1. T \subseteq Nat /\ 0 \in T
  OBVIOUS
<1>2. Bounds # {}
  <2>1. \A i \in 1 .. n : h[i] \in Nat
    OBVIOUS
  <2>2. PICK B \in Nat : \A i \in 1 .. n : h[i] <= B
    <3> HIDE DEF h
    <3> QED BY <2>1, BoundExists
  <2>3. \A x \in T : x <= B
    BY <2>2
  <2> QED BY <2>3
<1>3. PICK B \in Bounds : \A C \in Bounds : B <= C
  <2>1. Bounds \subseteq Nat
    OBVIOUS
  <2> HIDE DEF Bounds
  <2> QED BY <1>2, <2>1, LeastNatural
<1>4. \A i \in DOMAIN src : b[src[i]].height \in T
  OBVIOUS
<1>5. HeightOver(b, src) = 1 + Max(T)
  BY DEF HeightOver
<1> HIDE DEF T
<1>6. B \in T
  <2> SUFFICES ASSUME B \notin T PROVE FALSE
    OBVIOUS
  <2>1. B \in Nat /\ \A x \in T : x <= B
    BY <1>3
  <2>2. B # 0
    BY <1>1
  <2>3. B - 1 \in Nat /\ \A x \in T : x <= B - 1
    BY <1>1, <2>1, <2>2
  <2>4. B - 1 \in Bounds
    BY <2>3
  <2> HIDE DEF Bounds
  <2> QED BY <1>3, <2>1, <2>4
<1>7. \A x \in T : B >= x
  BY <1>1, <1>3
<1>8. Max(T) \in T /\ \A x \in T : Max(T) >= x
  BY <1>6, <1>7 DEF Max
<1>9. ASSUME NEW i \in DOMAIN src PROVE b[src[i]].height < HeightOver(b, src)
  <2> DEFINE x == b[src[i]].height
             y == Max(T)
  <2>1. x \in Nat /\ y \in Nat /\ y >= x /\ HeightOver(b, src) = 1 + y
    BY <1>1, <1>4, <1>5, <1>8
  <2>2. x < HeightOver(b, src)
    <3> HIDE DEF x, y
    <3> QED BY <2>1
  <2> QED BY <2>2
<1>10. HeightOver(b, src) \in Nat
  <2>1. Max(T) \in Nat
    BY <1>1, <1>8
  <2> QED BY <1>5, <2>1
<1> QED BY <1>9, <1>10

-----------------------------------------------------------------------------
(* How steps change the blob table.                                        *)

\* The blob tables b and n differ in counts only.
SameRows(b, n) ==
    /\ DOMAIN n = DOMAIN b
    /\ \A c \in DOMAIN b : n[c].kind = b[c].kind /\ n[c].height = b[c].height

\* The sequence src of blobs stored in b spells the body c.
Spells(b, src, c) ==
    /\ \E n \in Nat : DOMAIN src = 1 .. n
    /\ src = [i \in DOMAIN src |-> src[i]]
    /\ \A i \in DOMAIN src : src[i] \in DOMAIN b
    /\ FlattenSeq(src) = c

\* The blob table with the composite c over src, and its extents.
Composes(b, e, c, src, n, f) ==
    /\ Spells(b, src, c)
    /\ SameRows(EnsureComposite(b, c, src), n)
    /\ f = CompositeExtents(b, e, c, src)

\* What a step other than gc_blobs does to blobs and extents.
Grows ==
    \/ SameRows(blob, blob') /\ UNCHANGED extent
    \/ \E c : SameRows(EnsureBlob(blob, c), blob') /\ UNCHANGED extent
    \/ \E c, src : Composes(blob, extent, c, src, blob', extent')
    \/ \E c, src : Composes(EnsureBlobs(blob, src), extent, c, src, blob', extent')

\* The refcount triggers change counts only.
LEMMA AdjustSame ==
    ASSUME NEW b, NEW n, NEW d, Adjusted(n, b, d)
    PROVE  SameRows(b, n)
BY DEF Adjusted, BlobRow, SameRows

\* Changes of counts add up to a change of counts.
LEMMA SameTransitive ==
    ASSUME NEW b, NEW m, NEW n, SameRows(b, m), SameRows(m, n)
    PROVE  SameRows(b, n)
BY DEF SameRows

\* Releasing uploads changes counts only.
LEMMA ReleaseSame ==
    ASSUME NEW b, NEW U
    PROVE  SameRows(b, ReleaseUploads(b, U))
BY DEF ReleaseUploads, Adjust, BlobRow, SameRows

\* One delete changes counts only.
LEMMA DeleteOneSame ==
    ASSUME NEW s, NEW b, NEW k, NEW ver
    PROVE  SameRows(s.blob, DeleteOne(s, b, k, ver).blob)
<1>1. CASE ver = {}
  BY <1>1 DEF DeleteOne, SameRows
<1>2. CASE ver # {}
  <2> DEFINE gone == {v \in Versions(s.object, b, k) : ver = {v}}
             d == [x \in DOMAIN s.blob |->
                    0 - Cardinality({v \in gone : s.object[v].blob = {x}})]
             t == DeleteOne(s, b, k, ver)
  <2>1. Adjusted(t.blob, s.blob, d)
    BY <1>2 DEF DeleteOne, Adjust, Adjusted
  <2> HIDE DEF d, t
  <2>2. SameRows(s.blob, t.blob)
    BY <2>1, AdjustSame
  <2> QED BY <2>2 DEF t
<1> QED BY <1>1, <1>2

\* A completion changes counts only, once its blob is stored.
LEMMA PublishSame ==
    ASSUME NEW a, NEW u, NEW b, NEW c, NEW e, PublishUpload(a, u, b, c, e)
    PROVE  SameRows(b, blob')
<1> DEFINE r == ReleaseUploads(b, {u})
           d == [x \in DOMAIN r |-> One(x = c)]
<1>1. Adjusted(blob', r, d)
  BY DEF PublishUpload, Adjust, Adjusted
<1>2. SameRows(b, r)
  BY ReleaseSame
<1> HIDE DEF r, d
<1> QED BY <1>1, <1>2, AdjustSame, SameTransitive

\* The staged chunks of a part spell its body.
LEMMA StagedSpells ==
    ASSUME InBalance, NEW u, NEW p, Dense(u, p)
    PROVE  Spells(blob, Staged(u, p), FlattenSeq(Staged(u, p)))
<1>1. PartChunks(u, p) \subseteq DOMAIN chunk
  BY DEF PartChunks
<1>2. Cardinality(PartChunks(u, p)) \in Nat
  BY <1>1, FS_Subset, FS_CardinalityType DEF InBalance, Balanced, AllFinite
<1>3. \A i \in DOMAIN Staged(u, p) : Staged(u, p)[i] \in DOMAIN blob
  BY StagedSources DEF Sources
<1>4. DOMAIN Staged(u, p) = 1 .. Cardinality(PartChunks(u, p))
  BY DEF Staged
<1>5. Staged(u, p) = [i \in DOMAIN Staged(u, p) |-> Staged(u, p)[i]]
  BY DEF Staged
<1> QED BY <1>2, <1>3, <1>4, <1>5 DEF Spells

\* Every step but gc_blobs grows the blob table by at most one body: stored as
\* it came, or composed of blobs that are there or are stored with it.
LEMMA BlobEffects ==
    ASSUME InBalance, [Next]_vars
    PROVE  Grows \/ \E D \in SUBSET DOMAIN blob : GcBlobs(D)
<1> SUFFICES ASSUME ~ \E D \in SUBSET DOMAIN blob : GcBlobs(D) PROVE Grows
  OBVIOUS
<1>1. ASSUME UNCHANGED <<blob, extent>> PROVE Grows
  BY <1>1 DEF SameRows, Grows
<1>2. ASSUME NEW U, blob' = ReleaseUploads(blob, U), UNCHANGED extent PROVE Grows
  BY <1>2, ReleaseSame DEF Grows
<1>3. CASE BucketStep
  BY <1>1, <1>2, <1>3 DEF BucketStep, CreateBucket, DeleteBucket
<1>4. CASE ObjectStep
  <2>1. ASSUME NEW a, NEW n, NEW k, NEW c, NEW cd, Put(a, n, k, c, cd) PROVE Grows
    <3> DEFINE b == EnsureBlob(blob, c)
               d == [x \in DOMAIN b |-> One(x = c)]
    <3>1. Adjusted(blob', b, d) /\ UNCHANGED extent
      BY <2>1 DEF Put, Adjust, Adjusted
    <3> HIDE DEF d
    <3> QED BY <3>1, AdjustSame DEF Grows
  <2>2. ASSUME NEW a, NEW n, NEW k, NEW ver, NEW k2, NEW ver2,
               Delete(a, n, k, ver) \/ DeleteMany(a, n, k, ver, k2, ver2)
        PROVE  Grows
    <3> DEFINE s == DeleteOne(Tables, bucket[n].id, k, ver)
               t == DeleteOne(s, bucket[n].id, k2, ver2)
    <3>1. (blob' = s.blob \/ blob' = t.blob) /\ UNCHANGED extent
      BY <2>2 DEF Delete, DeleteMany, Commit
    <3>2. Tables.blob = blob
      BY DEF Tables
    <3>3. SameRows(blob, s.blob)
      BY <3>2, DeleteOneSame
    <3> HIDE DEF s
    <3>4. SameRows(s.blob, t.blob)
      BY DeleteOneSame
    <3> HIDE DEF t
    <3> QED BY <3>1, <3>3, <3>4, SameTransitive DEF Grows
  <2>3. ASSUME NEW b, NEW k, NEW v, NEW cd, CommitReference(b, k, v, cd) PROVE Grows
    <3> DEFINE d == [x \in DOMAIN blob |-> One(object[v].blob = {x})]
    <3>1. Adjusted(blob', blob, d) /\ UNCHANGED extent
      BY <2>3 DEF CommitReference, Adjust, Adjusted
    <3> HIDE DEF d
    <3> QED BY <3>1, AdjustSame DEF Grows
  <2>4. ASSUME NEW a, NEW n, NEW k, NEW ver, NEW n2, NEW k2, NEW match, NEW cd,
               Copy(a, n, k, ver, n2, k2, match, cd)
        PROVE  Grows
    BY <2>3, <2>4 DEF Copy
  <2>5. ASSUME NEW a, NEW n, NEW k, NEW v, NEW match, RestoreVersion(a, n, k, v, match)
        PROVE  Grows
    BY <2>3, <2>5 DEF RestoreVersion
  <2> QED BY <1>4, <2>1, <2>2, <2>4, <2>5 DEF ObjectStep
<1>5. CASE ForkStep
  <2>1. PICK a \in Role, n \in BucketName, n2 \in BucketName : Fork(a, n, n2)
    BY <1>5 DEF ForkStep
  <2> DEFINE rows == {v \in latest : object[v].bucket = bucket[n].id}
             d == [x \in DOMAIN blob |-> Cardinality({v \in rows : object[v].blob = {x}})]
  <2>2. Adjusted(blob', blob, d) /\ UNCHANGED extent
    BY <2>1 DEF Fork, Adjust, Adjusted
  <2> HIDE DEF d
  <2> QED BY <2>2, AdjustSame DEF Grows
<1>6. CASE UploadStep
  <2>1. ASSUME NEW a, NEW u, NEW p, BeginPart(a, u, p) PROVE Grows
    <3> DEFINE d == [x \in DOMAIN blob |-> 0 - CountChunks(PartChunks(u, p), x)
                                             - CountParts({<<u, p>>} \cap DOMAIN part, x)]
    <3>1. Adjusted(blob', blob, d) /\ UNCHANGED extent
      BY <2>1 DEF BeginPart, Adjust, Adjusted
    <3> HIDE DEF d
    <3> QED BY <3>1, AdjustSame DEF Grows
  <2>2. ASSUME NEW a, NEW u, NEW p, NEW s, NEW c, PutChunk(a, u, p, s, c) PROVE Grows
    <3> DEFINE b == EnsureBlob(blob, c)
               d == [x \in DOMAIN b |-> One(x = c)
                                          - CountChunks({<<u, p, s>>} \cap DOMAIN chunk, x)
                                          - CountParts({<<u, p>>} \cap DOMAIN part, x)]
    <3>1. Adjusted(blob', b, d) /\ UNCHANGED extent
      BY <2>2 DEF PutChunk, Adjust, Adjusted
    <3> HIDE DEF d
    <3> QED BY <3>1, AdjustSame DEF Grows
  <2>3. ASSUME NEW a, NEW u, NEW p, CompletePart(a, u, p) PROVE Grows
    <3> DEFINE src == Staged(u, p)
               c == FlattenSeq(src)
               b == EnsureComposite(blob, c, src)
               d == [x \in DOMAIN b |-> One(x = c)
                                          - CountParts({<<u, p>>} \cap DOMAIN part, x)
                                          - CountChunks(PartChunks(u, p), x)]
    <3>1. /\ Adjusted(blob', b, d) /\ extent' = CompositeExtents(blob, extent, c, src)
          /\ Dense(u, p)
      BY <2>3 DEF CompletePart, Adjust, Adjusted
    <3>2. Spells(blob, src, c)
      BY <3>1, StagedSpells
    <3> HIDE DEF d
    <3>3. SameRows(b, blob')
      BY <3>1, AdjustSame
    <3> HIDE DEF src, c
    <3>4. Composes(blob, extent, c, src, blob', extent')
      BY <3>1, <3>2, <3>3 DEF Composes
    <3> QED BY <3>4 DEF Grows
  <2>4. ASSUME NEW a, NEW u, NEW p, NEW c \in PartBody, PutPart(a, u, p, c) PROVE Grows
    <3> DEFINE src == Pieces(c)
               pieces == EnsureBlobs(blob, src)
               b == EnsureComposite(pieces, c, src)
               d == [x \in DOMAIN b |-> One(x = c)
                                          - CountParts({<<u, p>>} \cap DOMAIN part, x)
                                          - CountChunks(PartChunks(u, p), x)]
    <3>1. Adjusted(blob', b, d) /\ extent' = CompositeExtents(pieces, extent, c, src)
      BY <2>4 DEF PutPart, Adjust, Adjusted
    <3>2. /\ FlattenSeq(src) = c
          /\ \E n \in Nat : DOMAIN src = 1 .. n
          /\ src = [i \in DOMAIN src |-> src[i]]
      BY PiecesSpell
    <3> HIDE DEF src, d
    <3>3. \A i \in DOMAIN src : src[i] \in DOMAIN pieces
      BY DEF EnsureBlobs
    <3>4. Spells(pieces, src, c)
      <4> HIDE DEF pieces
      <4> QED BY <3>2, <3>3 DEF Spells
    <3>5. SameRows(b, blob')
      BY <3>1, AdjustSame
    <3>6. Composes(EnsureBlobs(blob, src), extent, c, src, blob', extent')
      BY <3>1, <3>4, <3>5 DEF Composes
    <3> QED BY <3>6 DEF Grows
  <2>5. ASSUME NEW a, NEW u, NEW c, NEW src, NEW e, Spells(blob, src, c),
               extent' = CompositeExtents(blob, extent, c, src),
               PublishUpload(a, u, EnsureComposite(blob, c, src), c, e)
        PROVE  Grows
    <3>1. SameRows(EnsureComposite(blob, c, src), blob')
      BY <2>5, PublishSame
    <3>2. Composes(blob, extent, c, src, blob', extent')
      BY <2>5, <3>1 DEF Composes
    <3> QED BY <3>2 DEF Grows
  <2>6. ASSUME NEW a, NEW u, CompleteUpload(a, u) PROVE Grows
    <3> DEFINE src == Staged(u, 0)
               c == FlattenSeq(src)
    <3>1. /\ Dense(u, 0)
          /\ \/ UNCHANGED extent /\ PublishUpload(a, u, EnsureBlob(blob, c), c, Etag(c))
             \/ /\ extent' = CompositeExtents(blob, extent, c, src)
                /\ PublishUpload(a, u, EnsureComposite(blob, c, src), c, Etag(c))
      BY <2>6 DEF CompleteUpload
    <3>2. Spells(blob, src, c)
      BY <3>1, StagedSpells
    <3> HIDE DEF src, c
    <3>3. CASE UNCHANGED extent /\ PublishUpload(a, u, EnsureBlob(blob, c), c, Etag(c))
      BY <3>3, PublishSame DEF Grows
    <3> QED BY <2>5, <3>1, <3>2, <3>3
  <2>7. ASSUME NEW a, NEW u, WorkerCompleteUpload(a, u, Staged(u, 0)) PROVE Grows
    <3> DEFINE src == Staged(u, 0)
               c == FlattenSeq(src)
    <3>1. /\ Dense(u, 0)
          /\ \/ CompleteUpload(a, u)
             \/ /\ extent' = CompositeExtents(blob, extent, c, src)
                /\ PublishUpload(a, u, EnsureComposite(blob, c, src), c, Etag(c))
      BY <2>7 DEF WorkerCompleteUpload
    <3>2. Spells(blob, src, c)
      BY <3>1, StagedSpells
    <3> HIDE DEF src, c
    <3> QED BY <2>5, <2>6, <3>1, <3>2
  <2>8. ASSUME NEW a, NEW u, NEW nos \in BoundedSeq(PartNo, MaxParts),
               CompleteMultipartUpload(a, u, nos)
        PROVE  Grows
    <3> DEFINE src == [i \in DOMAIN nos |-> part[<<u, nos[i]>>]]
               c == FlattenSeq(src)
    <3>1. /\ extent' = CompositeExtents(blob, extent, c, src)
          /\ PublishUpload(a, u, EnsureComposite(blob, c, src), c, MultipartEtag(src))
          /\ \A i \in DOMAIN nos : <<u, nos[i]>> \in DOMAIN part
      BY <2>8 DEF CompleteMultipartUpload
    <3>2. \E n \in Nat : DOMAIN src = 1 .. n
      <4>1. PICK m \in 0 .. MaxParts : nos \in [1 .. m -> PartNo]
        BY DEF BoundedSeq, SeqOf
      <4> QED BY <4>1, BoundsAssumption
    <3>3. /\ \A i \in DOMAIN src : src[i] \in DOMAIN blob
          /\ src = [i \in DOMAIN src |-> src[i]]
      BY <3>1 DEF InBalance, Balanced, Closed
    <3> HIDE DEF src
    <3>4. Spells(blob, src, c)
      BY <3>2, <3>3 DEF Spells
    <3> HIDE DEF c
    <3> QED BY <2>5, <3>1, <3>4
  <2>9. ASSUME NEW a, NEW u, AbortUpload(a, u) PROVE Grows
    BY <1>2, <2>9 DEF AbortUpload
  <2>10. ASSUME NEW a, NEW n, NEW k, NEW u, NEW multi, NEW cd, NEW expected,
               BeginUpload(a, n, k, u, multi, cd, expected)
        PROVE  Grows
    <3>1. UNCHANGED <<blob, extent>>
      BY <2>10 DEF BeginUpload
    <3> QED BY <1>1, <3>1
  <2>11. ASSUME NEW a, NEW u, RenewUpload(a, u) PROVE Grows
    <3>1. UNCHANGED <<blob, extent>>
      BY <2>11 DEF RenewUpload
    <3> QED BY <1>1, <3>1
  <2> QED BY <1>6, <2>1, <2>2, <2>3, <2>4, <2>6, <2>7, <2>8, <2>9, <2>10, <2>11
        DEF UploadStep
<1>7. CASE TimeStep
  BY <1>1, <1>7 DEF TimeStep, LeaseExpires, StagingAges
<1>8. CASE GcStep
  <2>1. ASSUME NEW U, GcPendingUploads(U) PROVE Grows
    BY <1>2, <2>1 DEF GcPendingUploads
  <2> QED BY <1>8, <2>1 DEF GcStep
<1>9. CASE UNCHANGED vars
  BY <1>1, <1>9 DEF vars
<1> QED BY <1>3, <1>4, <1>5, <1>6, <1>7, <1>8, <1>9 DEF Next

-----------------------------------------------------------------------------
(* Immutability.                                                           *)

\* The blob table n has the blobs of b with their kinds and heights.
KeepsBlobs(b, n) ==
    /\ DOMAIN b \subseteq DOMAIN n
    /\ \A c \in DOMAIN b : n[c].kind = b[c].kind /\ n[c].height = b[c].height

\* The extent table f has the extents of e, and others only of blobs not in b.
KeepsExtents(b, e, f) ==
    /\ \A p \in DOMAIN e : p \in DOMAIN f /\ f[p] = e[p]
    /\ \A p \in DOMAIN f : p \in DOMAIN e \/ p[1] \notin DOMAIN b

\* New extents belong to a blob that was not there.
LEMMA CompositeExtentsKeep ==
    ASSUME NEW b, NEW e, NEW c, NEW src
    PROVE  KeepsExtents(b, e, CompositeExtents(b, e, c, src))
<1> DEFINE f == CompositeExtents(b, e, c, src)
<1>1. CASE c \in DOMAIN b
  BY <1>1 DEF CompositeExtents, KeepsExtents
<1>2. CASE c \notin DOMAIN b
  <2>1. /\ DOMAIN f = DOMAIN e \cup {<<c, i - 1>> : i \in DOMAIN src}
        /\ \A p \in DOMAIN e : f[p] = e[p]
    BY <1>2 DEF CompositeExtents
  <2> HIDE DEF f
  <2>2. KeepsExtents(b, e, f)
    BY <1>2, <2>1 DEF KeepsExtents
  <2> QED BY <2>2 DEF f
<1> QED BY <1>1, <1>2

\* A step that grows the table leaves the blobs that are there alone.
LEMMA GrowthKeeps ==
    ASSUME Grows
    PROVE  KeepsBlobs(blob, blob') /\ KeepsExtents(blob, extent, extent')
<1>1. CASE SameRows(blob, blob') /\ UNCHANGED extent
  BY <1>1 DEF SameRows, KeepsBlobs, KeepsExtents
<1>2. ASSUME NEW c, SameRows(EnsureBlob(blob, c), blob'), UNCHANGED extent
      PROVE  KeepsBlobs(blob, blob') /\ KeepsExtents(blob, extent, extent')
  BY <1>2 DEF SameRows, EnsureBlob, KeepsBlobs, KeepsExtents
<1>3. ASSUME NEW b, NEW c, NEW src, Composes(b, extent, c, src, blob', extent'),
             KeepsBlobs(blob, b)
      PROVE  KeepsBlobs(blob, blob') /\ KeepsExtents(blob, extent, extent')
  <2>1. KeepsExtents(b, extent, extent')
    BY <1>3, CompositeExtentsKeep DEF Composes
  <2>2. KeepsBlobs(b, EnsureComposite(b, c, src))
    BY DEF EnsureComposite, BlobRow, KeepsBlobs
  <2> DEFINE m == EnsureComposite(b, c, src)
  <2>3. SameRows(m, blob')
    BY <1>3 DEF Composes
  <2> HIDE DEF m
  <2> QED BY <1>3, <2>1, <2>2, <2>3 DEF KeepsBlobs, KeepsExtents, SameRows, m
<1>4. KeepsBlobs(blob, blob)
  BY DEF KeepsBlobs
<1>5. \A src : KeepsBlobs(blob, EnsureBlobs(blob, src))
  BY DEF EnsureBlobs, KeepsBlobs
<1> QED BY <1>1, <1>2, <1>3, <1>4, <1>5 DEF Grows

\* A stored blob keeps its kind and its extents for as long as it is stored,
\* whoever uploads, copies or collects around it.
THEOREM StoredBlobsImmutable == Spec => BlobsImmutable
<1>1. InBalance /\ [Next]_vars
        => [\A c \in DOMAIN blob \cap DOMAIN blob' :
                /\ blob'[c].kind = blob[c].kind
                /\ {<<e, extent[e]>> : e \in {x \in DOMAIN extent : x[1] = c}}
                     = {<<e, extent'[e]>> : e \in {x \in DOMAIN extent' : x[1] = c}}]_vars
  <2> SUFFICES ASSUME InBalance, [Next]_vars, NEW c \in DOMAIN blob \cap DOMAIN blob'
               PROVE  /\ blob'[c].kind = blob[c].kind
                      /\ {<<e, extent[e]>> : e \in {x \in DOMAIN extent : x[1] = c}}
                           = {<<e, extent'[e]>> : e \in {x \in DOMAIN extent' : x[1] = c}}
    OBVIOUS
  <2>1. ASSUME KeepsBlobs(blob, blob'), KeepsExtents(blob, extent, extent')
        PROVE  /\ blob'[c].kind = blob[c].kind
               /\ {<<e, extent[e]>> : e \in {x \in DOMAIN extent : x[1] = c}}
                    = {<<e, extent'[e]>> : e \in {x \in DOMAIN extent' : x[1] = c}}
    <3>1. blob'[c].kind = blob[c].kind
      BY <2>1 DEF KeepsBlobs
    <3>2. {x \in DOMAIN extent : x[1] = c} = {x \in DOMAIN extent' : x[1] = c}
      BY <2>1 DEF KeepsExtents
    <3>3. \A x \in DOMAIN extent : extent'[x] = extent[x]
      BY <2>1 DEF KeepsExtents
    <3> QED BY <3>1, <3>2, <3>3
  <2>2. ASSUME NEW D \in SUBSET DOMAIN blob, GcBlobs(D)
        PROVE  /\ blob'[c].kind = blob[c].kind
               /\ {<<e, extent[e]>> : e \in {x \in DOMAIN extent : x[1] = c}}
                    = {<<e, extent'[e]>> : e \in {x \in DOMAIN extent' : x[1] = c}}
    <3> DEFINE b == Restrict(blob, DOMAIN blob \ D)
               own(x) == {e \in DOMAIN extent : e[1] \in D /\ extent[e] = x}
               d == [x \in DOMAIN b |-> 0 - Cardinality(own(x))]
    <3>1. Adjusted(blob', b, d)
      BY <2>2 DEF GcBlobs, Adjust, Adjusted
    <3>2. DOMAIN b = DOMAIN blob \ D /\ \A x \in DOMAIN b : b[x] = blob[x]
      BY DEF Restrict
    <3> HIDE DEF b, d
    <3>3. c \notin D /\ blob'[c].kind = blob[c].kind
      BY <3>1, <3>2, AdjustSame DEF SameRows
    <3>4. /\ DOMAIN extent' = {e \in DOMAIN extent : e[1] \notin D}
          /\ \A x \in DOMAIN extent' : extent'[x] = extent[x]
      BY <2>2 DEF GcBlobs, Restrict
    <3>5. {x \in DOMAIN extent : x[1] = c} = {x \in DOMAIN extent' : x[1] = c}
      BY <3>3, <3>4
    <3> QED BY <3>3, <3>4, <3>5
  <2> QED BY <2>1, <2>2, BlobEffects, GrowthKeeps
<1> QED BY <1>1, ReferenceInvariant, PTL DEF Spec, BlobsImmutable

-----------------------------------------------------------------------------
(* Reading back.                                                           *)

\* The extents of c in the extent table e are those of the sequence src.
ExtentsSpell(e, c, src) ==
    /\ {p \in DOMAIN e : p[1] = c} = {<<c, i - 1>> : i \in DOMAIN src}
    /\ \A i \in DOMAIN src : e[<<c, i - 1>>] = src[i]

\* The blob c of the table b has bytes of its own, or is spelled by stored
\* blobs of smaller height.
Readable(b, e, c) ==
    /\ b[c].height \in Nat
    /\ IF b[c].kind = "composite"
       THEN \E src : /\ Spells(b, src, c) /\ ExtentsSpell(e, c, src)
                     /\ \A i \in DOMAIN src : b[src[i]].height < b[c].height
       ELSE {p \in DOMAIN e : p[1] = c} = {} /\ b[c].height = 0

\* Every blob is readable, and extents belong to blobs.
AllReadable(b, e) ==
    /\ \A c \in DOMAIN b : Readable(b, e, c)
    /\ \A p \in DOMAIN e : p[1] \in DOMAIN b

\* A larger table in which c is the same blob reads c the same way.
LEMMA ReadableKept ==
    ASSUME NEW b, NEW e, NEW n, NEW f, NEW c \in DOMAIN b,
           Readable(b, e, c), KeepsBlobs(b, n),
           {p \in DOMAIN f : p[1] = c} = {p \in DOMAIN e : p[1] = c},
           \A p \in DOMAIN e : p[1] = c => f[p] = e[p]
    PROVE  Readable(n, f, c)
<1>1. n[c].height = b[c].height /\ n[c].kind = b[c].kind
  BY DEF KeepsBlobs
<1>2. CASE b[c].kind = "composite"
  <2>1. PICK src : /\ Spells(b, src, c) /\ ExtentsSpell(e, c, src)
                   /\ \A i \in DOMAIN src : b[src[i]].height < b[c].height
    BY <1>2 DEF Readable
  <2>2. Spells(n, src, c)
    BY <2>1 DEF Spells, KeepsBlobs
  <2>3. ExtentsSpell(f, c, src)
    <3>1. \A i \in DOMAIN src : <<c, i - 1>> \in DOMAIN e
      BY <2>1 DEF ExtentsSpell
    <3> QED BY <2>1, <3>1 DEF ExtentsSpell
  <2>4. \A i \in DOMAIN src : n[src[i]].height < n[c].height
    BY <1>1, <2>1 DEF KeepsBlobs, Spells
  <2> QED BY <1>1, <1>2, <2>2, <2>3, <2>4 DEF Readable
<1>3. CASE b[c].kind # "composite"
  BY <1>1, <1>3 DEF Readable
<1> QED BY <1>2, <1>3

\* A change of counts does not change what is read.
LEMMA SameReadable ==
    ASSUME NEW b, NEW e, NEW n, AllReadable(b, e), SameRows(b, n)
    PROVE  AllReadable(n, e)
<1>1. KeepsBlobs(b, n)
  BY DEF SameRows, KeepsBlobs
<1>2. ASSUME NEW c \in DOMAIN b PROVE Readable(n, e, c)
  BY <1>1, ReadableKept DEF AllReadable
<1> QED BY <1>2 DEF AllReadable, SameRows

\* Blobs with bytes of their own are added beside the others.
LEMMA PlainReadable ==
    ASSUME NEW b, NEW e, NEW n, AllReadable(b, e), KeepsBlobs(b, n),
           \A c \in DOMAIN n \ DOMAIN b : n[c].kind # "composite" /\ n[c].height = 0
    PROVE  AllReadable(n, e)
<1>1. ASSUME NEW c \in DOMAIN b PROVE Readable(n, e, c)
  BY ReadableKept DEF AllReadable
<1>2. ASSUME NEW c \in DOMAIN n, c \notin DOMAIN b PROVE Readable(n, e, c)
  <2>1. {p \in DOMAIN e : p[1] = c} = {}
    BY <1>2 DEF AllReadable
  <2> QED BY <1>2, <2>1 DEF Readable
<1> QED BY <1>1, <1>2 DEF AllReadable, KeepsBlobs

\* _ensure_blob.
LEMMA EnsureBlobReadable ==
    ASSUME NEW b, NEW e, NEW c, AllReadable(b, e)
    PROVE  AllReadable(EnsureBlob(b, c), e)
<1> DEFINE n == EnsureBlob(b, c)
<1>1. /\ KeepsBlobs(b, n)
      /\ \A x \in DOMAIN n \ DOMAIN b : n[x].kind # "composite" /\ n[x].height = 0
  BY DEF EnsureBlob, BlobRow, KeepsBlobs
<1> HIDE DEF n
<1>2. AllReadable(n, e)
  BY <1>1, PlainReadable
<1> QED BY <1>2 DEF n

\* The pieces of put_part.
LEMMA EnsureBlobsReadable ==
    ASSUME NEW b, NEW e, NEW cs, AllReadable(b, e)
    PROVE  AllReadable(EnsureBlobs(b, cs), e)
<1> DEFINE n == EnsureBlobs(b, cs)
<1>1. KeepsBlobs(b, n)
  BY DEF EnsureBlobs, KeepsBlobs
<1>2. ASSUME NEW x \in DOMAIN n, x \notin DOMAIN b
      PROVE  n[x].kind # "composite" /\ n[x].height = 0
  <2>1. n[x] = EnsureBlob(b, x)[x]
    BY <1>2 DEF EnsureBlobs
  <2>2. EnsureBlob(b, x)[x].kind # "composite" /\ EnsureBlob(b, x)[x].height = 0
    BY <1>2 DEF EnsureBlob, BlobRow
  <2> QED BY <2>1, <2>2
<1> HIDE DEF n
<1>3. AllReadable(n, e)
  BY <1>1, <1>2, PlainReadable
<1> QED BY <1>3 DEF n

\* _ensure_composite_blob: the extents it inserts spell the composite.
LEMMA CompositeReadable ==
    ASSUME NEW b, NEW e, NEW c, NEW src, AllReadable(b, e), Spells(b, src, c)
    PROVE  AllReadable(EnsureComposite(b, c, src), CompositeExtents(b, e, c, src))
<1> DEFINE n == EnsureComposite(b, c, src)
           f == CompositeExtents(b, e, c, src)
<1>1. CASE c \in DOMAIN b
  BY <1>1 DEF EnsureComposite, CompositeExtents
<1>2. CASE c \notin DOMAIN b
  <2>1. /\ KeepsBlobs(b, n) /\ DOMAIN n = DOMAIN b \cup {c}
        /\ n[c].kind = "composite" /\ n[c].height = HeightOver(b, src)
    BY <1>2 DEF EnsureComposite, BlobRow, KeepsBlobs
  <2>2. /\ DOMAIN f = DOMAIN e \cup {<<c, i - 1>> : i \in DOMAIN src}
        /\ \A p \in DOMAIN e : f[p] = e[p]
        /\ \A p \in DOMAIN f : p \notin DOMAIN e => f[p] = src[p[2] + 1]
    BY <1>2 DEF CompositeExtents
  <2>3. PICK m \in Nat : DOMAIN src = 1 .. m
    BY DEF Spells
  <2>4. \A p \in DOMAIN e : p[1] # c
    BY <1>2 DEF AllReadable
  <2> HIDE DEF n, f
  <2>5. ExtentsSpell(f, c, src)
    <3>1. {p \in DOMAIN f : p[1] = c} = {<<c, i - 1>> : i \in DOMAIN src}
      BY <2>2, <2>4
    <3>2. ASSUME NEW i \in DOMAIN src PROVE f[<<c, i - 1>>] = src[i]
      <4> DEFINE p == <<c, i - 1>>
      <4>1. p \in DOMAIN f /\ p[1] = c /\ p[2] + 1 = i
        BY <2>2, <2>3
      <4>2. p \notin DOMAIN e
        BY <2>4, <4>1
      <4> HIDE DEF p
      <4>3. f[p] = src[i]
        BY <2>2, <4>1, <4>2
      <4> QED BY <4>3 DEF p
    <3> QED BY <3>1, <3>2 DEF ExtentsSpell
  <2>6. /\ HeightOver(b, src) \in Nat
        /\ \A i \in DOMAIN src : b[src[i]].height < HeightOver(b, src)
    <3>1. \A i \in DOMAIN src : b[src[i]].height \in Nat
      BY DEF Spells, AllReadable, Readable
    <3> QED BY <2>3, <3>1, HeightAbove
  <2>7. Readable(n, f, c)
    <3>1. \A i \in DOMAIN src : n[src[i]].height < n[c].height
      BY <2>1, <2>6 DEF Spells, KeepsBlobs
    <3>2. Spells(n, src, c)
      BY <2>1 DEF Spells, KeepsBlobs
    <3> QED BY <2>1, <2>5, <2>6, <3>1, <3>2 DEF Readable
  <2>8. ASSUME NEW x \in DOMAIN b PROVE Readable(n, f, x)
    <3>1. \A p : p \in DOMAIN f /\ p[1] = x <=> p \in DOMAIN e /\ p[1] = x
      BY <1>2, <2>2
    <3>2. {p \in DOMAIN f : p[1] = x} = {p \in DOMAIN e : p[1] = x}
      BY <3>1
    <3>3. Readable(b, e, x)
      BY DEF AllReadable
    <3> QED BY <2>1, <2>2, <3>2, <3>3, ReadableKept
  <2>9. \A p \in DOMAIN f : p[1] \in DOMAIN n
    BY <2>1, <2>2 DEF AllReadable
  <2>10. AllReadable(n, f)
    BY <2>1, <2>7, <2>8, <2>9 DEF AllReadable
  <2> QED BY <2>10 DEF n, f
<1> QED BY <1>1, <1>2

\* gc_blobs deletes no blob that a remaining composite reads.
LEMMA GcReadable ==
    ASSUME InBalance, AllReadable(blob, extent), NEW D \in SUBSET DOMAIN blob, GcBlobs(D)
    PROVE  AllReadable(blob', extent')
<1> DEFINE b == Restrict(blob, DOMAIN blob \ D)
           own(x) == {e \in DOMAIN extent : e[1] \in D /\ extent[e] = x}
           d == [x \in DOMAIN b |-> 0 - Cardinality(own(x))]
<1>1. Adjusted(blob', b, d)
  BY DEF GcBlobs, Adjust, Adjusted
<1>2. DOMAIN b = DOMAIN blob \ D /\ \A x \in DOMAIN b : b[x] = blob[x]
  BY DEF Restrict
<1> HIDE DEF b, d
<1>3. /\ DOMAIN blob' = DOMAIN blob \ D
      /\ \A x \in DOMAIN blob' : blob'[x].kind = blob[x].kind /\ blob'[x].height = blob[x].height
  BY <1>1, <1>2, AdjustSame DEF SameRows
<1>4. /\ DOMAIN extent' = {e \in DOMAIN extent : e[1] \notin D}
      /\ \A x \in DOMAIN extent' : extent'[x] = extent[x]
  BY DEF GcBlobs, Restrict
<1>5. \A e \in DOMAIN extent' : extent'[e] \in DOMAIN blob'
  BY GcBalanced DEF InBalance, Balanced, Closed
<1>6. ASSUME NEW c \in DOMAIN blob' PROVE Readable(blob', extent', c)
  <2>1. {p \in DOMAIN extent' : p[1] = c} = {p \in DOMAIN extent : p[1] = c}
    BY <1>3, <1>4
  <2>2. Readable(blob, extent, c)
    BY <1>3 DEF AllReadable
  <2>3. CASE blob[c].kind = "composite"
    <3>1. PICK src : /\ Spells(blob, src, c) /\ ExtentsSpell(extent, c, src)
                     /\ \A i \in DOMAIN src : blob[src[i]].height < blob[c].height
      BY <2>2, <2>3 DEF Readable
    <3>2. \A i \in DOMAIN src : <<c, i - 1>> \in DOMAIN extent'
      BY <2>1, <3>1 DEF ExtentsSpell
    <3>3. \A i \in DOMAIN src : extent'[<<c, i - 1>>] = src[i] /\ src[i] \in DOMAIN blob'
      BY <1>4, <1>5, <3>1, <3>2 DEF ExtentsSpell
    <3>4. Spells(blob', src, c)
      BY <3>1, <3>3 DEF Spells
    <3>5. ExtentsSpell(extent', c, src)
      BY <2>1, <3>1, <3>3 DEF ExtentsSpell
    <3>6. \A i \in DOMAIN src : blob'[src[i]].height < blob'[c].height
      BY <1>3, <3>1, <3>3
    <3> QED BY <1>3, <2>2, <2>3, <3>4, <3>5, <3>6 DEF Readable
  <2>4. CASE blob[c].kind # "composite"
    BY <1>3, <2>1, <2>2, <2>4 DEF Readable
  <2> QED BY <2>3, <2>4
<1> QED BY <1>3, <1>4, <1>6 DEF AllReadable

\* Every step keeps all blobs readable.
LEMMA ReadablePreserved ==
    ASSUME TypeOK, InBalance, AllReadable(blob, extent), [Next]_vars
    PROVE  AllReadable(blob', extent')
<1>1. CASE SameRows(blob, blob') /\ UNCHANGED extent
  BY <1>1, SameReadable
<1>2. ASSUME NEW c, SameRows(EnsureBlob(blob, c), blob'), UNCHANGED extent
      PROVE  AllReadable(blob', extent')
  BY <1>2, EnsureBlobReadable, SameReadable
<1>3. ASSUME NEW b, NEW c, NEW src, AllReadable(b, extent),
             Composes(b, extent, c, src, blob', extent')
      PROVE  AllReadable(blob', extent')
  BY <1>3, CompositeReadable, SameReadable DEF Composes
<1>4. \A src : AllReadable(EnsureBlobs(blob, src), extent)
  BY EnsureBlobsReadable
<1> QED BY <1>1, <1>2, <1>3, <1>4, BlobEffects, GcReadable DEF Grows

\* What is readable reads back as the property says.
LEMMA ReadableReadsBack ==
    ASSUME AllReadable(blob, extent)
    PROVE  ReadsBack
<1> SUFFICES ASSUME NEW c \in DOMAIN blob, blob[c].kind = "composite"
             PROVE  /\ ExtentsOf(c) = {<<c, i - 1>> : i \in 1 .. Cardinality(ExtentsOf(c))}
                    /\ Spelled(c) = c
                    /\ \A e \in ExtentsOf(c) : blob[extent[e]].height < blob[c].height
  BY DEF ReadsBack, AllReadable, Readable, ExtentsOf
<1>1. PICK src : /\ Spells(blob, src, c) /\ ExtentsSpell(extent, c, src)
                 /\ \A i \in DOMAIN src : blob[src[i]].height < blob[c].height
  BY DEF AllReadable, Readable
<1>2. PICK n \in Nat : DOMAIN src = 1 .. n
  BY <1>1 DEF Spells
<1> DEFINE S == {<<c, i - 1>> : i \in 1 .. n}
<1>3. ExtentsOf(c) = S
  BY <1>1, <1>2 DEF ExtentsSpell, ExtentsOf
<1>4. Cardinality(S) = n
  <2> DEFINE g == [i \in 1 .. n |-> <<c, i - 1>>]
  <2>1. g \in Bijection(1 .. n, S)
    <3>1. g \in [1 .. n -> S] /\ \A y \in S : \E i \in 1 .. n : g[i] = y
      OBVIOUS
    <3>2. \A i, j \in 1 .. n : g[i] = g[j] => i = j
      OBVIOUS
    <3> HIDE DEF g, S
    <3> QED BY <3>1, <3>2 DEF Bijection, Injection, Surjection, IsInjective
  <2>2. IsFiniteSet(1 .. n) /\ Cardinality(1 .. n) = n
    BY FS_Interval
  <2> HIDE DEF g, S
  <2> QED BY <2>1, <2>2, FS_Bijection DEF ExistsBijection
<1>5. Cardinality(ExtentsOf(c)) = n
  BY <1>3, <1>4
<1>6. [i \in 1 .. Cardinality(ExtentsOf(c)) |-> extent[<<c, i - 1>>]] = src
  BY <1>1, <1>2, <1>5 DEF ExtentsSpell, Spells
<1>7. Spelled(c) = c
  BY <1>1, <1>6 DEF Spelled, Spells
<1>8. \A e \in ExtentsOf(c) : blob[extent[e]].height < blob[c].height
  BY <1>1, <1>2, <1>3, ZenonT(40) DEF ExtentsSpell
<1> QED BY <1>3, <1>5, <1>7, <1>8

\* Every stored blob reads back as the bytes it is named after, through any
\* nesting of composites, and the readers' recursion ends.
THEOREM StoredBytesReadBack == Spec => []ReadsBack
<1>1. Init => AllReadable(blob, extent)
  BY DEF Init, Empty, AllReadable
<1>2. TypeOK /\ InBalance /\ AllReadable(blob, extent) /\ [Next]_vars
        => AllReadable(blob, extent)'
  BY ReadablePreserved
<1>3. AllReadable(blob, extent) => ReadsBack
  BY ReadableReadsBack
<1> QED BY <1>1, <1>2, <1>3, TypeCorrect, ReferenceInvariant, PTL DEF Spec

-----------------------------------------------------------------------------
(* Conditional completions.                                                *)

\* A step that takes uploads away and adds a version is a completion.
LEMMA CompletionSteps ==
    ASSUME [Next]_vars
    PROVE  \/ DOMAIN object' \subseteq DOMAIN object
           \/ DOMAIN upload \subseteq DOMAIN upload'
           \/ \E a \in Role, u \in DOMAIN upload : \E b, c, e : PublishUpload(a, u, b, c, e)
<1> DEFINE Goal == \/ DOMAIN object' \subseteq DOMAIN object
                   \/ DOMAIN upload \subseteq DOMAIN upload'
                   \/ \E a \in Role, u \in DOMAIN upload :
                        \E b, c, e : PublishUpload(a, u, b, c, e)
<1> SUFFICES Goal
  OBVIOUS
<1>1. ASSUME UNCHANGED object \/ UNCHANGED upload PROVE Goal
  BY <1>1
<1> HIDE DEF Goal
<1>2. CASE BucketStep
  BY <1>1, <1>2 DEF BucketStep, CreateBucket, DeleteBucket, objectVars
<1>3. CASE ObjectStep
  <2>1. ASSUME NEW a, NEW n, NEW k, NEW c, NEW cd, Put(a, n, k, c, cd) PROVE UNCHANGED upload
    BY <2>1 DEF Put, uploadVars
  <2>2. ASSUME NEW s, Commit(s) PROVE UNCHANGED upload
    BY <2>2 DEF Commit, uploadVars
  <2>3. ASSUME NEW b, NEW k, NEW v, NEW cd, CommitReference(b, k, v, cd) PROVE UNCHANGED upload
    BY <2>3 DEF CommitReference, uploadVars
  <2>4. ASSUME NEW a, NEW n, NEW k, NEW ver, Delete(a, n, k, ver) PROVE UNCHANGED upload
    BY <2>2, <2>4 DEF Delete
  <2>5. ASSUME NEW a, NEW n, NEW k, NEW ver, NEW k2, NEW ver2,
               DeleteMany(a, n, k, ver, k2, ver2)
        PROVE  UNCHANGED upload
    BY <2>2, <2>5 DEF DeleteMany
  <2>6. ASSUME NEW a, NEW n, NEW k, NEW ver, NEW n2, NEW k2, NEW match, NEW cd,
               Copy(a, n, k, ver, n2, k2, match, cd)
        PROVE  UNCHANGED upload
    BY <2>3, <2>6 DEF Copy
  <2>7. ASSUME NEW a, NEW n, NEW k, NEW v, NEW match, RestoreVersion(a, n, k, v, match)
        PROVE  UNCHANGED upload
    BY <2>3, <2>7 DEF RestoreVersion
  <2>8. UNCHANGED upload
    BY <1>3, <2>1, <2>4, <2>5, <2>6, <2>7 DEF ObjectStep
  <2> QED BY <2>8 DEF Goal
<1>4. CASE ForkStep
  BY <1>4 DEF ForkStep, Fork, uploadVars, Goal
<1>5. CASE UploadStep
  <2>1. PICK a \in Role, u \in UploadId :
            \/ \E n, k, multi, cd, ex : BeginUpload(a, n, k, u, multi, cd, ex)
            \/ RenewUpload(a, u)
            \/ \E p, s, c : PutChunk(a, u, p, s, c)
            \/ \E p : BeginPart(a, u, p) \/ CompletePart(a, u, p)
                        \/ \E c : PutPart(a, u, p, c)
            \/ CompleteUpload(a, u) \/ WorkerCompleteUpload(a, u, Staged(u, 0))
            \/ \E nos : CompleteMultipartUpload(a, u, nos)
            \/ AbortUpload(a, u)
    BY <1>5, Zenon DEF UploadStep
  <2>2. ASSUME \/ CompleteUpload(a, u) \/ WorkerCompleteUpload(a, u, Staged(u, 0))
               \/ \E nos : CompleteMultipartUpload(a, u, nos)
        PROVE  u \in DOMAIN upload /\ \E b, c, e : PublishUpload(a, u, b, c, e)
    BY <2>2 DEF CompleteUpload, WorkerCompleteUpload, CompleteMultipartUpload, ForUpdate
  <2>3. ASSUME \/ \E n, k, multi, cd, ex : BeginUpload(a, n, k, u, multi, cd, ex)
               \/ RenewUpload(a, u)
               \/ \E p, s, c : PutChunk(a, u, p, s, c)
               \/ \E p : BeginPart(a, u, p) \/ CompletePart(a, u, p)
                           \/ \E c : PutPart(a, u, p, c)
               \/ AbortUpload(a, u)
        PROVE  UNCHANGED object
    BY <2>3 DEF BeginUpload, RenewUpload, PutChunk, BeginPart, CompletePart, PutPart,
        AbortUpload, objectVars
  <2> QED BY <2>1, <2>2, <2>3 DEF Goal
<1>6. CASE TimeStep
  BY <1>6 DEF TimeStep, LeaseExpires, StagingAges, objectVars, Goal
<1>7. CASE GcStep
  BY <1>7 DEF GcStep, GcPendingUploads, GcBlobs, objectVars, Goal
<1>8. CASE UNCHANGED vars
  BY <1>8 DEF vars, objectVars, Goal
<1> QED BY <1>2, <1>3, <1>4, <1>5, <1>6, <1>7, <1>8 DEF Next

\* The create-only condition is evaluated against the state in which the
\* object appears, however long the upload was pending.
THEOREM CreateOnlyHolds == Spec => CreateOnlyNeverCovers
<1>1. [Next]_vars
        => [\A u \in DOMAIN upload : \A v \in DOMAIN object' \ DOMAIN object :
                u \notin DOMAIN upload' /\ upload[u].cond.ifNoneMatch
                    => LiveLatest(upload[u].bucket, upload[u].key) = {}]_vars
  <2> SUFFICES ASSUME [Next]_vars, NEW u \in DOMAIN upload,
                      NEW v \in DOMAIN object' \ DOMAIN object,
                      u \notin DOMAIN upload', upload[u].cond.ifNoneMatch
               PROVE  LiveLatest(upload[u].bucket, upload[u].key) = {}
    OBVIOUS
  <2>1. PICK a \in Role, w \in DOMAIN upload : \E b, c, e : PublishUpload(a, w, b, c, e)
    BY CompletionSteps
  <2>2. DropUploads({w}) /\ PreconditionsHold(upload[w].bucket, upload[w].key, upload[w].cond)
    BY <2>1 DEF PublishUpload
  <2>3. u = w
    BY <2>2 DEF DropUploads, Restrict
  <2> QED BY <2>2, <2>3 DEF PreconditionsHold
<1> QED BY <1>1, PTL DEF Spec, CreateOnlyNeverCovers

-----------------------------------------------------------------------------
(* What a step of the semantic layer shows.                                *)

\* The abstract state, field by field.
LEMMA Shown ==
    /\ DOMAIN BucketIds = DOMAIN bucket
    /\ \A n \in DOMAIN bucket : BucketIds[n] = bucket[n].id
    /\ DOMAIN History = DOMAIN object
    /\ \A v \in DOMAIN object : /\ History[v].bucket = object[v].bucket
                                 /\ History[v].key = object[v].key
                                 /\ History[v].entry = object[v].blob
BY DEF BucketIds, History

\* The abstract state after a step.
LEMMA ShownNext ==
    /\ DOMAIN BucketIds' = DOMAIN bucket'
    /\ \A n \in DOMAIN bucket' : BucketIds'[n] = bucket'[n].id
    /\ DOMAIN History' = DOMAIN object'
    /\ \A v \in DOMAIN object' : /\ History'[v].bucket = object'[v].bucket
                                  /\ History'[v].key = object'[v].key
                                  /\ History'[v].entry = object'[v].blob
BY DEF BucketIds, History

\* A row that a step keeps shows the same version.
LEMMA SameShown ==
    ASSUME NEW v \in DOMAIN object, v \in DOMAIN object', object'[v] = object[v]
    PROVE  History'[v] = History[v]
BY DEF History

\* Every step changes the names and the history in one of these ways.
LEMMA StepEffects ==
    ASSUME TypeOK, Anchored, [Next]_vars
    PROVE  \/ UNCHANGED <<bucket, object>>
           \/ \E b, k, c, e : /\ InsertVersion(b, k, c, e) /\ c # {}
                              /\ HasBucket(b) /\ UNCHANGED bucket
           \/ \E a \in Role, n \in BucketName, k \in Key, ver \in VersionArg :
                Delete(a, n, k, ver)
           \/ \E a \in Role, n \in BucketName, k, k2 \in Key, ver, ver2 \in VersionArg :
                DeleteMany(a, n, k, ver, k2, ver2)
           \/ \E a \in Role, n, n2 \in BucketName : Fork(a, n, n2)
           \/ \E a \in Role, n \in BucketName : CreateBucket(a, n) \/ DeleteBucket(a, n)
<1> DEFINE Inserts == \E b, k, c, e : /\ InsertVersion(b, k, c, e) /\ c # {}
                                      /\ HasBucket(b) /\ UNCHANGED bucket
<1>1. ASSUME NEW b, NEW k, NEW v, NEW cd, CommitReference(b, k, v, cd), HasBucket(b)
      PROVE  Inserts
  <2>1. /\ InsertVersion(b, k, object[v].blob, object[v].etag) /\ object[v].blob # {}
        /\ UNCHANGED bucket
    BY <1>1 DEF CommitReference, IsMarker
  <2> QED BY <1>1, <2>1
<1>2. ASSUME NEW a, NEW u, NEW b, NEW c, NEW e,
             PublishUpload(a, u, b, c, e), u \in DOMAIN upload
      PROVE  Inserts
  <2>1. InsertVersion(upload[u].bucket, upload[u].key, {c}, {e}) /\ UNCHANGED bucket
    BY <1>2 DEF PublishUpload
  <2>2. HasBucket(upload[u].bucket) /\ {c} # {}
    BY <1>2 DEF Anchored
  <2> QED BY <2>1, <2>2
<1>3. ASSUME NEW a, NEW n, Visible(a, n)
      PROVE  HasBucket(bucket[n].id)
  BY <1>3 DEF Visible, HasBucket
<1>4. CASE BucketStep
  BY <1>4 DEF BucketStep
<1>5. CASE ObjectStep
  <2>1. PICK a \in Role, n \in BucketName, k \in Key :
            \/ \E c \in Body, cd \in Cond : Put(a, n, k, c, cd)
            \/ \E ver \in VersionArg : Delete(a, n, k, ver)
            \/ \E k2 \in Key, ver, ver2 \in VersionArg : DeleteMany(a, n, k, ver, k2, ver2)
            \/ \E n2 \in BucketName, k2 \in Key, ver \in VersionArg, cd \in Cond,
                  match \in {{}} \cup {{Etag(c)} : c \in Body} :
                    Copy(a, n, k, ver, n2, k2, match, cd)
            \/ \E v \in DOMAIN object, cd \in Cond : RestoreVersion(a, n, k, v, cd.ifMatch)
    BY <1>5 DEF ObjectStep
  <2>2. ASSUME NEW c \in Body, NEW cd \in Cond, Put(a, n, k, c, cd)
        PROVE  Inserts
    <3>1. /\ InsertVersion(bucket[n].id, k, {c}, {Etag(c)}) /\ {c} # {}
          /\ Visible(a, n) /\ UNCHANGED bucket
      BY <2>2 DEF Put
    <3> QED BY <1>3, <3>1
  <2>3. ASSUME NEW n2 \in BucketName, NEW k2 \in Key, NEW ver, NEW match, NEW cd,
               Copy(a, n, k, ver, n2, k2, match, cd)
        PROVE  Inserts
    <3>1. PICK v : CommitReference(bucket[n2].id, k2, v, cd)
      BY <2>3 DEF Copy
    <3>2. Visible(a, n2)
      BY <2>3 DEF Copy
    <3> QED BY <1>1, <1>3, <3>1, <3>2
  <2>4. ASSUME NEW v \in DOMAIN object, NEW cd, RestoreVersion(a, n, k, v, cd)
        PROVE  Inserts
    BY <1>1, <1>3, <2>4 DEF RestoreVersion
  <2> QED BY <2>1, <2>2, <2>3, <2>4
<1>6. CASE ForkStep
  BY <1>6 DEF ForkStep
<1>7. CASE UploadStep
  <2>1. PICK a \in Role, u \in UploadId :
            \/ \E n \in BucketName, k \in Key, multi \in BOOLEAN, cd \in Cond,
                  expected \in Expected : BeginUpload(a, n, k, u, multi, cd, expected)
            \/ RenewUpload(a, u)
            \/ \E p \in PartNo \cup {0}, s \in 0 .. MaxChunkSeq, c \in Piece :
                    PutChunk(a, u, p, s, c)
            \/ \E p \in PartNo :
                    \/ BeginPart(a, u, p)
                    \/ CompletePart(a, u, p)
                    \/ \E c \in PartBody : PutPart(a, u, p, c)
            \/ CompleteUpload(a, u)
            \/ WorkerCompleteUpload(a, u, Staged(u, 0))
            \/ \E nos \in BoundedSeq(PartNo, MaxParts) : CompleteMultipartUpload(a, u, nos)
            \/ AbortUpload(a, u)
    BY <1>7 DEF UploadStep
  <2>2. CASE CompleteUpload(a, u)
    BY <1>2, <2>2 DEF CompleteUpload, ForUpdate
  <2>3. CASE WorkerCompleteUpload(a, u, Staged(u, 0))
    BY <1>2, <2>3 DEF WorkerCompleteUpload, CompleteUpload, ForUpdate
  <2>4. ASSUME NEW nos, CompleteMultipartUpload(a, u, nos)
        PROVE  Inserts
    BY <1>2, <2>4 DEF CompleteMultipartUpload, ForUpdate
  <2> QED
    BY <2>1, <2>2, <2>3, <2>4 DEF BeginUpload, RenewUpload, PutChunk, BeginPart,
        CompletePart, PutPart, AbortUpload, objectVars
<1>8. CASE TimeStep
  BY <1>8 DEF TimeStep, LeaseExpires, StagingAges, objectVars
<1>9. CASE GcStep
  BY <1>9 DEF GcStep, GcPendingUploads, GcBlobs, objectVars
<1>10. CASE UNCHANGED vars
  BY <1>10 DEF vars, objectVars
<1> QED BY <1>4, <1>5, <1>6, <1>7, <1>8, <1>9, <1>10 DEF Next

\* A publication.
LEMMA PublishAbstract ==
    ASSUME TypeOK, NEW b, NEW k, NEW c, NEW e, InsertVersion(b, k, c, e), c # {},
           HasBucket(b), UNCHANGED bucket
    PROVE  \E n \in BucketName : Abstract!Publish(n)
<1>1. PICK n \in DOMAIN bucket : bucket[n].id = b
  BY DEF HasBucket
<1>2. n \in BucketName
  BY DEF TypeOK, BucketOK
<1> DEFINE v == versionSeq
<1>3. /\ DOMAIN object' = DOMAIN object \cup {v}
      /\ object'[v].bucket = b /\ object'[v].key = k /\ object'[v].blob = c
      /\ \A w \in DOMAIN object : w # v => object'[w] = object[w]
  BY DEF InsertVersion, AddRow, ObjectRow
<1>4. v \notin DOMAIN object /\ \A w \in DOMAIN object : w < v
  BY DEF TypeOK, ObjectOK
<1> HIDE DEF v
<1>5. Abstract!Added = {v}
  BY <1>3, <1>4, Shown, ShownNext DEF Abstract!Added
<1>6. Abstract!Kept = DOMAIN object /\ v \in DOMAIN object'
  BY <1>3, Shown, ShownNext DEF Abstract!Kept
<1>7. Abstract!Unchanged(Abstract!Kept)
  BY <1>3, <1>4, <1>6, SameShown DEF Abstract!Unchanged
<1>8. Abstract!Above(v)
  BY <1>4, <1>6, Shown DEF Abstract!Above, Abstract!Of
<1>9. /\ n \in DOMAIN BucketIds /\ BucketIds[n] = b
      /\ History'[v].bucket = b /\ History'[v].entry = c
  BY <1>1, <1>3, <1>6, Shown, ShownNext
<1>10. DOMAIN History \subseteq DOMAIN History' /\ BucketIds' = BucketIds
  BY <1>3, Shown, ShownNext DEF BucketIds
<1>11. Abstract!Publish(n)
  BY <1>5, <1>7, <1>8, <1>9, <1>10 DEF Abstract!Publish, Abstract!Marker
<1> QED BY <1>2, <1>11


\* Deletes: what disappears is of the bucket, what appears is a new marker of it.
LEMMA RemovesAbstract ==
    ASSUME TypeOK, NEW n \in DOMAIN bucket, UNCHANGED bucket,
           \A v \in DOMAIN object :
                v \in DOMAIN object' \/ object[v].bucket = bucket[n].id,
           \A v \in DOMAIN object' :
                \/ v \in DOMAIN object /\ object'[v] = object[v]
                \/ /\ v \notin DOMAIN object /\ v \in Nat /\ versionSeq <= v
                   /\ object'[v].bucket = bucket[n].id /\ object'[v].blob = {}
    PROVE  \E m \in BucketName : Abstract!DeleteVersions(m)
<1>1. n \in BucketName
  BY DEF TypeOK, BucketOK
<1>2. n \in DOMAIN BucketIds /\ BucketIds[n] = bucket[n].id /\ BucketIds' = BucketIds
  BY Shown DEF BucketIds
<1>3. \A v \in DOMAIN History \ DOMAIN History' : History[v].bucket = BucketIds[n]
  BY <1>2, Shown, ShownNext
<1>4. Abstract!Unchanged(Abstract!Kept)
  BY Shown, ShownNext, SameShown DEF Abstract!Unchanged, Abstract!Kept
<1>5. ASSUME NEW v \in Abstract!Added
      PROVE  /\ History'[v].bucket = BucketIds[n] /\ History'[v].entry = {}
             /\ Abstract!Above(v)
  <2>1. /\ v \in DOMAIN object' /\ v \in Nat /\ versionSeq <= v
        /\ object'[v].bucket = bucket[n].id /\ object'[v].blob = {}
    BY <1>5, Shown, ShownNext DEF Abstract!Added
  <2>2. \A w \in DOMAIN object : w \in Nat /\ w < versionSeq /\ versionSeq \in Nat
    BY DEF TypeOK, ObjectOK
  <2>3. Abstract!Above(v)
    BY <2>1, <2>2, Shown DEF Abstract!Above, Abstract!Of
  <2> QED BY <1>2, <2>1, <2>3, ShownNext
<1>6. Abstract!DeleteVersions(n)
  BY <1>2, <1>3, <1>4, <1>5 DEF Abstract!DeleteVersions, Abstract!Marker
<1> QED BY <1>1, <1>6

\* A delete removes rows of its own bucket only.
LEMMA DeleteOneRemoves ==
    ASSUME NEW s, NEW b, NEW k, NEW ver
    PROVE  \A v \in DOMAIN s.object :
                v \in DOMAIN DeleteOne(s, b, k, ver).object \/ s.object[v].bucket = b
<1> DEFINE gone == {v \in Versions(s.object, b, k) : ver = {v}}
           t == DeleteOne(s, b, k, ver)
<1>1. CASE ver = {}
  <2>1. t.object = AddRow(s.object, s.seq, ObjectRow(b, k, {}, {}))
    BY <1>1 DEF DeleteOne
  <2> HIDE DEF t
  <2>2. DOMAIN s.object \subseteq DOMAIN t.object
    BY <2>1 DEF AddRow
  <2> QED BY <2>2 DEF t
<1>2. CASE ver # {}
  <2>1. t.object = Restrict(s.object, DOMAIN s.object \ gone)
    BY <1>2 DEF DeleteOne
  <2>2. \A v \in gone : s.object[v].bucket = b
    BY DEF Versions
  <2> HIDE DEF t, gone
  <2>3. DOMAIN t.object = DOMAIN s.object \ gone
    BY <2>1 DEF Restrict
  <2> QED BY <2>2, <2>3 DEF t
<1> QED BY <1>1, <1>2

\* delete.
LEMMA DeleteAbstract ==
    ASSUME TypeOK, NEW a, NEW n, NEW k, NEW ver, Delete(a, n, k, ver)
    PROVE  \E m \in BucketName : Abstract!DeleteVersions(m)
<1> DEFINE b == bucket[n].id
           t == DeleteOne(Tables, b, k, ver)
<1>1. n \in DOMAIN bucket /\ object' = t.object /\ UNCHANGED bucket
  BY DEF Delete, Visible, Commit
<1>2. Tables.object = object /\ Tables.seq = versionSeq
  BY DEF Tables
<1>3. versionSeq \in Nat /\ \A v \in DOMAIN object : v \in Nat /\ v < versionSeq
  BY DEF TypeOK, ObjectOK
<1>4. /\ \A v \in DOMAIN t.object :
            \/ v \in DOMAIN object /\ t.object[v] = object[v]
            \/ v = versionSeq /\ t.object[v] = ObjectRow(b, k, {}, {})
      /\ \A v \in DOMAIN object : v \in DOMAIN t.object \/ object[v].bucket = b
  BY <1>2, DeleteOneRows, DeleteOneRemoves
<1> HIDE DEF t
<1>5. \A v \in DOMAIN object :
            v \in DOMAIN object' \/ object[v].bucket = bucket[n].id
  BY <1>1, <1>4
<1>6. \A v \in DOMAIN object' :
            \/ v \in DOMAIN object /\ object'[v] = object[v]
            \/ /\ v \notin DOMAIN object /\ v \in Nat /\ versionSeq <= v
               /\ object'[v].bucket = bucket[n].id /\ object'[v].blob = {}
  BY <1>1, <1>3, <1>4 DEF ObjectRow
<1> QED BY <1>1, <1>5, <1>6, RemovesAbstract

\* delete_many: the second entry may remove what the first one added.
LEMMA DeleteManyAbstract ==
    ASSUME TypeOK, NEW a, NEW n, NEW k, NEW ver, NEW k2, NEW ver2,
           DeleteMany(a, n, k, ver, k2, ver2)
    PROVE  \E m \in BucketName : Abstract!DeleteVersions(m)
<1> DEFINE b == bucket[n].id
           s == DeleteOne(Tables, b, k, ver)
           t == DeleteOne(s, b, k2, ver2)
<1>1. n \in DOMAIN bucket /\ object' = t.object /\ UNCHANGED bucket
  BY DEF DeleteMany, Visible, Commit
<1>2. Tables.object = object /\ Tables.seq = versionSeq
  BY DEF Tables
<1>3. versionSeq \in Nat /\ \A v \in DOMAIN object : v \in Nat /\ v < versionSeq
  BY DEF TypeOK, ObjectOK
<1>4. /\ \A v \in DOMAIN s.object :
            \/ v \in DOMAIN object /\ s.object[v] = object[v]
            \/ v = versionSeq /\ s.object[v] = ObjectRow(b, k, {}, {})
      /\ s.seq = versionSeq \/ s.seq = versionSeq + 1
      /\ \A v \in DOMAIN object : v \in DOMAIN s.object \/ object[v].bucket = b
  BY <1>2, DeleteOneRows, DeleteOneRemoves
<1> HIDE DEF s
<1>5. /\ \A v \in DOMAIN t.object :
            \/ v \in DOMAIN s.object /\ t.object[v] = s.object[v]
            \/ v = s.seq /\ t.object[v] = ObjectRow(b, k2, {}, {})
      /\ \A v \in DOMAIN s.object : v \in DOMAIN t.object \/ s.object[v].bucket = b
  BY DeleteOneRows, DeleteOneRemoves
<1> HIDE DEF t
<1>6. \A v \in DOMAIN object :
            v \in DOMAIN object' \/ object[v].bucket = bucket[n].id
  BY <1>1, <1>3, <1>4, <1>5
<1>7. /\ ObjectRow(b, k, {}, {}).bucket = b /\ ObjectRow(b, k, {}, {}).blob = {}
      /\ ObjectRow(b, k2, {}, {}).bucket = b /\ ObjectRow(b, k2, {}, {}).blob = {}
  BY DEF ObjectRow
<1>8. \A v \in DOMAIN object' :
            \/ v \in DOMAIN object /\ object'[v] = object[v]
            \/ /\ v \notin DOMAIN object /\ v \in Nat /\ versionSeq <= v
               /\ object'[v].bucket = bucket[n].id /\ object'[v].blob = {}
  BY <1>1, <1>3, <1>4, <1>5, <1>7
<1> QED BY <1>1, <1>6, <1>8, RemovesAbstract


\* A new bucket gets an id that no other bucket has.
LEMMA AddBucketAbstract ==
    ASSUME TypeOK, NEW a, NEW n, AddBucket(a, n)
    PROVE  Abstract!Create(n) /\ BucketIds'[n] = bucketSeq
<1>1. /\ n \notin DOMAIN bucket /\ DOMAIN bucket' = DOMAIN bucket \cup {n}
      /\ bucket'[n].id = bucketSeq
      /\ \A m \in DOMAIN bucket : bucket'[m] = bucket[m]
  BY DEF AddBucket
<1>2. n \notin DOMAIN BucketIds /\ DOMAIN BucketIds' = DOMAIN BucketIds \cup {n}
  BY <1>1, Shown, ShownNext
<1>3. BucketIds'[n] = bucketSeq /\ \A m \in DOMAIN BucketIds : BucketIds'[m] = BucketIds[m]
  BY <1>1, Shown, ShownNext
<1>4. \A m \in DOMAIN BucketIds : BucketIds[m] # bucketSeq
  BY Shown DEF TypeOK, BucketOK
<1>5. BucketIds'[n] \notin Abstract!Range(BucketIds)
  BY <1>3, <1>4 DEF Abstract!Range
<1> QED BY <1>2, <1>3, <1>5 DEF Abstract!Create

\* create_bucket.
LEMMA CreateAbstract ==
    ASSUME TypeOK, NEW a, NEW n, CreateBucket(a, n)
    PROVE  Abstract!CreateBucket(n)
<1>1. AddBucket(a, n) /\ UNCHANGED object
  BY DEF CreateBucket, objectVars
<1>2. History' = History
  BY <1>1 DEF History
<1> QED BY <1>1, <1>2, AddBucketAbstract DEF Abstract!CreateBucket

\* delete_bucket.
LEMMA DropAbstract ==
    ASSUME NEW a, NEW n, DeleteBucket(a, n)
    PROVE  Abstract!DropBucket(n)
<1>1. /\ n \in DOMAIN bucket /\ UNCHANGED object
      /\ \A v \in DOMAIN object : object[v].bucket # bucket[n].id
      /\ bucket' = [m \in DOMAIN bucket \ {n} |-> bucket[m]]
  BY DEF DeleteBucket, Visible, objectVars, Restrict
<1>2. History' = History
  BY <1>1 DEF History
<1>3. n \in DOMAIN BucketIds /\ \A v \in DOMAIN History : History[v].bucket # BucketIds[n]
  BY <1>1, Shown
<1>4. BucketIds' = [m \in DOMAIN bucket \ {n} |-> bucket[m].id]
  BY <1>1 DEF BucketIds
<1>5. BucketIds' = Abstract!Restrict(BucketIds, DOMAIN BucketIds \ {n})
  BY <1>4 DEF BucketIds, Abstract!Restrict
<1> QED BY <1>2, <1>3, <1>5 DEF Abstract!DropBucket

\* fork_bucket: the rows with is_latest are the newest rows of their keys, so the
\* fork holds what a reader of the source sees, each key once.
LEMMA ForkAbstract ==
    ASSUME TypeOK, LatestIsNewest, NEW a, NEW n, NEW n2, Fork(a, n, n2)
    PROVE  Abstract!Fork(n, n2)
<1> DEFINE rows == {v \in latest : object[v].bucket = bucket[n].id}
           fresh == versionSeq .. (versionSeq + Cardinality(rows) - 1)
<1>1. PICK scan \in Bijection(fresh, rows) :
            object' = [w \in DOMAIN object \cup fresh |->
                        IF w \in fresh
                        THEN ObjectRow(bucketSeq, object[scan[w]].key,
                                       object[scan[w]].blob, object[scan[w]].etag)
                        ELSE object[w]]
  BY DEF Fork
<1>2. ObjectOK
  BY DEF TypeOK
<1>3. /\ scan \in [fresh -> rows]
      /\ \A v, w \in fresh : scan[v] = scan[w] => v = w
      /\ \A r \in rows : \E w \in fresh : scan[w] = r
  BY <1>1 DEF Bijection, Injection, IsInjective, Surjection
<1>4. \A v \in rows : /\ v \in DOMAIN object /\ v \in latest
                      /\ object[v].bucket = bucket[n].id
  BY <1>2 DEF ObjectOK
<1>5. \A v \in DOMAIN object : object[v].bucket = bucket[n].id /\ v \in latest => v \in rows
  OBVIOUS
<1> HIDE DEF rows
<1>6. fresh \cap DOMAIN object = {}
  BY <1>2 DEF ObjectOK
<1> HIDE DEF fresh
<1>7. /\ DOMAIN object' = DOMAIN object \cup fresh
      /\ \A w \in fresh :
            /\ object'[w].bucket = bucketSeq
            /\ object'[w].key = object[scan[w]].key
            /\ object'[w].blob = object[scan[w]].blob
      /\ \A w \in DOMAIN object : object'[w] = object[w]
  BY <1>1, <1>6 DEF ObjectRow
<1>8. n \in DOMAIN bucket /\ Abstract!Create(n2) /\ BucketIds'[n2] = bucketSeq
  BY AddBucketAbstract DEF Fork, Visible
<1>9. Abstract!Added = fresh /\ DOMAIN History \subseteq DOMAIN History'
  BY <1>6, <1>7, Shown, ShownNext DEF Abstract!Added
<1>10. Abstract!Unchanged(Abstract!Kept)
  BY <1>7, Shown, ShownNext, SameShown DEF Abstract!Unchanged, Abstract!Kept
<1>11. \A v \in fresh : /\ scan[v] \in rows
                        /\ History'[v].bucket = bucketSeq
                        /\ History'[v].key = History[scan[v]].key
                        /\ History'[v].entry = History[scan[v]].entry
  <2> SUFFICES ASSUME NEW v \in fresh
               PROVE  /\ scan[v] \in rows
                      /\ History'[v].bucket = bucketSeq
                      /\ History'[v].key = History[scan[v]].key
                      /\ History'[v].entry = History[scan[v]].entry
    OBVIOUS
  <2>1. scan[v] \in rows /\ scan[v] \in DOMAIN object /\ v \in DOMAIN object'
    BY <1>3, <1>4, <1>7
  <2> QED BY <1>7, <2>1, Shown, ShownNext
<1>12. \A v, w \in rows : History[v].key = History[w].key => v = w
  <2> SUFFICES ASSUME NEW v \in rows, NEW w \in rows, object[v].key = object[w].key
               PROVE  v = w
    BY <1>4, Shown
  <2>1. /\ v \in Versions(object, object[w].bucket, object[w].key)
        /\ w \in Versions(object, object[v].bucket, object[v].key)
    BY <1>4 DEF Versions
  <2>2. v <= w /\ w <= v
    BY <1>4, <2>1 DEF LatestIsNewest, NewestIsLatest
  <2> QED BY <1>2, <1>4, <2>2 DEF ObjectOK
<1>13. \A v, w \in fresh : History'[v].key = History'[w].key => v = w
  BY <1>3, <1>11, <1>12
<1> DEFINE copy == {<<History'[v].key, History'[v].entry>> : v \in Abstract!Added}
           newest == {w \in DOMAIN History :
                        /\ History[w].bucket = BucketIds[n]
                        /\ \A x \in Abstract!Of(BucketIds[n], History[w].key) : x <= w}
<1>14. newest = rows
  <2>1. ASSUME NEW w \in DOMAIN object, object[w].bucket = bucket[n].id
        PROVE  Abstract!Of(BucketIds[n], History[w].key)
                 = Versions(object, object[w].bucket, object[w].key)
    BY <1>8, <2>1, Shown DEF Abstract!Of, Versions
  <2>2. ASSUME NEW w \in DOMAIN object, object[w].bucket = bucket[n].id
        PROVE  w \in latest <=>
                 \A x \in Abstract!Of(BucketIds[n], History[w].key) : x <= w
    BY <2>1, <2>2 DEF LatestIsNewest, NewestIsLatest
  <2> QED BY <1>4, <1>5, <1>8, <2>2, Shown
<1>15. copy = {<<History[v].key, History[v].entry>> : v \in rows}
  BY <1>3, <1>9, <1>11
<1>16. copy = Abstract!Newest(BucketIds[n])
  BY <1>14, <1>15 DEF Abstract!Newest
<1>17. \A v \in Abstract!Added : History'[v].bucket = BucketIds'[n2]
  BY <1>8, <1>9, <1>11
<1>18. n \in DOMAIN BucketIds
  BY <1>8, Shown
<1> QED
  BY <1>8, <1>9, <1>10, <1>13, <1>16, <1>17, <1>18 DEF Abstract!Fork


-----------------------------------------------------------------------------
(* The semantic layer implements the versioned buckets.                    *)

\* The empty tables show no bucket and no version.
LEMMA InitAbstract ==
    ASSUME Init
    PROVE  Abstract!Init
<1>1. bucket = [x \in {} |-> x] /\ object = [x \in {} |-> x]
  BY DEF Init, Empty
<1>2. BucketIds = [x \in {} |-> x] /\ History = [x \in {} |-> x]
  BY <1>1 DEF BucketIds, History
<1> QED BY <1>2 DEF Abstract!Init

\* Every transaction is a step of the versioned buckets or shows nothing.
LEMMA StepAbstract ==
    ASSUME TypeOK, LatestIsNewest, Anchored, [Next]_vars
    PROVE  Abstract!Next
<1>1. \A s \in {} \ {} : s[2] = Abstract!Newest(s[1])
  OBVIOUS
<1> DEFINE Moves == \/ \E n \in BucketName : \/ Abstract!CreateBucket(n)
                                             \/ Abstract!DropBucket(n)
                                             \/ Abstract!Publish(n)
                                             \/ Abstract!DeleteVersions(n)
                    \/ \E n, m \in BucketName : Abstract!Fork(n, m)
                    \/ UNCHANGED <<BucketIds, History>>
<1>2. Moves
  <2>1. CASE UNCHANGED <<bucket, object>>
    BY <2>1 DEF BucketIds, History
  <2>2. ASSUME NEW b, NEW k, NEW c, NEW e, InsertVersion(b, k, c, e), c # {},
               HasBucket(b), UNCHANGED bucket
        PROVE  Moves
    BY <2>2, PublishAbstract
  <2>3. ASSUME NEW a, NEW n, NEW k, NEW ver, Delete(a, n, k, ver)
        PROVE  Moves
    BY <2>3, DeleteAbstract
  <2>4. ASSUME NEW a, NEW n, NEW k, NEW ver, NEW k2, NEW ver2,
               DeleteMany(a, n, k, ver, k2, ver2)
        PROVE  Moves
    BY <2>4, DeleteManyAbstract
  <2>5. ASSUME NEW a, NEW n \in BucketName, NEW m \in BucketName, Fork(a, n, m)
        PROVE  Moves
    BY <2>5, ForkAbstract
  <2>6. ASSUME NEW a, NEW n \in BucketName, CreateBucket(a, n) \/ DeleteBucket(a, n)
        PROVE  Moves
    BY <2>6, CreateAbstract, DropAbstract
  <2> HIDE DEF Moves
  <2> QED BY <2>1, <2>2, <2>3, <2>4, <2>5, <2>6, StepEffects
<1> QED BY <1>1, <1>2 DEF Abstract!Next

\* Every behaviour of the semantic layer is one of the versioned buckets: no SQL
\* function, trigger, cascade or collector shows a client anything else than a
\* bucket created, an empty bucket gone, a version published above all others of
\* its key, versions deleted and markers added in one bucket, or a bucket forked as
\* its readers see it.
THEOREM StoreKeepsPromises == Spec => KeepsPromises
<1>1. Init => Abstract!Init
  BY InitAbstract
<1>2. TypeOK /\ LatestIsNewest /\ Anchored /\ [Next]_vars => [Abstract!Next]_(Abstract!vars)
  BY StepAbstract
<1> QED
  BY <1>1, <1>2, HistoryInvariant, ReferenceInvariant, PTL
      DEF Spec, KeepsPromises, Abstract!Spec, Abstract!Steps

=============================================================================
