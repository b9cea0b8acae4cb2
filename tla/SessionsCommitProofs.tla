------------------------ MODULE SessionsCommitProofs ------------------------
(***************************************************************************)
(* The statements that find bucket ids and write object rows, COMMIT, and  *)
(* the theorems about module Sessions.                                     *)
(***************************************************************************)
EXTENDS SessionsProofs

-----------------------------------------------------------------------------
(* Statements that find a bucket id.                                       *)

\* Before it has found one, a transaction has written no object row and no name.
LEMMA NoIdYet ==
    ASSUME Inv, NEW r \in Session, tx[r].id = 0
    PROVE  /\ NewIds(r) = {} /\ DOMAIN tx[r].w.rows = {} /\ DOMAIN tx[r].w.named = {}
           /\ (tx[r].w.gone \cup tx[r].w.cleared \cup tx[r].w.made) \cap DOMAIN object = {}
           /\ tx[r].w.unnamed = {} /\ ~IsNew(r) /\ (\A k : ~HasKey(r, k)) /\ ~Emptied(r)
<1>1. 0 \notin Ids
  BY DEF Ids
<1>2. NewIds(r) = {} /\ ~IsNew(r)
  BY <1>1 DEF Inv, Data, BucketIds, IsNew
<1>3. \A k : ~HasKey(r, k)
  BY DEF HasKey
<1>4. ~Emptied(r)
  BY <1>1 DEF Emptied, Inv, Data, BucketIds
<1>5. \A b, k : ~Mine(r, b, k)
  BY <1>2, <1>3 DEF Mine
<1>6. /\ DOMAIN tx[r].w.rows = {}
      /\ (tx[r].w.gone \cup tx[r].w.cleared \cup tx[r].w.made) \cap DOMAIN object = {}
  BY <1>5 DEF Inv, Data, OwnKeys, OwnKeysAt
<1>7. tx[r].w.unnamed = {}
  BY <1>4 DEF Inv, Named
<1>8. DOMAIN tx[r].w.named = {}
  <2>1. \A n \in DOMAIN tx[r].w.named : tx[r].w.named[n] \in NewIds(r)
    BY DEF NewIds, Range
  <2> QED BY <2>1, <1>2
<1> QED BY <1>2, <1>3, <1>4, <1>6, <1>7, <1>8

\* r has found the bucket id i and nothing else.
Found(r, i) ==
    /\ tx'[r].id = i /\ tx'[r].src = tx[r].src /\ tx'[r].shot = tx[r].shot /\ tx'[r].w = tx[r].w
    /\ tx'[r].state = tx[r].state
    /\ UNCHANGED <<versionSeq, bucketSeq>>

\* The first id a transaction finds is one that nobody else has just drawn.
LEMMA FoundKeeps ==
    ASSUME Inv, NEW r \in Session, RunFrame(r), NEW i \in Ids, Found(r, i), tx[r].id = 0,
           \A q \in Session \ {r} : i \notin NewIds(q)
    PROVE  Data' /\ Named' /\ Uploads' /\ Finite' /\ \A q \in Session : Keeps(q)
<1>1. /\ UNCHANGED <<bucket, object, latest, upload, blob, versionSeq, bucketSeq>>
      /\ \A q \in Session :
           /\ q # r => tx'[q] = tx[q]
           /\ tx'[q].src = tx[q].src /\ tx'[q].shot = tx[q].shot
           /\ tx'[q].w = tx[q].w /\ tx'[q].state = tx[q].state
  BY DEF RunFrame, Found, tables
<1>2. tx'[r].id = i /\ i \in Ids /\ i # 0
  BY DEF Found, Ids
<1>3. /\ NewIds(r) = {} /\ DOMAIN tx[r].w.rows = {} /\ DOMAIN tx[r].w.named = {}
      /\ (tx[r].w.gone \cup tx[r].w.cleared \cup tx[r].w.made) \cap DOMAIN object = {}
      /\ tx[r].w.unnamed = {} /\ ~IsNew(r)
  BY NoIdYet
<1>4. \A q \in Session : Keeps(q)
  <2>1. Keeps(r)
    BY <1>1, KeepsFinding DEF Inv, Data, RunFrame
  <2> QED BY <2>1, FrameKeeps
<1>5. \A q \in Session : NewIds(q)' = NewIds(q)
  BY <1>1 DEF NewIds
<1>6. \A q \in Session : Rows(q)' = Rows(q) /\ Flags(q)' = Flags(q)
  BY <1>1 DEF Rows, Flags
<1>7. \A q \in Session \ {r} : \A b, k : Mine(q, b, k) => Mine(q, b, k)'
  BY <1>1, <1>4, KeepsMine
<1>8. \A q \in Session : (\A k : Checked(q, k) => Checked(q, k)') /\ (HasSource(q) => HasSource(q)')
                         /\ (Emptied(q) => Emptied(q)')
  BY <1>4, KeepsChecked
<1>9. \A q \in Session \ {r} : IsNew(q)' <=> IsNew(q)
  BY <1>1, <1>5 DEF IsNew
<1>10. Ids' = Ids
  BY <1>1 DEF Ids
<1> USE DEF Inv, Data
<1>11. BucketIds'
  <2>1. ASSUME NEW q \in Session
        PROVE  /\ tx'[q].id \in Ids' \cup {0} /\ tx'[q].src \in Ids' \cup {0}
               /\ NewIds(q)' \subseteq Ids' \cap {tx'[q].id}
    <3>1. CASE q = r
      BY <3>1, <1>1, <1>2, <1>3, <1>5, <1>10 DEF BucketIds
    <3>2. CASE q # r
      BY <3>2, <1>1, <1>5, <1>10 DEF BucketIds
    <3> QED BY <3>1, <3>2
  <2> QED BY <2>1, <1>1, <1>10 DEF BucketIds
<1>12. Secret'
  <2>1. ASSUME NEW q \in Session, NEW b \in NewIds(q)', NEW p \in Session \ {q} PROVE tx'[p].id # b
    <3>1. CASE p = r
      BY <3>1, <1>2, <1>5
    <3>2. CASE p # r
      BY <3>2, <1>1, <1>5 DEF Secret
    <3> QED BY <3>1, <3>2
  <2> QED BY <2>1, <1>1, <1>5 DEF Secret
<1>13. VersionIds'
  BY <1>1 DEF VersionIds, Changed
<1>14. OwnKeys'
  <2>1. ASSUME NEW q \in Session \ {r}
        PROVE  /\ \A v \in DOMAIN tx[q].w.rows : Mine(q, tx[q].w.rows[v].bucket, tx[q].w.rows[v].key)'
               /\ \A v \in (tx[q].w.gone \cup tx[q].w.cleared \cup tx[q].w.made) \cap DOMAIN object :
                    Mine(q, object[v].bucket, object[v].key)'
    BY <1>1, <1>7 DEF OwnKeys, OwnKeysAt
  <2> QED BY <2>1, <1>1, <1>3 DEF OwnKeys, OwnKeysAt
<1>15. Views'
  <2>1. Views
    OBVIOUS
  <2>2. NewestIn(object, latest)'
    BY <2>1, <1>1 DEF Views, NewestIn, Versions
  <2>3. ASSUME NEW q \in Session PROVE NewestIn(Rows(q), Flags(q))'
    <3>1. NewestIn(Rows(q), Flags(q)) /\ Rows(q)' = Rows(q) /\ Flags(q)' = Flags(q)
      BY <2>1, <1>6 DEF Views
    <3> QED BY <3>1 DEF NewestIn, Versions
  <2> QED BY <2>2, <2>3 DEF Views
<1>16. Fresh'
  BY <1>1, <1>8 DEF Fresh, FreshAt, Versions
<1>17. ByCall'
  BY <1>1, <1>3, <1>9 DEF ByCall, ByCallAt
<1>18. Forks'
  <2>1. \A q \in Session : Copy(tx[q].w)' = Copy(tx[q].w)
    BY <1>1 DEF Copy
  <2>2. Forks
    OBVIOUS
  <2> QED BY <2>1, <2>2, <1>1, <1>8 DEF Forks, ForksAt
<1>19. Named'
  <2>1. \A q, a, b : Holding(q, a, b) => Holding(q, a, b)'
    BY DEF Holding, RunFrame
  <2>2. Named
    OBVIOUS
  <2>3. ASSUME NEW q \in Session \ {r}, NEW n \in DOMAIN tx[q].w.named
        PROVE  /\ Call[q].op \in Creating /\ n = Call[q].bucket /\ n \notin DOMAIN bucket
               /\ tx[q].w.named[n] = tx'[q].id
               /\ Holding(q, Lifecycle(n), "exclusive")'
    <3>1. /\ Call[q].op \in Creating /\ n = Call[q].bucket /\ n \notin DOMAIN bucket
          /\ tx[q].w.named[n] = tx[q].id
          /\ Holding(q, Lifecycle(n), "exclusive")
      BY <2>2 DEF Named
    <3> QED BY <3>1, <2>1, <1>1
  <2> QED BY <2>2, <2>3, <1>1, <1>3, <1>8 DEF Named
<1>20. Uploads'
  <2>1. \A q, a, b : Holding(q, a, b) => Holding(q, a, b)'
    BY DEF Holding, RunFrame
  <2>2. UploadsAt(r)
    BY DEF Uploads, UploadsAt
  <2>3. UploadsAt(r)'
    BY <2>1, <2>2, <1>1, <1>5, <1>10 DEF UploadsAt
  <2> QED BY <2>3, <1>5, <1>10, UploadsFrame
<1>21. Finite'
  <2>1. IsFiniteSet(tx[r].w.born) /\ IsFiniteSet(DOMAIN tx[r].w.staged)
    BY DEF Finite
  <2> QED BY <2>1, <1>1, FiniteFrame
<1> QED BY <1>4, <1>11, <1>12, <1>13, <1>14, <1>15, <1>16, <1>17, <1>18, <1>19, <1>20, <1>21

\* A statement that finds an id, the same one if it knew it already.
LEMMA FindsFrame ==
    ASSUME Inv, NEW r \in Session, NEW verb, Runs(r, verb, {}), Quiet,
           NEW i \in Ids, NEW ls, Advanced(r, ls, i, tx[r].src, tx[r].shot, tx[r].w),
           tx[r].id \in {0, i}, \A q \in Session \ {r} : i \notin NewIds(q)
    PROVE  /\ RunFrame(r) /\ Data' /\ Named' /\ Uploads' /\ Finite' /\ Keeps(r)
           /\ tx'[r].id = i /\ UNCHANGED <<bucket, object, latest, upload>>
<1>1. Granted(r, {}) /\ (verb = "insert blob" => Wanted(r) = {})
  BY NothingMore
<1>2. UNCHANGED tables /\ UNCHANGED <<versionSeq, bucketSeq>>
  BY DEF Quiet, sequences
<1>3. RunFrame(r)
  BY <1>1, <1>2, FrameOf
<1>4. tx[r].state = "open"
  BY DEF Runs, Open
<1>5. Found(r, i)
  BY <1>2, <1>4 DEF Advanced, Found
<1>6. CASE tx[r].id = 0
  BY <1>3, <1>5, <1>6, FoundKeeps DEF Found, RunFrame, tables
<1>7. CASE tx[r].id = i
  <2>1. SameData(r) /\ SameSides(r)
    BY <1>5, <1>7 DEF Found, SameData, SameSides
  <2>2. Data' /\ Named' /\ Uploads' /\ Keeps(r)
    BY <1>3, <2>1, DataSame, NamedSame, UploadsSame, SameKeeps DEF SameSides
  <2>3. IsFiniteSet(tx[r].w.born) /\ IsFiniteSet(DOMAIN tx[r].w.staged)
    BY DEF Inv, Finite
  <2>4. Finite'
    BY <2>3, <1>3, <1>5, FiniteFrame DEF Found
  <2> QED BY <1>3, <1>5, <2>2, <2>4 DEF Found, RunFrame, tables
<1> QED BY <1>6, <1>7

\* How it goes on.
LEMMA FindsStep ==
    ASSUME Inv, NEW r \in Session, NEW verb, Runs(r, verb, {}), Quiet,
           verb \in Setter \cup {"child"},
           NEW i \in Ids, NEW ls, Advanced(r, ls, i, tx[r].src, tx[r].shot, tx[r].w),
           tx[r].id \in {0, i}, \A q \in Session \ {r} : i \notin NewIds(q),
           SuitedAt(r, ls), PreparedNext(r, ls), Lacks(ls, Setter),
           \A f \in Provides(r, tx[r].todo[1]) :
                Holds(r, f)' \/ \E j \in DOMAIN ls : f \in Provides(r, ls[j]),
           Lacks(ls, Writer) \/ (verb \in Writer /\ \E k \in DOMAIN ls : Sole(ls, Writer, k))
    PROVE  Inv'
<1>1. /\ RunFrame(r) /\ Data' /\ Named' /\ Uploads' /\ Finite' /\ Keeps(r)
  BY FindsFrame
<1>2. Open(r) /\ Verb(r) = verb
  BY DEF Runs
<1>3. Verb(r) # "snapshot"
  BY <1>2 DEF Setter
<1>4. WillReadAt(r, tx[r].todo)'
  BY <1>2, <1>3, StillReads
<1>5. Todos'
  BY <1>1, <1>2, <1>4, GoesOn
<1>6. Formed' /\ LockSafe'
  BY <1>1 DEF RunFrame
<1> QED BY <1>1, <1>5, <1>6 DEF Inv

\* A committed name has a known id.
LEMMA KnownIds ==
    ASSUME Inv, NEW n \in DOMAIN bucket
    PROVE  bucket[n] \in Ids /\ \A q \in Session : bucket[n] \notin NewIds(q)
BY DEF Inv, Data, BucketIds, Secret

\* _bucket_id_for_child.
LEMMA ChildStep ==
    ASSUME Inv, NEW r \in Session, Child(r)
    PROVE  Inv'
<1>1. PICK n, i :
        /\ n = Arg(r) /\ n \in DOMAIN bucket /\ i = bucket[n] /\ tx[r].id \in {0, i}
        /\ Runs(r, "child", {}) /\ tx' = [tx EXCEPT ![r].todo = Tail(@), ![r].id = i] /\ Quiet
  BY DEF Child
<1>2. /\ Open(r) /\ Verb(r) = "child" /\ tx[r].todo[1].verb = "child" /\ n = tx[r].todo[1].arg
      /\ Suits(r, tx[r].todo[1])
  BY <1>1, RunsFirst
<1>3. Advanced(r, <<>>, i, tx[r].src, tx[r].shot, tx[r].w)
  BY <1>1, <1>2, FindsAdvances DEF Inv
<1>4. i \in Ids /\ \A q \in Session \ {r} : i \notin NewIds(q)
  BY <1>1, KnownIds
<1>5. tx'[r].id = i /\ UNCHANGED bucket
  BY <1>1, <1>3, <1>4, FindsFrame
<1>6. Wanted(r) = {<<Lifecycle(n), "shared">>}
  BY <1>1, <1>2, WantedIs
<1>7. <<r, Lifecycle(n), "shared">> \in held'
  BY <1>1, <1>6, RunsHolds
<1>8. Rooted(r)'
  BY <1>1, <1>5, <1>7 DEF Rooted, Holding
<1>9. Call[r].op # "fork_bucket"
  BY <1>2, AllowedOnly DEF Suits
<1>12. Holds(r, Ready0)'
  BY <1>8, <1>9 DEF Holds, Ready0, Ready
<1>10. Provides(r, tx[r].todo[1]) = {Ready0}
  BY <1>2 DEF Provides
<1>11. Lacks(<<>>, Setter) /\ Lacks(<<>>, Writer) /\ SuitedAt(r, <<>>) /\ PreparedNext(r, <<>>)
  BY NothingNext
<1> QED BY <1>1, <1>3, <1>4, <1>10, <1>11, <1>12, FindsStep

\* delete_bucket finds its bucket empty under the exclusive lifecycle lock.
LEMMA CheckEmptyStep ==
    ASSUME Inv, NEW r \in Session, CheckEmpty(r)
    PROVE  Inv'
<1>1. PICK n, i :
        /\ n = Arg(r) /\ n \in DOMAIN bucket /\ i = bucket[n]
        /\ \A v \in DOMAIN object : object[v].bucket # i
        /\ Runs(r, "check empty", {}) /\ tx' = [tx EXCEPT ![r].todo = Tail(@), ![r].id = i] /\ Quiet
  BY DEF CheckEmpty
<1>2. /\ Open(r) /\ Verb(r) = "check empty" /\ tx[r].todo[1].verb = "check empty"
      /\ n = tx[r].todo[1].arg /\ Suits(r, tx[r].todo[1])
      /\ \A f \in Requires(r, tx[r].todo[1]) : Holds(r, f)
  BY <1>1, RunsFirst
<1>3. Advanced(r, <<>>, i, tx[r].src, tx[r].shot, tx[r].w)
  BY <1>1, <1>2, FindsAdvances DEF Inv
<1>4. i \in Ids /\ \A q \in Session \ {r} : i \notin NewIds(q)
  BY <1>1, KnownIds
<1>5. tx[r].id = 0
  <2>1. 1 \in DOMAIN tx[r].todo
    BY <1>2, FirstStatement
  <2> QED BY <2>1, <1>2 DEF Inv, Todos, Settling, SettlingAt, Setter
<1>6. RunFrame(r) /\ tx'[r].id = i /\ UNCHANGED <<bucket, object>>
  BY <1>1, <1>3, <1>4, <1>5, FindsFrame
<1>7. n = Call[r].bucket
  BY <1>2 DEF Suits
<1>8. <<r, Lifecycle(n), "exclusive">> \in held
  <2>1. Holds(r, <<"exclusive", n>>)
    BY <1>2 DEF Requires
  <2> QED BY <2>1 DEF Holds, Holding
<1>9. <<r, Lifecycle(n), "exclusive">> \in held'
  BY <1>6, <1>8 DEF RunFrame
<1>10. Emptied(r)'
  BY <1>1, <1>6, <1>7, <1>9 DEF Emptied, Holding
<1>11. Holds(r, Empty0)'
  BY <1>10 DEF Holds, Empty0
<1>12. Provides(r, tx[r].todo[1]) = {Empty0}
  BY <1>2 DEF Provides
<1>13. Lacks(<<>>, Setter) /\ Lacks(<<>>, Writer) /\ SuitedAt(r, <<>>) /\ PreparedNext(r, <<>>)
  BY NothingNext
<1>14. "check empty" \in Setter
  BY DEF Setter
<1> QED BY <1>1, <1>3, <1>4, <1>5, <1>11, <1>12, <1>13, <1>14, FindsStep

\* The source is found, and stays what it was if a fork had read it before.
LEMMA SourceStep ==
    ASSUME Inv, NEW r \in Session, Source(r)
    PROVE  Inv'
<1>1. PICK n, i :
        /\ n = Arg(r) /\ n \in DOMAIN bucket /\ i = bucket[n]
        /\ Runs(r, "source", {}) /\ tx' = [tx EXCEPT ![r].todo = Tail(@), ![r].src = i] /\ Quiet
  BY DEF Source
<1>2. /\ Open(r) /\ Verb(r) = "source" /\ tx[r].todo[1].verb = "source" /\ tx[r].state = "open"
      /\ n = tx[r].todo[1].arg /\ Suits(r, tx[r].todo[1])
      /\ \A f \in Requires(r, tx[r].todo[1]) : Holds(r, f)
  BY <1>1, RunsFirst DEF Open
<1>3. Advanced(r, <<>>, tx[r].id, i, tx[r].shot, tx[r].w)
  BY <1>1, <1>2, SourceAdvances DEF Inv
<1>4. Granted(r, {}) /\ ("source" = "insert blob" => Wanted(r) = {})
  BY <1>1, NothingMore
<1>5. UNCHANGED tables /\ UNCHANGED <<versionSeq, bucketSeq>>
  BY <1>1 DEF Quiet, sequences
<1>6. RunFrame(r)
  BY <1>1, <1>3, <1>4, <1>5, FrameOf
<1>7. /\ UNCHANGED <<bucket, object, latest, upload, blob, versionSeq, bucketSeq>>
      /\ \A q \in Session :
           /\ q # r => tx'[q] = tx[q]
           /\ tx'[q].id = tx[q].id /\ tx'[q].shot = tx[q].shot
           /\ tx'[q].w = tx[q].w /\ tx'[q].state = tx[q].state
      /\ tx'[r].src = i
  BY <1>2, <1>3, <1>5, <1>6 DEF RunFrame, Advanced, tables
<1>8. n = Call[r].source /\ i \in Ids
  BY <1>1, <1>2, KnownIds DEF Suits
<1>9. ASSUME Call[r].op = "fork_bucket" PROVE <<r, Lifecycle(n), "shared">> \in held
  <2>1. Holds(r, <<"shared", n>>)
    BY <1>2, <1>9 DEF Requires
  <2> QED BY <2>1 DEF Holds, Holding
<1>10. HasSource(r)'
  BY <1>1, <1>6, <1>7, <1>8, <1>9 DEF HasSource, Holding, RunFrame
<1>11. HasSource(r) /\ Call[r].op = "fork_bucket" => tx[r].src = i
  BY <1>1, <1>8 DEF HasSource
<1>12. Keeps(r)
  <2>2. \A a, b : Holding(r, a, b) => Holding(r, a, b)'
    BY <1>6 DEF Holding, RunFrame
  <2>3. Ready(r) => Ready(r)'
    BY <1>7, <2>2 DEF Ready, Rooted, IsNew, NewIds
  <2>4. \A k : HasKey(r, k) => HasKey(r, k)'
    BY <1>7, <2>2 DEF HasKey
  <2>5. HasUpload(r) => HasUpload(r)'
    BY <2>2 DEF HasUpload
  <2>6. CreateOnly(r)' = CreateOnly(r)
    BY <1>7 DEF CreateOnly
  <2>7. \A b, k : LiveLatest(b, k)' = LiveLatest(b, k)
    BY <1>7 DEF LiveLatest, Versions
  <2>8. \A k : Checked(r, k) => Checked(r, k)'
    BY <1>7, <2>4, <2>5, <2>6, <2>7 DEF Checked
  <2>9. Emptied(r) => Emptied(r)'
    BY <1>7, <2>2 DEF Emptied
  <2>10. ASSUME NEW f, Holds(r, f) PROVE Holds(r, f)'
    BY <1>10, <2>2, <2>3, <2>4, <2>5, <2>8, <2>9, <2>10 DEF Holds
  <2> QED BY <2>10 DEF Keeps
<1>13. \A q \in Session : Keeps(q)
  BY <1>6, <1>12, FrameKeeps
<1>14. \A q \in Session : NewIds(q)' = NewIds(q)
  BY <1>7 DEF NewIds
<1>15. \A q \in Session : Rows(q)' = Rows(q) /\ Flags(q)' = Flags(q)
  BY <1>7 DEF Rows, Flags
<1>16. \A q \in Session : \A b, k : Mine(q, b, k) => Mine(q, b, k)'
  BY <1>7, <1>13, KeepsMine
<1>17. \A q \in Session : (\A k : Checked(q, k) => Checked(q, k)') /\ (HasSource(q) => HasSource(q)')
                          /\ (Emptied(q) => Emptied(q)')
  BY <1>13, KeepsChecked
<1>18. \A q \in Session : IsNew(q)' <=> IsNew(q)
  BY <1>7, <1>14 DEF IsNew
<1>19. Ids' = Ids
  BY <1>7 DEF Ids
<1>20. Data'
  <2> USE DEF Inv, Data
  <2>1. BucketIds'
    <3>1. \A q \in Session : tx'[q].src \in Ids \cup {0}
      BY <1>7, <1>8 DEF BucketIds
    <3> QED BY <3>1, <1>7, <1>14, <1>19 DEF BucketIds
  <2>2. Secret'
    BY <1>7, <1>14 DEF Secret
  <2>3. VersionIds'
    BY <1>7 DEF VersionIds, Changed
  <2>4. OwnKeys'
    BY <1>7, <1>16 DEF OwnKeys, OwnKeysAt
  <2>5. Views'
    <3>1. Views
      OBVIOUS
    <3>2. NewestIn(object, latest)'
      BY <3>1, <1>7 DEF Views, NewestIn, Versions
    <3>3. ASSUME NEW q \in Session PROVE NewestIn(Rows(q), Flags(q))'
      <4>1. NewestIn(Rows(q), Flags(q)) /\ Rows(q)' = Rows(q) /\ Flags(q)' = Flags(q)
        BY <3>1, <1>15 DEF Views
      <4> QED BY <4>1 DEF NewestIn, Versions
    <3> QED BY <3>2, <3>3 DEF Views
  <2>6. Fresh'
    BY <1>7, <1>17 DEF Fresh, FreshAt, Versions
  <2>7. ByCall'
    BY <1>7, <1>18 DEF ByCall, ByCallAt
  <2>8. Forks'
    <3>1. \A q \in Session : Copy(tx[q].w)' = Copy(tx[q].w)
      BY <1>7 DEF Copy
    <3>2. Forks
      OBVIOUS
    <3>3. \A q \in Session : HasSource(q) /\ Call[q].op = "fork_bucket" => tx'[q].src = tx[q].src
      BY <1>7, <1>11
    <3> QED BY <3>1, <3>2, <3>3, <1>7, <1>17 DEF Forks, ForksAt
  <2> QED BY <2>1, <2>2, <2>3, <2>4, <2>5, <2>6, <2>7, <2>8
<1>21. Named'
  <2>1. \A q, a, b : Holding(q, a, b) => Holding(q, a, b)'
    BY <1>6 DEF Holding, RunFrame
  <2> QED BY <2>1, <1>7, <1>17 DEF Inv, Named
<1>22. Uploads'
  <2>1. \A q, a, b : Holding(q, a, b) => Holding(q, a, b)'
    BY <1>6 DEF Holding, RunFrame
  <2>2. UploadsAt(r)
    BY DEF Inv, Uploads, UploadsAt
  <2>3. UploadsAt(r)'
    BY <2>1, <2>2, <1>7, <1>14, <1>19 DEF UploadsAt
  <2> QED BY <2>3, <1>6, <1>14, <1>19, UploadsFrame
<1>23. Finite'
  <2>1. IsFiniteSet(tx[r].w.born) /\ IsFiniteSet(DOMAIN tx[r].w.staged)
    BY DEF Inv, Finite
  <2> QED BY <2>1, <1>6, <1>7, FiniteFrame
<1>24. Todos'
  <2>1. Holds(r, Source0)'
    BY <1>10 DEF Holds, Source0
  <2>2. Provides(r, tx[r].todo[1]) = {Source0}
    BY <1>2 DEF Provides
  <2>3. WillReadAt(r, tx[r].todo)'
    BY <1>2, <1>3, StillReads
  <2>4. Lacks(<<>>, Setter) /\ Lacks(<<>>, Writer) /\ Lacks(<<>>, {"child"})
        /\ SuitedAt(r, <<>>) /\ PreparedNext(r, <<>>)
    BY NothingNext
  <2> QED BY <2>1, <2>2, <2>3, <2>4, <1>2, <1>3, <1>6, <1>12, GoesOn
<1>25. Formed' /\ LockSafe'
  BY <1>6 DEF RunFrame
<1> QED BY <1>20, <1>21, <1>22, <1>23, <1>24, <1>25 DEF Inv

-----------------------------------------------------------------------------
(* Lists that end with a new version.                                      *)

\* One or two statements after a list.
LEMMA Appended ==
    ASSUME NEW s, IsSeq(s)
    PROVE  /\ s \o <<>> = s
           /\ \A x : /\ IsSeq(s \o <<x>>) /\ Len(s \o <<x>>) = Len(s) + 1
                     /\ \A i \in 1 .. Len(s) : (s \o <<x>>)[i] = s[i]
                     /\ (s \o <<x>>)[Len(s) + 1] = x
           /\ \A x, y : /\ IsSeq(s \o <<x, y>>) /\ Len(s \o <<x, y>>) = Len(s) + 2
                        /\ \A i \in 1 .. Len(s) : (s \o <<x, y>>)[i] = s[i]
                        /\ (s \o <<x, y>>)[Len(s) + 1] = x /\ (s \o <<x, y>>)[Len(s) + 2] = y
<1>1. s \o <<>> = s
  <2>1. s \in Seq(Range(s))
    BY SeqOver
  <2> QED BY <2>1
<1>2. ASSUME NEW x
      PROVE  /\ IsSeq(s \o <<x>>) /\ Len(s \o <<x>>) = Len(s) + 1
             /\ \A i \in 1 .. Len(s) : (s \o <<x>>)[i] = s[i]
             /\ (s \o <<x>>)[Len(s) + 1] = x
  <2> DEFINE q == <<x>>
  <2>1. IsSeq(q)
    BY ShortLists
  <2>2. Len(q) = 1 /\ q[1] = x
    OBVIOUS
  <2> HIDE DEF q
  <2>3. /\ IsSeq(s \o q) /\ Len(s \o q) = Len(s) + Len(q)
        /\ \A i \in 1 .. Len(s) : (s \o q)[i] = s[i]
        /\ \A i \in 1 .. Len(q) : (s \o q)[Len(s) + i] = q[i]
    BY <2>1, Joined
  <2>4. (s \o q)[Len(s) + 1] = x
    BY <2>2, <2>3
  <2> QED BY <2>2, <2>3, <2>4 DEF q
<1>3. ASSUME NEW x, NEW y
      PROVE  /\ IsSeq(s \o <<x, y>>) /\ Len(s \o <<x, y>>) = Len(s) + 2
             /\ \A i \in 1 .. Len(s) : (s \o <<x, y>>)[i] = s[i]
             /\ (s \o <<x, y>>)[Len(s) + 1] = x /\ (s \o <<x, y>>)[Len(s) + 2] = y
  <2> DEFINE q == <<x, y>>
  <2>1. IsSeq(q)
    BY ShortLists
  <2>2. Len(q) = 2 /\ q[1] = x /\ q[2] = y
    OBVIOUS
  <2> HIDE DEF q
  <2>3. /\ IsSeq(s \o q) /\ Len(s \o q) = Len(s) + Len(q)
        /\ \A i \in 1 .. Len(s) : (s \o q)[i] = s[i]
        /\ \A i \in 1 .. Len(q) : (s \o q)[Len(s) + i] = q[i]
    BY <2>1, Joined
  <2>4. (s \o q)[Len(s) + 1] = x /\ (s \o q)[Len(s) + 2] = y
    BY <2>2, <2>3
  <2> QED BY <2>2, <2>3, <2>4 DEF q
<1> QED BY <1>1, <1>2, <1>3

\* The number of statements of Condition.
Checks(co) == IF co THEN 1 ELSE 0

\* _check_write_preconditions after a list.
ConditionedAs(ls, s, co, k) ==
    /\ IsSeq(ls) /\ Len(ls) = Len(s) + Checks(co)
    /\ \A i \in 1 .. Len(s) : ls[i] = s[i]
    /\ co => ls[Len(s) + 1] = Do("check", k)

\* It adds one statement or none.
LEMMA Conditioned ==
    ASSUME NEW s, IsSeq(s), NEW co, NEW k
    PROVE  ConditionedAs(s \o Condition(co, k), s, co, k)
<1> DEFINE ch == Do("check", k)
           ls == s \o Condition(co, k)
<1>1. CASE co
  <2>1. Condition(co, k) = <<ch>> /\ Checks(co) = 1
    BY <1>1 DEF Condition, Checks
  <2> HIDE DEF ch
  <2>2. /\ IsSeq(s \o <<ch>>) /\ Len(s \o <<ch>>) = Len(s) + 1
        /\ \A i \in 1 .. Len(s) : (s \o <<ch>>)[i] = s[i]
        /\ (s \o <<ch>>)[Len(s) + 1] = ch
    BY Appended
  <2>3. /\ IsSeq(ls) /\ Len(ls) = Len(s) + Checks(co) /\ \A i \in 1 .. Len(s) : ls[i] = s[i]
        /\ ls[Len(s) + 1] = ch
    BY <2>1, <2>2
  <2> QED BY <2>3 DEF ch, ConditionedAs
<1>2. CASE ~co
  <2>1. Condition(co, k) = <<>> /\ Checks(co) = 0
    BY <1>2 DEF Condition, Checks
  <2>2. ls = s
    BY <2>1, Appended
  <2>3. Len(s) = Len(s) + 0
    BY DEF IsSeq
  <2> QED BY <1>2, <2>1, <2>2, <2>3 DEF ConditionedAs
<1> QED BY <1>1, <1>2

\* The lists of Read and Assemble, statement by statement.
SharedAs(ls, co, k, a, b) ==
    /\ IsSeq(ls) /\ DOMAIN ls = 1 .. Checks(co) + 2 /\ Checks(co) \in {0, 1}
    /\ ls[Checks(co) + 1] = a /\ ls[Checks(co) + 2] = b
    /\ co => Checks(co) = 1 /\ ls[1] = Do("check", k)

\* The list of Read is one.
LEMMA SharedList ==
    ASSUME NEW co, NEW k, NEW a, NEW b
    PROVE  SharedAs(Condition(co, k) \o <<a, b>>, co, k, a, b)
<1> DEFINE c == Condition(co, k)
           n == Checks(co)
           ls == c \o <<a, b>>
<1>1. IsSeq(<<>>) /\ Len(<<>>) = 0
  BY NothingNext
<1>2. n \in {0, 1} /\ (co => n = 1)
  BY DEF Checks
<1>3. IsSeq(c) /\ Len(c) = n /\ (co => c[1] = Do("check", k))
  <2>1. CASE co
    <3> DEFINE ch == Do("check", k)
    <3>1. c = <<ch>> /\ n = 1
      BY <2>1 DEF Condition, Checks
    <3> HIDE DEF ch
    <3>2. IsSeq(<<ch>>) /\ Len(<<ch>>) = 1 /\ <<ch>>[1] = ch
      BY ShortLists
    <3> QED BY <3>1, <3>2 DEF ch
  <2>2. CASE ~co
    <3>1. c = <<>> /\ n = 0
      BY <2>2 DEF Condition, Checks
    <3> QED BY <1>1, <2>2, <3>1
  <2> QED BY <2>1, <2>2
<1> HIDE DEF c, n
<1>4. /\ IsSeq(ls) /\ Len(ls) = Len(c) + 2
      /\ \A i \in 1 .. Len(c) : ls[i] = c[i]
      /\ ls[Len(c) + 1] = a /\ ls[Len(c) + 2] = b
  BY <1>3, Appended
<1> HIDE DEF ls
<1>5. DOMAIN ls = 1 .. n + 2
  BY <1>3, <1>4 DEF IsSeq
<1>6. co => ls[1] = Do("check", k)
  BY <1>2, <1>3, <1>4
<1>7. SharedAs(ls, co, k, a, b)
  BY <1>2, <1>3, <1>4, <1>5, <1>6 DEF n, SharedAs
<1> QED BY <1>7 DEF ls, c

\* The statements of a call that assembles its body, by their places.
AssembledAs(ls, co, k, c, ch, sb, du, re) ==
    /\ IsSeq(ls) /\ DOMAIN ls = 1 .. Checks(co) + 8 /\ Checks(co) \in {0, 1}
    /\ ls[1] = Do("insert blob", c) /\ ls[2] = Do("lock blob", c) /\ ls[3] = ch /\ ls[4] = sb
    /\ ls[5] = Do("lock key", k) /\ (co => Checks(co) = 1 /\ ls[6] = Do("check", k))
    /\ ls[Checks(co) + 6] = Do("publish", [key |-> k, blob |-> {c}])
    /\ ls[Checks(co) + 7] = du /\ ls[Checks(co) + 8] = re

\* The list of Assemble is one.
LEMMA AssembledList ==
    ASSUME NEW co, NEW k, NEW c, NEW ch, NEW sb, NEW du, NEW re
    PROVE  AssembledAs(EnsureBlob(c) \o <<ch, sb>> \o PublishLocked(co, k, c) \o <<du, re>>,
                       co, k, c, ch, sb, du, re)
<1> DEFINE n == Checks(co)
           ib == Do("insert blob", c)
           lb == Do("lock blob", c)
           lk == Do("lock key", k)
           pub == Do("publish", [key |-> k, blob |-> {c}])
           e == <<ib, lb>>
           e2 == e \o <<ch, sb>>
           p == <<lk>>
           p1 == p \o Condition(co, k)
           p2 == p1 \o <<pub>>
           m == e2 \o p2
           ls == m \o <<du, re>>
<1>1. n \in {0, 1} /\ (co => n = 1)
  BY DEF Checks
<1>2. EnsureBlob(c) \o <<ch, sb>> \o PublishLocked(co, k, c) \o <<du, re>> = ls
  BY DEF EnsureBlob, PublishLocked
<1>3. Len(e) = 2 /\ e[1] = ib /\ e[2] = lb
  <2> HIDE DEF ib, lb
  <2> QED BY ShortLists
<1>4. Len(p) = 1 /\ p[1] = lk
  <2> HIDE DEF lk
  <2> QED BY ShortLists
<1>0. IsSeq(e) /\ IsSeq(p)
  <2> HIDE DEF ib, lb, lk
  <2> QED BY ShortLists
<1> HIDE DEF n, e, p, ib, lb, lk, pub
<1>5. /\ IsSeq(e2) /\ Len(e2) = Len(e) + 2
      /\ \A i \in 1 .. Len(e) : e2[i] = e[i]
      /\ e2[Len(e) + 1] = ch /\ e2[Len(e) + 2] = sb
  BY <1>0, Appended
<1>6. /\ IsSeq(p1) /\ Len(p1) = Len(p) + n
      /\ \A i \in 1 .. Len(p) : p1[i] = p[i]
      /\ co => p1[Len(p) + 1] = Do("check", k)
  <2>1. ConditionedAs(p1, p, co, k)
    BY <1>0, Conditioned
  <2> QED BY <2>1 DEF n, ConditionedAs
<1> HIDE DEF e2, p1
<1>7. Len(e2) = 4 /\ e2[1] = ib /\ e2[2] = lb /\ e2[3] = ch /\ e2[4] = sb
  BY <1>3, <1>5
<1>8. Len(p1) = 1 + n /\ p1[1] = lk /\ (co => p1[2] = Do("check", k))
  BY <1>4, <1>6
<1>9. /\ IsSeq(p2) /\ Len(p2) = Len(p1) + 1
      /\ \A i \in 1 .. Len(p1) : p2[i] = p1[i]
      /\ p2[Len(p1) + 1] = pub
  BY <1>6, Appended
<1> HIDE DEF p2
<1>10. Len(p2) = 2 + n /\ p2[1] = lk /\ (co => p2[2] = Do("check", k)) /\ p2[2 + n] = pub
  BY <1>1, <1>8, <1>9
<1>11. IsSeq(e2) /\ IsSeq(p2)
  BY <1>5, <1>9
<1>12. /\ IsSeq(m) /\ Len(m) = Len(e2) + Len(p2)
       /\ \A i \in 1 .. Len(e2) : m[i] = e2[i]
       /\ \A i \in 1 .. Len(p2) : m[Len(e2) + i] = p2[i]
  BY <1>11, Joined
<1> HIDE DEF m
<1>13. /\ Len(m) = 6 + n
       /\ m[1] = ib /\ m[2] = lb /\ m[3] = ch /\ m[4] = sb
       /\ m[5] = lk /\ (co => m[6] = Do("check", k)) /\ m[6 + n] = pub
  <2>1. m[4 + 1] = p2[1] /\ m[4 + 2] = p2[2] /\ m[4 + (2 + n)] = p2[2 + n]
    BY <1>1, <1>7, <1>10, <1>12
  <2> QED BY <2>1, <1>1, <1>7, <1>10, <1>12
<1>14. /\ IsSeq(ls) /\ Len(ls) = Len(m) + 2
       /\ \A i \in 1 .. Len(m) : ls[i] = m[i]
       /\ ls[Len(m) + 1] = du /\ ls[Len(m) + 2] = re
  BY <1>12, Appended
<1> HIDE DEF ls
<1>15. DOMAIN ls = 1 .. n + 8
  BY <1>1, <1>13, <1>14 DEF IsSeq
<1>16. /\ ls[1] = ib /\ ls[2] = lb /\ ls[3] = ch /\ ls[4] = sb
       /\ ls[5] = lk /\ (co => ls[6] = Do("check", k)) /\ ls[n + 6] = pub
  BY <1>1, <1>13, <1>14
<1>17. ls[n + 7] = du /\ ls[n + 8] = re
  BY <1>1, <1>13, <1>14
<1>18. IsSeq(ls)
  BY <1>14
<1>19. AssembledAs(ls, co, k, c, ch, sb, du, re)
  BY <1>1, <1>15, <1>16, <1>17, <1>18 DEF n, ib, lb, lk, pub, AssembledAs
<1> QED BY <1>2, <1>19

\* copy has read its source.
LEMMA ReadStep ==
    ASSUME Inv, NEW r \in Session, Read(r)
    PROVE  Inv'
<1> DEFINE k == Call[r].key
           co == Call[r].createOnly
<1>1. PICK c, a, b, ls :
        /\ a = Do("share blob", c) /\ b = Do("publish", [key |-> k, blob |-> {c}])
        /\ ls = Condition(co, k) \o <<a, b>>
        /\ Runs(r, "read", {}) /\ Goes(r, ls, tx[r].w) /\ Quiet
  BY DEF Read
<1> DEFINE n == Checks(co)
           ch == Do("check", k)
<1>2. /\ tx[r].todo[1].verb = "read" /\ WritesFormed(tx[r].w) /\ Suits(r, tx[r].todo[1])
      /\ Open(r) /\ Verb(r) = "read"
      /\ \A f \in Requires(r, tx[r].todo[1]) : Holds(r, f)
  BY <1>1, RunsFirst
<1>3. Call[r].op = "copy"
  BY <1>2, AllowedOnly DEF Suits
<1>4. /\ IsSeq(ls) /\ DOMAIN ls = 1 .. n + 2 /\ n \in {0, 1}
      /\ ls[n + 1] = a /\ ls[n + 2] = b
      /\ co => n = 1 /\ ls[1] = ch
  <2>1. SharedAs(ls, co, k, a, b)
    BY <1>1, SharedList
  <2> QED BY <2>1 DEF SharedAs
<1>5. ~co => n = 0
  BY DEF Checks
<1>6. /\ a.verb = "share blob" /\ b.verb = "publish" /\ ch.verb = "check" /\ ch.arg = k
      /\ b.arg.key = k /\ b.arg.blob = {c}
      /\ a = Do(a.verb, a.arg) /\ b = Do(b.verb, b.arg) /\ ch = Do(ch.verb, ch.arg)
  BY <1>1 DEF Do
<1>7. Suits(r, a) /\ Suits(r, b) /\ Suits(r, ch)
  BY <1>3, <1>6 DEF Suits, Allowed, Deleting
<1>8. /\ Requires(r, a) = {} /\ Requires(r, b) = {Ready0, <<"key", k>>, <<"checked", k>>}
      /\ Requires(r, ch) = {Ready0, <<"key", k>>} /\ Provides(r, ch) = {<<"checked", k>>}
  BY <1>3, <1>6 DEF Requires, Provides
<1>9. Holds(r, Ready0) /\ Holds(r, <<"key", k>>) /\ Provides(r, tx[r].todo[1]) = {}
  BY <1>2 DEF Requires, Provides
<1>10. Granted(r, {}) /\ ("read" = "insert blob" => Wanted(r) = {})
  BY <1>1, NothingMore
<1>11. Advanced(r, ls, tx[r].id, tx[r].src, tx[r].shot, tx[r].w)
  BY <1>1, <1>2, <1>4, GoesAdvances DEF Inv
<1>12. UNCHANGED tables /\ UNCHANGED <<versionSeq, bucketSeq>>
  BY <1>1 DEF Quiet, sequences
<1>13. RunFrame(r)
  BY <1>1, <1>10, <1>11, <1>12, FrameOf
<1>14. SameData(r) /\ SameSides(r)
  BY <1>2, <1>11, <1>12 DEF SameData, SameSides, Advanced, Open
<1>15. Keeps(r)
  BY <1>13, <1>14, SameKeeps
<1>16. Holds(r, Ready0)' /\ Holds(r, <<"key", k>>)'
  BY <1>9, <1>15 DEF Keeps
<1>17. ~co => Holds(r, <<"checked", k>>)'
  BY <1>3 DEF Holds, Checked, CreateOnly
<1> HIDE DEF n, ch, k, co
<1>18. \A i \in DOMAIN ls : (ls[i] = ch /\ i = 1 /\ co) \/ (ls[i] = a /\ i = n + 1) \/ (ls[i] = b /\ i = n + 2)
  <2>1. CASE co
    BY <2>1, <1>4
  <2>2. CASE ~co
    BY <2>2, <1>4, <1>5
  <2> QED BY <2>1, <2>2
<1>19. SuitedAt(r, ls) /\ Lacks(ls, Setter) /\ Lacks(ls, {"child"})
  BY <1>6, <1>7, <1>18 DEF SuitedAt, Lacks, Setter
<1>20. PreparedNext(r, ls)
  <2>1. ASSUME NEW i \in DOMAIN ls, NEW f \in Requires(r, ls[i])
        PROVE  Holds(r, f)' \/ \E j \in DOMAIN ls : j < i /\ f \in Provides(r, ls[j])
    <3>1. CASE ls[i] = a
      BY <3>1, <1>8
    <3>2. CASE ls[i] = ch
      BY <3>2, <1>8, <1>16
    <3>3. CASE ls[i] = b /\ i = n + 2 /\ f = <<"checked", k>> /\ co
      <4>1. 1 \in DOMAIN ls /\ 1 < i /\ f \in Provides(r, ls[1])
        BY <3>3, <1>4, <1>8
      <4> QED BY <4>1
    <3>4. CASE ls[i] = b /\ f # <<"checked", k>>
      BY <3>4, <1>8, <1>16
    <3>5. CASE f = <<"checked", k>> /\ ~co
      BY <3>5, <1>17
    <3> QED BY <3>1, <3>2, <3>3, <3>4, <3>5, <1>18
  <2> QED BY <2>1 DEF PreparedNext
<1>21. \E i \in DOMAIN ls : Sole(ls, Writer, i)
  <2>1. n + 2 \in DOMAIN ls
    BY <1>4
  <2>2. ASSUME NEW j \in DOMAIN ls, ls[j].verb \in Writer PROVE j = n + 2
    BY <2>2, <1>6, <1>18 DEF Writer
  <2>3. Sole(ls, Writer, n + 2)
    BY <2>2 DEF Sole
  <2> QED BY <2>1, <2>3
<1>22. WillReadAt(r, tx[r].todo)'
  BY <1>2, <1>11, StillReads
<1>23. "read" \in Writer
  BY DEF Writer
<1>24. Todos'
  BY <1>2, <1>9, <1>11, <1>13, <1>15, <1>19, <1>20, <1>21, <1>22, <1>23, GoesOn
<1>25. Data' /\ Named' /\ Uploads'
  BY <1>13, <1>14, DataSame, NamedSame, UploadsSame DEF SameSides
<1>26. Finite'
  <2>1. IsFiniteSet(tx[r].w.born) /\ IsFiniteSet(DOMAIN tx[r].w.staged)
    BY DEF Inv, Finite
  <2> QED BY <2>1, <1>11, <1>13, FiniteFrame DEF Advanced
<1> QED BY <1>13, <1>24, <1>25, <1>26 DEF Inv, RunFrame

\* complete_upload knows its bucket, its key and its body.
LEMMA AssembleStep ==
    ASSUME Inv, NEW r \in Session, Assemble(r)
    PROVE  Inv'
<1> DEFINE u == Call[r].upload
           at == upload[u]
<1>1. /\ tx[r].todo[1].verb = "assemble" /\ Arg(r) = tx[r].todo[1].arg /\ WritesFormed(tx[r].w)
      /\ Suits(r, tx[r].todo[1]) /\ Open(r) /\ Verb(r) = "assemble"
      /\ \A f \in Requires(r, tx[r].todo[1]) : Holds(r, f)
  BY RunsFirst DEF Assemble
<1>2. Arg(r) = u /\ Call[r].op = "complete_upload"
  BY <1>1, AllowedOnly DEF Suits
<1>3. PICK name, c, d, sb, du, re, ls, k, co :
        /\ k = at.key /\ co = at.createOnly
        /\ d = Do("child", name) /\ sb = Do("share blob", c)
        /\ du = Do("delete upload", u) /\ re = Do("release", u)
        /\ ls = EnsureBlob(c) \o <<d, sb>> \o PublishLocked(co, k, c) \o <<du, re>>
        /\ Runs(r, "assemble", {}) /\ Quiet
        /\ tx' = [tx EXCEPT ![r].id = at.bucket, ![r].todo = ls \o Tail(@)]
  BY <1>2 DEF Assemble
<1> DEFINE n == Checks(co)
           ib == Do("insert blob", c)
           lb == Do("lock blob", c)
           lk == Do("lock key", k)
           ch == Do("check", k)
           pub == Do("publish", [key |-> k, blob |-> {c}])
<1>4. /\ IsSeq(ls) /\ DOMAIN ls = 1 .. n + 8 /\ n \in {0, 1}
      /\ ls[1] = ib /\ ls[2] = lb /\ ls[3] = d /\ ls[4] = sb
      /\ ls[5] = lk /\ (co => n = 1 /\ ls[6] = ch)
      /\ ls[n + 6] = pub
      /\ ls[n + 7] = du /\ ls[n + 8] = re
  <2>1. AssembledAs(ls, co, k, c, d, sb, du, re)
    BY <1>3, AssembledList
  <2> QED BY <2>1 DEF AssembledAs
<1>5. ~co => n = 0
  BY DEF Checks
<1>6. /\ ib.verb = "insert blob" /\ lb.verb = "lock blob" /\ d.verb = "child" /\ sb.verb = "share blob"
      /\ lk.verb = "lock key" /\ lk.arg = k /\ ch.verb = "check" /\ ch.arg = k
      /\ pub.verb = "publish" /\ pub.arg.key = k /\ pub.arg.blob = {c}
      /\ du.verb = "delete upload" /\ re.verb = "release"
  BY <1>3 DEF Do
<1>7. /\ ib = Do(ib.verb, ib.arg) /\ lb = Do(lb.verb, lb.arg) /\ d = Do(d.verb, d.arg)
      /\ sb = Do(sb.verb, sb.arg) /\ lk = Do(lk.verb, lk.arg) /\ ch = Do(ch.verb, ch.arg)
      /\ pub = Do(pub.verb, pub.arg) /\ du = Do(du.verb, du.arg) /\ re = Do(re.verb, re.arg)
  BY <1>3 DEF Do
<1> HIDE DEF ib, lb, lk, ch, pub, n
<1>8. Allowed(Call[r].op) = {"lock upload", "assemble", "insert blob", "lock blob", "child", "share blob",
             "lock key", "check", "publish", "delete upload", "release"}
  BY <1>2 DEF Allowed
<1>9. /\ Suits(r, ib) /\ Suits(r, lb) /\ Suits(r, d) /\ Suits(r, sb) /\ Suits(r, lk)
      /\ Suits(r, ch) /\ Suits(r, du) /\ Suits(r, re)
  BY <1>6, <1>7, <1>8 DEF Suits
<1>10. Suits(r, pub)
  BY <1>2, <1>6, <1>7, <1>8 DEF Suits, Deleting
<1>11. /\ Requires(r, ib) = {} /\ Requires(r, lb) = {} /\ Requires(r, d) = {} /\ Requires(r, sb) = {}
       /\ Requires(r, lk) = {Ready0} /\ Requires(r, du) = {} /\ Requires(r, re) = {}
       /\ Requires(r, ch) = {Ready0, <<"key", k>>, Upload0}
       /\ Requires(r, pub) = {Ready0, <<"key", k>>, <<"checked", k>>}
  BY <1>2, <1>6 DEF Requires
<1>12. Provides(r, d) = {Ready0} /\ Provides(r, lk) = {<<"key", k>>} /\ Provides(r, ch) = {<<"checked", k>>}
  BY <1>6 DEF Provides
<1>13. Holds(r, Upload0) /\ Provides(r, tx[r].todo[1]) = {}
  BY <1>1 DEF Requires, Provides
<1>14. HasUpload(r)
  BY <1>13 DEF Holds, Upload0
<1>15. u \in DOMAIN upload
  BY <1>14 DEF HasUpload, Holding, UploadRow, Inv, Uploads
<1>16. at.bucket \in Ids /\ \A q \in Session \ {r} : at.bucket \notin NewIds(q)
  BY <1>15 DEF Inv, Data, BucketIds, Secret
<1>17. tx[r].id = 0
  <2>1. 1 \in DOMAIN tx[r].todo
    BY <1>1, FirstStatement
  <2> QED BY <2>1, <1>1 DEF Inv, Todos, Settling, SettlingAt, Setter
<1>18. Advanced(r, ls, at.bucket, tx[r].src, tx[r].shot, tx[r].w)
  BY <1>1, <1>3, <1>4, AssembleAdvances DEF Inv
<1>19. Keeps(r) /\ UNCHANGED upload
  BY <1>3, <1>16, <1>17, <1>18, FindsFrame
<1>20. HasUpload(r)'
  BY <1>14, <1>19, KeepsChecked
<1>21. Holds(r, Upload0)' /\ (~co => Holds(r, <<"checked", k>>)')
  BY <1>2, <1>3, <1>19, <1>20 DEF Holds, Upload0, Checked, CreateOnly
<1>22. \A i \in DOMAIN ls :
        \/ ls[i] \in {ib, lb, sb, du, re}
        \/ ls[i] = d \/ (ls[i] = lk /\ i = 5) \/ (ls[i] = ch /\ i = 6 /\ co) \/ (ls[i] = pub /\ i = n + 6)
  <2>1. CASE co
    BY <2>1, <1>4
  <2>2. CASE ~co
    BY <2>2, <1>4, <1>5
  <2> QED BY <2>1, <2>2
<1>23. SuitedAt(r, ls)
  BY <1>9, <1>10, <1>22 DEF SuitedAt
<1>24. Lacks(ls, Setter)
  BY <1>6, <1>22 DEF Lacks, Setter
<1>25. PreparedNext(r, ls)
  <2>1. ASSUME NEW i \in DOMAIN ls, NEW f \in Requires(r, ls[i])
        PROVE  Holds(r, f)' \/ \E j \in DOMAIN ls : j < i /\ f \in Provides(r, ls[j])
    <3>1. CASE ls[i] \in {ib, lb, sb, du, re} \/ ls[i] = d
      BY <3>1, <1>11
    <3>2. 3 \in DOMAIN ls /\ 5 \in DOMAIN ls /\ ls[3] = d /\ ls[5] = lk /\ (co => 6 \in DOMAIN ls /\ ls[6] = ch)
      BY <1>4
    <3>3. CASE ls[i] = lk /\ i = 5
      BY <3>2, <3>3, <1>11, <1>12
    <3>4. CASE ls[i] = ch /\ i = 6
      BY <3>2, <3>4, <1>11, <1>12, <1>21
    <3>5. CASE ls[i] = pub /\ i = n + 6 /\ f # <<"checked", k>>
      <4>1. 3 < i /\ 5 < i
        BY <3>5, <1>4
      <4> QED BY <4>1, <3>2, <3>5, <1>11, <1>12
    <3>6. CASE ls[i] = pub /\ i = n + 6 /\ f = <<"checked", k>> /\ co
      <4>1. 6 < i
        BY <3>6, <1>4
      <4> QED BY <4>1, <3>2, <3>6, <1>12
    <3>7. CASE f = <<"checked", k>> /\ ~co
      BY <3>7, <1>21
    <3> QED BY <3>1, <3>3, <3>4, <3>5, <3>6, <3>7, <1>22
  <2> QED BY <2>1 DEF PreparedNext
<1>26. \E i \in DOMAIN ls : Sole(ls, Writer, i)
  <2>1. n + 6 \in DOMAIN ls
    BY <1>4
  <2>2. ASSUME NEW j \in DOMAIN ls, ls[j].verb \in Writer PROVE j = n + 6
    BY <2>2, <1>6, <1>22 DEF Writer
  <2>3. Sole(ls, Writer, n + 6)
    BY <2>2 DEF Sole
  <2> QED BY <2>1, <2>3
<1>27. "assemble" \in Writer /\ "assemble" \in Setter
  BY DEF Writer, Setter
<1> QED BY <1>3, <1>13, <1>16, <1>17, <1>18, <1>23, <1>24, <1>25, <1>26, <1>27, FindsStep

-----------------------------------------------------------------------------
(* A new bucket.                                                           *)

\* What insert bucket does to its transaction.
LEMMA CreateAdvances ==
    ASSUME Formed, NEW r \in Session, Open(r), NEW i, NEW f, NEW w,
           w = [tx[r].w EXCEPT !.named = f],
           tx' = [tx EXCEPT ![r].todo = Tail(@), ![r].id = i, ![r].w.named = f]
    PROVE  Advanced(r, <<>>, i, tx[r].src, tx[r].shot, w) /\ WritesFormed(w)
<1>1. tx[r] = [state |-> tx[r].state, todo |-> tx[r].todo, id |-> tx[r].id, src |-> tx[r].src,
               shot |-> tx[r].shot, w |-> tx[r].w]
      /\ tx[r].state = "open" /\ WritesFormed(tx[r].w) /\ IsSeq(tx[r].todo) /\ tx[r].todo # <<>>
  BY DEF Formed, TxFormed, Open
<1>2. tx = [q \in Session |-> tx[q]]
  BY DEF Formed
<1>3. WritesFormed(w)
  BY <1>1 DEF WritesFormed
<1>4. tx'[r] = [state |-> "open", todo |-> Tail(tx[r].todo),
                id |-> i, src |-> tx[r].src, shot |-> tx[r].shot, w |-> w]
  BY <1>1, <1>2
<1>5. tx' = [q \in Session |-> tx'[q]] /\ \A q \in Session \ {r} : tx'[q] = tx[q]
  BY <1>2
<1>6. Tail(tx[r].todo) = <<>> \o Tail(tx[r].todo) /\ IsSeq(<<>>)
  BY <1>1, ContinuesNothing
<1> QED BY <1>3, <1>4, <1>5, <1>6, AdvancedIf

\* create_bucket and fork_bucket.
LEMMA InsertBucketStep ==
    ASSUME Inv, NEW r \in Session, InsertBucket(r)
    PROVE  Inv'
<1>1. PICK n, i, f, w :
        /\ n = Arg(r) /\ i = bucketSeq /\ f = [x \in {n} |-> i] /\ w = [tx[r].w EXCEPT !.named = f]
        /\ n \notin DOMAIN bucket /\ Runs(r, "insert bucket", {})
        /\ tx' = [tx EXCEPT ![r].todo = Tail(@), ![r].id = i, ![r].w.named = f]
        /\ bucketSeq' = bucketSeq + 1 /\ UNCHANGED <<tables, versionSeq>>
  BY DEF InsertBucket
<1>2. /\ Open(r) /\ Verb(r) = "insert bucket" /\ tx[r].todo[1].verb = "insert bucket"
      /\ n = tx[r].todo[1].arg /\ Suits(r, tx[r].todo[1]) /\ WritesFormed(tx[r].w)
      /\ \A g \in Requires(r, tx[r].todo[1]) : Holds(r, g)
  BY <1>1, RunsFirst
<1>3. Advanced(r, <<>>, i, tx[r].src, tx[r].shot, w) /\ WritesFormed(w)
  BY <1>1, <1>2, CreateAdvances DEF Inv
<1>4. Granted(r, {}) /\ ("insert bucket" = "insert blob" => Wanted(r) = {})
  BY <1>1, NothingMore
<1>5. RunFrame(r)
  BY <1>1, <1>3, <1>4, FrameOf
<1>6. tx[r].id = 0
  <2>1. 1 \in DOMAIN tx[r].todo
    BY <1>2, FirstStatement
  <2> QED BY <2>1, <1>2 DEF Inv, Todos, Settling, SettlingAt, Setter
<1>7. /\ w.rows = tx[r].w.rows /\ w.gone = tx[r].w.gone /\ w.cleared = tx[r].w.cleared
      /\ w.made = tx[r].w.made /\ w.born = tx[r].w.born /\ w.staged = tx[r].w.staged
      /\ w.dropped = tx[r].w.dropped /\ w.unnamed = tx[r].w.unnamed /\ w.named = f
  BY <1>1, <1>2 DEF WritesFormed
<1>8. /\ UNCHANGED <<bucket, object, latest, upload, blob, versionSeq>>
      /\ \A q \in Session \ {r} : tx'[q] = tx[q]
      /\ tx'[r].id = i /\ tx'[r].src = tx[r].src /\ tx'[r].shot = tx[r].shot /\ tx'[r].w = w
      /\ tx'[r].state = tx[r].state
  BY <1>1, <1>2, <1>3 DEF Advanced, tables, Open
<1>9. /\ NewIds(r) = {} /\ DOMAIN tx[r].w.rows = {} /\ DOMAIN tx[r].w.named = {}
      /\ (tx[r].w.gone \cup tx[r].w.cleared \cup tx[r].w.made) \cap DOMAIN object = {}
      /\ tx[r].w.unnamed = {} /\ ~IsNew(r)
  BY <1>6, NoIdYet
<1>10. DOMAIN f = {n} /\ f[n] = i /\ Range(f) = {i}
  BY <1>1 DEF Range
<1>11. NewIds(r)' = {i} /\ \A q \in Session \ {r} : NewIds(q)' = NewIds(q)
  BY <1>7, <1>8, <1>10 DEF NewIds
<1>12. i \in Nat /\ i # 0 /\ i \notin Ids /\ i \in Ids' /\ Ids \subseteq Ids' /\ bucketSeq' \in Nat \ {0}
  <2>1. i \in Nat /\ i # 0 /\ bucketSeq' = i + 1
    BY <1>1 DEF Inv, Data, BucketIds
  <2>2. Ids = 1 .. i - 1 /\ Ids' = 1 .. (i + 1) - 1
    BY <2>1, <1>1 DEF Ids
  <2> QED BY <2>1, <2>2
<1>13. \A q \in Session : Keeps(q)
  <2>1. UNCHANGED tables /\ \A h \in held : h[1] = r => h \in held'
    BY <1>1, <1>5 DEF RunFrame
  <2>2. Keeps(r)
    BY <2>1, <1>6, <1>8, KeepsFinding DEF Inv, Data
  <2> QED BY <1>5, <2>2, FrameKeeps
<1>14. \A q \in Session :
        /\ tx'[q].src = tx[q].src /\ tx'[q].shot = tx[q].shot /\ tx'[q].state = tx[q].state
        /\ tx'[q].w.rows = tx[q].w.rows /\ tx'[q].w.gone = tx[q].w.gone
        /\ tx'[q].w.cleared = tx[q].w.cleared /\ tx'[q].w.made = tx[q].w.made
        /\ tx'[q].w.unnamed = tx[q].w.unnamed
        /\ q # r => tx'[q].id = tx[q].id /\ tx'[q].w.named = tx[q].w.named
  BY <1>7, <1>8
<1>15. \A q \in Session : Rows(q)' = Rows(q) /\ Flags(q)' = Flags(q)
  BY <1>8, <1>14 DEF Rows, Flags
<1>16. \A q \in Session \ {r} : \A b, k : Mine(q, b, k) => Mine(q, b, k)'
  BY <1>13, <1>14, KeepsMine
<1>17. \A q \in Session : (\A k : Checked(q, k) => Checked(q, k)') /\ (HasSource(q) => HasSource(q)')
                          /\ (Emptied(q) => Emptied(q)')
  BY <1>13, KeepsChecked
<1>18. \A q \in Session \ {r} : IsNew(q)' <=> IsNew(q)
  BY <1>11, <1>14 DEF IsNew
<1>19. IsNew(r)'
  BY <1>8, <1>11 DEF IsNew
<1>20. BucketIds'
  <2>1. ASSUME NEW q \in Session
        PROVE  /\ tx'[q].id \in Ids' \cup {0} /\ tx'[q].src \in Ids' \cup {0}
               /\ NewIds(q)' \subseteq Ids' \cap {tx'[q].id}
    <3>1. CASE q = r
      BY <3>1, <1>8, <1>11, <1>12 DEF Inv, Data, BucketIds
    <3>2. CASE q # r
      BY <3>2, <1>8, <1>11, <1>12 DEF Inv, Data, BucketIds
    <3> QED BY <3>1, <3>2
  <2> QED BY <2>1, <1>8, <1>12 DEF Inv, Data, BucketIds
<1>21. Secret'
  <2>1. Secret /\ BucketIds
    BY DEF Inv, Data
  <2>2. ASSUME NEW q \in Session, NEW b \in NewIds(q)', q # r
        PROVE  /\ \A m \in DOMAIN bucket : bucket[m] # b
               /\ \A v \in DOMAIN object : object[v].bucket # b
               /\ \A u \in DOMAIN upload : upload[u].bucket # b
               /\ \A p \in Session \ {q} : tx'[p].id # b
    <3>1. b \in NewIds(q) /\ b \in Ids
      BY <2>1, <2>2, <1>11 DEF BucketIds
    <3> QED BY <3>1, <2>1, <1>8, <1>12, <1>14 DEF Secret
  <2>3. /\ \A m \in DOMAIN bucket : bucket[m] # i
        /\ \A v \in DOMAIN object : object[v].bucket # i
        /\ \A u \in DOMAIN upload : upload[u].bucket # i
        /\ \A p \in Session \ {r} : tx'[p].id # i
    BY <2>1, <1>12, <1>14 DEF BucketIds
  <2> QED BY <2>2, <2>3, <1>8, <1>11 DEF Secret
<1>22. VersionIds'
  BY <1>8, <1>14 DEF Inv, Data, VersionIds, Changed
<1>23. OwnKeys'
  <2>1. OwnKeys
    BY DEF Inv, Data
  <2>2. ASSUME NEW q \in Session \ {r}
        PROVE  /\ \A v \in DOMAIN tx[q].w.rows : Mine(q, tx[q].w.rows[v].bucket, tx[q].w.rows[v].key)'
               /\ \A v \in (tx[q].w.gone \cup tx[q].w.cleared \cup tx[q].w.made) \cap DOMAIN object :
                    Mine(q, object[v].bucket, object[v].key)'
    BY <2>1, <1>8, <1>16 DEF OwnKeys, OwnKeysAt
  <2> QED BY <2>2, <1>8, <1>9, <1>14 DEF OwnKeys, OwnKeysAt
<1>24. Views'
  <2>1. Views
    BY DEF Inv, Data
  <2>2. NewestIn(object, latest)'
    BY <2>1, <1>8 DEF Views, NewestIn, Versions
  <2>3. ASSUME NEW q \in Session PROVE NewestIn(Rows(q), Flags(q))'
    <3>1. NewestIn(Rows(q), Flags(q)) /\ Rows(q)' = Rows(q) /\ Flags(q)' = Flags(q)
      BY <2>1, <1>15 DEF Views
    <3> QED BY <3>1 DEF NewestIn, Versions
  <2> QED BY <2>2, <2>3 DEF Views
<1>25. Fresh'
  BY <1>8, <1>14, <1>17 DEF Inv, Data, Fresh, FreshAt, Versions
<1>26. ByCall'
  BY <1>9, <1>14, <1>18 DEF Inv, Data, ByCall, ByCallAt
<1>27. Forks'
  <2>1. \A q \in Session : Copy(tx[q].w)' = Copy(tx[q].w)
    BY <1>14 DEF Copy
  <2>2. Forks
    BY DEF Inv, Data
  <2> QED BY <2>1, <2>2, <1>14, <1>17 DEF Forks, ForksAt
<1>28. Named'
  <2>1. \A q, a, b : Holding(q, a, b) => Holding(q, a, b)'
    BY <1>5 DEF Holding, RunFrame
  <2>2. Named
    BY DEF Inv
  <2>3. Holds(r, <<"exclusive", n>>)
    BY <1>2 DEF Requires
  <2>4. Holding(r, Lifecycle(n), "exclusive")'
    BY <2>1, <2>3 DEF Holds
  <2>5. n = Call[r].bucket /\ Call[r].op \in Creating
    BY <1>2, AllowedOnly DEF Suits
  <2>6. ASSUME NEW q \in Session, NEW x \in DOMAIN tx'[q].w.named
        PROVE  /\ Call[q].op \in Creating /\ x = Call[q].bucket /\ x \notin DOMAIN bucket
               /\ tx'[q].w.named[x] = tx'[q].id
               /\ Holding(q, Lifecycle(x), "exclusive")'
    <3>1. CASE q = r
      <4>1. x = n
        BY <3>1, <1>7, <1>8, <1>10
      <4> QED BY <3>1, <4>1, <2>4, <2>5, <1>1, <1>7, <1>8, <1>10, ZenonT(40)
    <3>2. CASE q # r
      <4>1. x \in DOMAIN tx[q].w.named /\ tx'[q].w.named = tx[q].w.named /\ tx'[q].id = tx[q].id
        BY <3>2, <1>14
      <4>2. /\ Call[q].op \in Creating /\ x = Call[q].bucket /\ x \notin DOMAIN bucket
            /\ tx[q].w.named[x] = tx[q].id
            /\ Holding(q, Lifecycle(x), "exclusive")
        BY <4>1, <2>2 DEF Named
      <4> QED BY <4>1, <4>2, <2>1
    <3> QED BY <3>1, <3>2
  <2>7. f = [x \in DOMAIN f |-> f[x]]
    BY <1>1
  <2>8. \A q \in Session : tx'[q].w.named = [x \in DOMAIN tx'[q].w.named |-> tx'[q].w.named[x]]
    BY <2>2, <2>7, <1>7, <1>8, <1>14 DEF Named
  <2>9. \A q \in Session : \A x \in tx'[q].w.unnamed :
            Call[q].op = "delete_bucket" /\ x = Call[q].bucket /\ Emptied(q)'
    BY <2>2, <1>14, <1>17 DEF Named
  <2> QED BY <2>6, <2>8, <2>9, <1>8 DEF Named
<1>29. Uploads'
  <2>1. \A q, a, b : Holding(q, a, b) => Holding(q, a, b)'
    BY <1>5 DEF Holding, RunFrame
  <2>2. UploadsAt(r)
    BY DEF Inv, Uploads, UploadsAt
  <2>3. UploadsAt(r)'
    BY <2>1, <2>2, <1>7, <1>8, <1>11, <1>12, ZenonT(40) DEF UploadsAt
  <2> QED BY <2>3, <1>5, <1>11, <1>12, UploadsFrame
<1>30. Finite'
  <2>1. IsFiniteSet(tx[r].w.born) /\ IsFiniteSet(DOMAIN tx[r].w.staged)
    BY DEF Inv, Finite
  <2> QED BY <2>1, <1>5, <1>7, <1>8, FiniteFrame
<1>31. Todos'
  <2>1. Holds(r, Ready0)'
    BY <1>19 DEF Holds, Ready0, Ready
  <2>2. Provides(r, tx[r].todo[1]) = {Ready0}
    BY <1>2 DEF Provides
  <2>3. WillReadAt(r, tx[r].todo)'
    BY <1>2, <1>3, StillReads
  <2>4. Lacks(<<>>, Setter) /\ Lacks(<<>>, Writer) /\ Lacks(<<>>, {"child"})
        /\ SuitedAt(r, <<>>) /\ PreparedNext(r, <<>>)
    BY NothingNext
  <2>5. Clean(tx[r].w) => Clean(w)
    BY <1>7 DEF Clean
  <2>6. Verb(r) \in Setter
    BY <1>2 DEF Setter
  <2> QED BY <2>1, <2>2, <2>3, <2>4, <2>5, <2>6, <1>2, <1>3, <1>5, <1>13, GoesOn
<1>32. Formed' /\ LockSafe'
  BY <1>5 DEF RunFrame
<1> QED BY <1>20, <1>21, <1>22, <1>23, <1>24, <1>25, <1>26, <1>27, <1>28, <1>29, <1>30, <1>31, <1>32
    DEF Inv, Data

-----------------------------------------------------------------------------
(* Statements that write object rows.                                      *)

\* The transaction stays where it is, and what it writes has ids of its own, of rows
\* that are committed, or from the sequence.
WriterFrame(r) ==
    /\ RunFrame(r) /\ SameSides(r)
    /\ tx'[r].id = tx[r].id /\ tx'[r].src = tx[r].src
    /\ tx'[r].w.named = tx[r].w.named /\ tx'[r].w.born = tx[r].w.born
    /\ bucketSeq' = bucketSeq /\ versionSeq' \in Nat /\ versionSeq <= versionSeq'
    /\ tx'[r].w.rows = [v \in DOMAIN tx'[r].w.rows |-> tx'[r].w.rows[v]]
    /\ DOMAIN tx'[r].w.rows \subseteq DOMAIN tx[r].w.rows \cup (versionSeq .. versionSeq' - 1)
    /\ Changed(tx'[r].w) \subseteq
            Changed(tx[r].w) \cup DOMAIN object \cup (versionSeq .. versionSeq' - 1)

\* What such a statement leaves as it was.
LEMMA WriterSame ==
    ASSUME Inv, NEW r \in Session, WriterFrame(r)
    PROVE  /\ UNCHANGED <<bucket, object, latest, upload, bucketSeq>>
           /\ Ids' = Ids
           /\ \A q \in Session \ {r} : tx'[q] = tx[q]
           /\ \A q \in Session :
                /\ Keeps(q)
                /\ tx'[q].id = tx[q].id /\ tx'[q].src = tx[q].src
                /\ tx'[q].w.named = tx[q].w.named /\ tx'[q].w.unnamed = tx[q].w.unnamed
                /\ NewIds(q)' = NewIds(q) /\ (IsNew(q)' <=> IsNew(q))
                /\ \A b, k : Mine(q, b, k) => Mine(q, b, k)'
                /\ \A k : Checked(q, k) => Checked(q, k)'
                /\ (HasSource(q) => HasSource(q)') /\ (Emptied(q) => Emptied(q)')
<1>1. /\ UNCHANGED tables /\ bucketSeq' = bucketSeq /\ \A q \in Session \ {r} : tx'[q] = tx[q]
      /\ tx'[r].id = tx[r].id /\ tx'[r].src = tx[r].src /\ tx'[r].w.named = tx[r].w.named
      /\ tx'[r].w.unnamed = tx[r].w.unnamed /\ RunFrame(r) /\ held \subseteq held'
  BY DEF WriterFrame, RunFrame, SameSides
<1>2. UNCHANGED <<bucket, object, latest, upload, bucketSeq>>
  BY <1>1 DEF tables
<1>3. Ids' = Ids
  BY <1>2 DEF Ids
<1>4. ASSUME NEW q \in Session
      PROVE  /\ tx'[q].id = tx[q].id /\ tx'[q].src = tx[q].src
             /\ tx'[q].w.named = tx[q].w.named /\ tx'[q].w.unnamed = tx[q].w.unnamed
  BY <1>1
<1>5. ASSUME NEW q \in Session PROVE Keeps(q)
  <2>1. CASE q = r
    BY <2>1, <1>1, KeepsSame
  <2>2. CASE q # r
    BY <2>2, <1>1, FrameKeeps
  <2> QED BY <2>1, <2>2
<1>6. \A q \in Session : NewIds(q)' = NewIds(q)
  BY <1>4 DEF NewIds
<1>7. \A q \in Session : IsNew(q)' <=> IsNew(q)
  BY <1>4, <1>6 DEF IsNew
<1>8. \A q \in Session : \A b, k : Mine(q, b, k) => Mine(q, b, k)'
  BY <1>4, <1>5, KeepsMine
<1>9. \A q \in Session : /\ \A k : Checked(q, k) => Checked(q, k)'
                         /\ (HasSource(q) => HasSource(q)') /\ (Emptied(q) => Emptied(q)')
  BY <1>5, KeepsChecked
<1> QED BY <1>1, <1>2, <1>3, <1>4, <1>5, <1>6, <1>7, <1>8, <1>9

\* Its ids are nobody else's.
LEMMA WriterIds ==
    ASSUME Inv, NEW r \in Session, WriterFrame(r)
    PROVE  VersionIds'
<1>1. /\ UNCHANGED <<object, latest>> /\ \A q \in Session \ {r} : tx'[q] = tx[q]
  BY WriterSame
<1>2. VersionIds
  BY DEF Inv, Data
<1>3. PICK n, m : n = versionSeq /\ m = versionSeq'
  OBVIOUS
<1>4. n \in Nat \ {0} /\ m \in Nat /\ n <= m
  BY <1>2, <1>3 DEF WriterFrame, VersionIds
<1> DEFINE new == n .. m - 1
           old == 1 .. n - 1
           all == 1 .. m - 1
<1>5. m \in Nat \ {0} /\ old \subseteq all /\ new \subseteq all /\ new \cap old = {}
  BY <1>4
<1>6. /\ tx'[r].w.rows = [v \in DOMAIN tx'[r].w.rows |-> tx'[r].w.rows[v]]
      /\ DOMAIN tx'[r].w.rows \subseteq DOMAIN tx[r].w.rows \cup new
      /\ Changed(tx'[r].w) \subseteq Changed(tx[r].w) \cup DOMAIN object \cup new
  BY <1>3 DEF WriterFrame
<1>7. /\ DOMAIN object \subseteq old /\ DOMAIN object \subseteq all
      /\ latest \subseteq DOMAIN object /\ object = [v \in DOMAIN object |-> object[v]]
  BY <1>2, <1>3, <1>5 DEF VersionIds
<1>8. \A q \in Session :
        /\ tx[q].w.rows = [v \in DOMAIN tx[q].w.rows |-> tx[q].w.rows[v]]
        /\ Changed(tx[q].w) \subseteq old
        /\ DOMAIN tx[q].w.rows \cap DOMAIN object = {}
        /\ \A p \in Session \ {q} : Changed(tx[q].w) \cap DOMAIN tx[p].w.rows = {}
  BY <1>2, <1>3 DEF VersionIds
<1>9. \A q \in Session : DOMAIN tx[q].w.rows \subseteq Changed(tx[q].w)
  BY DEF Changed
<1> HIDE DEF new, old, all
<1>10. ASSUME NEW q \in Session
       PROVE  /\ tx'[q].w.rows = [v \in DOMAIN tx'[q].w.rows |-> tx'[q].w.rows[v]]
              /\ Changed(tx'[q].w) \subseteq all
              /\ DOMAIN tx'[q].w.rows \cap DOMAIN object = {}
  <2>1. CASE q = r
    <3>1. Changed(tx'[r].w) \subseteq all
      BY <1>5, <1>6, <1>7, <1>8
    <3>2. DOMAIN tx'[r].w.rows \cap DOMAIN object = {}
      BY <1>5, <1>6, <1>7, <1>8
    <3> QED BY <2>1, <3>1, <3>2, <1>6
  <2>2. CASE q # r
    BY <2>2, <1>1, <1>5, <1>8
  <2> QED BY <2>1, <2>2
<1>11. ASSUME NEW q \in Session, NEW p \in Session, p # q
       PROVE  Changed(tx'[q].w) \cap DOMAIN tx'[p].w.rows = {}
  <2>1. CASE q = r
    <3>1. tx'[p] = tx[p] /\ DOMAIN tx[p].w.rows \subseteq old
      BY <2>1, <1>1, <1>8, <1>9, <1>11
    <3> QED BY <2>1, <3>1, <1>5, <1>6, <1>8, <1>11
  <2>2. CASE p = r
    <3>1. tx'[q] = tx[q] /\ Changed(tx[q].w) \subseteq old
      BY <2>2, <1>1, <1>8, <1>11
    <3>2. Changed(tx[q].w) \cap DOMAIN tx[r].w.rows = {}
      BY <2>2, <1>8, <1>11
    <3> QED BY <2>2, <3>1, <3>2, <1>5, <1>6
  <2>3. CASE q # r /\ p # r
    BY <2>3, <1>1, <1>8, <1>11
  <2> QED BY <2>1, <2>2, <2>3
<1>12. \A q \in Session : Changed(tx[q].w)' = Changed(tx'[q].w)
  BY DEF Changed
<1>13. DOMAIN object \subseteq 1 .. m - 1 /\ \A q \in Session : Changed(tx'[q].w) \subseteq 1 .. m - 1
  BY <1>7, <1>10 DEF all
<1> QED BY <1>1, <1>3, <1>5, <1>7, <1>10, <1>11, <1>12, <1>13 DEF VersionIds

\* What is left to show about it is what its own transaction sees and writes.
LEMMA WriterStep ==
    ASSUME Inv, NEW r \in Session, WriterFrame(r),
           OwnKeysAt(r)', NewestIn(Rows(r), Flags(r))', FreshAt(r)', ByCallAt(r)', ForksAt(r)',
           Todos'
    PROVE  Inv'
<1>1. /\ UNCHANGED <<bucket, object, latest, upload, bucketSeq>>
      /\ Ids' = Ids
      /\ \A q \in Session \ {r} : tx'[q] = tx[q]
      /\ \A q \in Session :
           /\ Keeps(q)
           /\ tx'[q].id = tx[q].id /\ tx'[q].src = tx[q].src
           /\ tx'[q].w.named = tx[q].w.named /\ tx'[q].w.unnamed = tx[q].w.unnamed
           /\ NewIds(q)' = NewIds(q) /\ (IsNew(q)' <=> IsNew(q))
  BY WriterSame
<1>2. \A q \in Session :
           /\ \A b, k : Mine(q, b, k) => Mine(q, b, k)'
           /\ \A k : Checked(q, k) => Checked(q, k)'
           /\ (HasSource(q) => HasSource(q)') /\ (Emptied(q) => Emptied(q)')
  BY WriterSame
<1>3. BucketIds'
  BY <1>1 DEF Inv, Data, BucketIds
<1>4. Secret'
  BY <1>1 DEF Inv, Data, Secret
<1>5. VersionIds'
  BY WriterIds
<1>6. OwnKeys'
  <2>1. ASSUME NEW q \in Session, q # r PROVE OwnKeysAt(q)'
    <3>1. OwnKeysAt(q) /\ tx'[q] = tx[q]
      BY <2>1, <1>1 DEF Inv, Data, OwnKeys, OwnKeysAt
    <3> QED BY <3>1, <1>1, <1>2 DEF OwnKeysAt
  <2> QED BY <2>1 DEF OwnKeys, OwnKeysAt
<1>7. Views'
  <2>1. Views
    BY DEF Inv, Data
  <2>2. NewestIn(object, latest)'
    BY <2>1, <1>1 DEF Views, NewestIn, Versions
  <2>3. ASSUME NEW q \in Session, q # r PROVE NewestIn(Rows(q), Flags(q))'
    <3>1. tx'[q] = tx[q] /\ UNCHANGED <<object, latest>>
      BY <2>3, <1>1
    <3>2. Rows(q)' = Rows(q) /\ Flags(q)' = Flags(q)
      BY <3>1 DEF Rows, Flags
    <3>3. NewestIn(Rows(q), Flags(q))
      BY <2>1 DEF Views
    <3> QED BY <3>2, <3>3 DEF NewestIn, Versions
  <2> QED BY <2>2, <2>3 DEF Views
<1>8. Fresh'
  <2>1. ASSUME NEW q \in Session, q # r PROVE FreshAt(q)'
    <3>1. FreshAt(q) /\ tx'[q] = tx[q]
      BY <2>1, <1>1 DEF Inv, Data, Fresh, FreshAt
    <3> QED BY <3>1, <1>1, <1>2 DEF FreshAt, Versions
  <2> QED BY <2>1 DEF Fresh, FreshAt
<1>9. ByCall'
  <2>1. ASSUME NEW q \in Session, q # r PROVE ByCallAt(q)'
    <3>1. ByCallAt(q) /\ tx'[q] = tx[q]
      BY <2>1, <1>1 DEF Inv, Data, ByCall, ByCallAt
    <3> QED BY <3>1, <1>1 DEF ByCallAt
  <2> QED BY <2>1 DEF ByCall, ByCallAt
<1>10. Forks'
  <2>1. ASSUME NEW q \in Session, q # r PROVE ForksAt(q)'
    <3>1. ForksAt(q) /\ tx'[q] = tx[q]
      BY <2>1, <1>1 DEF Inv, Data, Forks, ForksAt
    <3>2. Copy(tx[q].w)' = Copy(tx[q].w)
      BY <3>1 DEF Copy
    <3> QED BY <3>1, <3>2, <1>1, <1>2 DEF ForksAt
  <2> QED BY <2>1 DEF Forks, ForksAt
<1>11. \A q, a, b : Holding(q, a, b) => Holding(q, a, b)'
  BY DEF Holding, RunFrame, WriterFrame
<1>12. Named'
  BY <1>1, <1>2, <1>11 DEF Inv, Named
<1>13. RunFrame(r) /\ SameSides(r) /\ tx'[r].w.born = tx[r].w.born
  BY DEF WriterFrame
<1>14. Uploads'
  <2>1. UploadsAt(r)
    BY DEF Inv, Uploads, UploadsAt
  <2>2. UploadsAt(r)'
    BY <2>1, <1>1, <1>11, <1>13 DEF UploadsAt, SameSides
  <2> QED BY <2>2, <1>1, <1>13, UploadsFrame
<1>15. Finite'
  <2>1. IsFiniteSet(tx[r].w.born) /\ IsFiniteSet(DOMAIN tx[r].w.staged)
    BY DEF Inv, Finite
  <2> QED BY <2>1, <1>13, FiniteFrame DEF SameSides
<1>16. Formed' /\ LockSafe'
  BY <1>13 DEF RunFrame
<1> QED BY <1>3, <1>4, <1>5, <1>6, <1>7, <1>8, <1>9, <1>10, <1>12, <1>14, <1>15, <1>16 DEF Inv, Data

\* What a merge is made of.
MergedAs(m, f, g) ==
    /\ DOMAIN m = DOMAIN f \cup DOMAIN g
    /\ m = [x \in DOMAIN m |-> m[x]]
    /\ \A x \in DOMAIN g : m[x] = g[x]
    /\ \A x \in DOMAIN f \ DOMAIN g : m[x] = f[x]

\* A merge is that.
LEMMA MergeIs ==
    ASSUME NEW f, NEW g
    PROVE  MergedAs(Merge(f, g), f, g)
BY DEF Merge, MergedAs

\* What a transaction sees: its own rows, and committed ones that it has not deleted.
LEMMA RowsAre ==
    ASSUME Inv, NEW r \in Session
    PROVE  /\ DOMAIN Rows(r) = (DOMAIN object \ tx[r].w.gone) \cup DOMAIN tx[r].w.rows
           /\ \A v \in DOMAIN tx[r].w.rows : Rows(r)[v] = tx[r].w.rows[v]
           /\ \A v \in DOMAIN object \ tx[r].w.gone : Rows(r)[v] = object[v]
           /\ Rows(r) = [v \in DOMAIN Rows(r) |-> Rows(r)[v]]
<1> DEFINE f == Restrict(object, DOMAIN object \ tx[r].w.gone)
<1>1. DOMAIN f = DOMAIN object \ tx[r].w.gone /\ \A v \in DOMAIN f : f[v] = object[v]
  BY DEF Restrict
<1>2. DOMAIN tx[r].w.rows \cap DOMAIN object = {}
  BY DEF Inv, Data, VersionIds
<1>3. Rows(r) = Merge(f, tx[r].w.rows)
  BY DEF Rows
<1> HIDE DEF f
<1>4. PICK g, m : g = tx[r].w.rows /\ m = Merge(f, g)
  OBVIOUS
<1>5. MergedAs(m, f, g)
  BY <1>4, MergeIs
<1>6. Rows(r) = m
  BY <1>3, <1>4
<1> QED BY <1>1, <1>2, <1>4, <1>5, <1>6 DEF MergedAs

\* A new row with the greatest id takes the flag from the others of its key.
LEMMA NewestPublished ==
    ASSUME NEW o, NEW l, NewestIn(o, l), NEW n \in Nat,
           \A v \in DOMAIN o : v \in Nat /\ v < n,
           NEW b, NEW k, NEW p, NEW m,
           DOMAIN p = DOMAIN o \cup {n}, \A v \in DOMAIN o : p[v] = o[v],
           p[n].bucket = b, p[n].key = k,
           m = (l \ Versions(o, b, k)) \cup {n}
    PROVE  NewestIn(p, m)
<1>1. l \subseteq DOMAIN o /\ n \notin DOMAIN o
  BY DEF NewestIn
<1>2. m \subseteq DOMAIN p
  BY <1>1
<1>3. ASSUME NEW v \in DOMAIN p
      PROVE  v \in m <=> \A w \in Versions(p, p[v].bucket, p[v].key) : w <= v
  <2>1. CASE v = n
    <3>1. \A w \in DOMAIN p : w <= n
      OBVIOUS
    <3> QED BY <2>1, <3>1 DEF Versions
  <2>2. CASE v \in Versions(o, b, k)
    <3>1. v \in DOMAIN o /\ v # n /\ v < n /\ v \in Nat /\ p[v].bucket = b /\ p[v].key = k /\ v \notin m
      BY <2>2, <1>1 DEF Versions
    <3>2. n \in Versions(p, p[v].bucket, p[v].key) /\ ~(n <= v)
      BY <3>1 DEF Versions
    <3> QED BY <3>1, <3>2
  <2>3. CASE v # n /\ v \notin Versions(o, b, k)
    <3>1. v \in DOMAIN o /\ p[v] = o[v] /\ ~(o[v].bucket = b /\ o[v].key = k)
      BY <2>3 DEF Versions
    <3>2. Versions(p, o[v].bucket, o[v].key) = Versions(o, o[v].bucket, o[v].key)
      BY <3>1, <1>1 DEF Versions
    <3>3. v \in l <=> \A w \in Versions(o, o[v].bucket, o[v].key) : w <= v
      BY <3>1 DEF NewestIn
    <3> QED BY <2>3, <3>1, <3>2, <3>3
  <2> QED BY <2>1, <2>2, <2>3
<1> QED BY <1>2, <1>3 DEF NewestIn

\* A new version.
LEMMA PublishStep ==
    ASSUME Inv, NEW r \in Session, Publish(r)
    PROVE  Inv'
<1> DEFINE N == versionSeq
           K == Arg(r).key
           Row == [bucket |-> tx[r].id, key |-> K, blob |-> Arg(r).blob]
           M == Versions(Rows(r), tx[r].id, K)
<1>0. PICK w, g, d :
        /\ g = [v \in {N} |-> Row]
        /\ d = [c \in Body |-> tx[r].w.delta[c] + (IF c \in Arg(r).blob THEN 1 ELSE 0)]
        /\ w = [tx[r].w EXCEPT
                    !.rows = Merge(tx[r].w.rows, g),
                    !.made = (tx[r].w.made \ M) \cup {N},
                    !.cleared = tx[r].w.cleared \cup M,
                    !.delta = d]
        /\ Runs(r, "publish", {}) /\ Goes(r, <<>>, w)
        /\ versionSeq' = N + 1 /\ UNCHANGED <<tables, bucketSeq>>
  BY DEF Publish
<1> HIDE DEF N, K, Row, M
<1>a. PICK n, b, k, cs, row, mine :
        n = N /\ b = tx[r].id /\ k = K /\ cs = Arg(r).blob /\ row = Row /\ mine = M
  OBVIOUS
<1>1. /\ n = versionSeq /\ b = tx[r].id /\ k = Arg(r).key /\ cs = Arg(r).blob
      /\ row.bucket = b /\ row.key = k /\ row.blob = cs /\ g = [v \in {n} |-> row]
      /\ mine = Versions(Rows(r), b, k)
      /\ Runs(r, "publish", {}) /\ Goes(r, <<>>, w)
      /\ versionSeq' = n + 1 /\ UNCHANGED <<tables, bucketSeq>>
  BY <1>0, <1>a DEF N, K, Row, M
<1>2. /\ Open(r) /\ Verb(r) = "publish" /\ tx[r].todo[1].verb = "publish"
      /\ Arg(r) = tx[r].todo[1].arg /\ Suits(r, tx[r].todo[1]) /\ WritesFormed(tx[r].w)
      /\ \A x \in Requires(r, tx[r].todo[1]) : Holds(r, x)
  BY <1>1, RunsFirst
<1>3. /\ WritesFormed(w)
      /\ w.rows = Merge(tx[r].w.rows, g) /\ w.made = (tx[r].w.made \ mine) \cup {n}
      /\ w.cleared = tx[r].w.cleared \cup mine /\ w.gone = tx[r].w.gone
      /\ w.born = tx[r].w.born /\ w.staged = tx[r].w.staged /\ w.dropped = tx[r].w.dropped
      /\ w.named = tx[r].w.named /\ w.unnamed = tx[r].w.unnamed
  BY <1>0, <1>a, <1>2 DEF WritesFormed
<1>4. /\ DOMAIN w.rows = DOMAIN tx[r].w.rows \cup {n} /\ w.rows[n] = row
      /\ \A v \in DOMAIN tx[r].w.rows \ {n} : w.rows[v] = tx[r].w.rows[v]
      /\ w.rows = [v \in DOMAIN w.rows |-> w.rows[v]]
  <2>1. DOMAIN g = {n} /\ g[n] = row
    BY <1>1
  <2>2. PICK f, m : f = tx[r].w.rows /\ m = Merge(f, g)
    OBVIOUS
  <2>3. MergedAs(m, f, g)
    BY <2>2, MergeIs
  <2>4. w.rows = m
    BY <1>3, <2>2
  <2> QED BY <2>1, <2>2, <2>3, <2>4 DEF MergedAs
<1>5. row.bucket = b /\ row.key = k /\ row.blob = cs
  BY <1>1
<1>6. Advanced(r, <<>>, tx[r].id, tx[r].src, tx[r].shot, w)
  BY <1>1, <1>2, <1>3, IdleNothing, GoesAdvances DEF Inv
<1>7. RunFrame(r)
  BY <1>1, <1>6, NothingMore, FrameOf
<1>8. n \in Nat \ {0} /\ DOMAIN object \subseteq 1 .. n - 1 /\ Changed(tx[r].w) \subseteq 1 .. n - 1
  BY <1>1 DEF Inv, Data, VersionIds
<1>9. /\ n \notin DOMAIN object /\ n \notin DOMAIN tx[r].w.rows /\ n \in n .. (n + 1) - 1
      /\ \A v \in DOMAIN object \cup DOMAIN tx[r].w.rows : v \in Nat /\ v < n
  BY <1>8 DEF Changed
<1>10. /\ DOMAIN Rows(r) = (DOMAIN object \ tx[r].w.gone) \cup DOMAIN tx[r].w.rows
       /\ \A v \in DOMAIN tx[r].w.rows : Rows(r)[v] = tx[r].w.rows[v]
       /\ \A v \in DOMAIN object \ tx[r].w.gone : Rows(r)[v] = object[v]
  BY RowsAre
<1>11. mine \subseteq DOMAIN Rows(r) /\ \A v \in mine : Rows(r)[v].bucket = b /\ Rows(r)[v].key = k
  BY <1>1 DEF Versions
<1>12. /\ tx'[r].id = tx[r].id /\ tx'[r].src = tx[r].src /\ tx'[r].shot = tx[r].shot /\ tx'[r].w = w
       /\ tx'[r].state = tx[r].state /\ UNCHANGED <<object, latest, bucketSeq>>
  BY <1>1, <1>2, <1>6 DEF Advanced, tables, Open
<1>13. Changed(w) \subseteq Changed(tx[r].w) \cup DOMAIN object \cup {n}
  BY <1>3, <1>4, <1>10, <1>11 DEF Changed
<1>14. WriterFrame(r)
  <2>1. {n} \subseteq n .. versionSeq' - 1 /\ versionSeq' \in Nat /\ n <= versionSeq'
    BY <1>1, <1>8
  <2>2. SameSides(r)
    BY <1>3, <1>12 DEF SameSides
  <2>3. /\ tx'[r].w.named = tx[r].w.named /\ tx'[r].w.born = tx[r].w.born
        /\ tx'[r].w.rows = [v \in DOMAIN tx'[r].w.rows |-> tx'[r].w.rows[v]]
    BY <1>3, <1>4, <1>12
  <2>4. /\ DOMAIN tx'[r].w.rows \subseteq DOMAIN tx[r].w.rows \cup (versionSeq .. versionSeq' - 1)
        /\ Changed(tx'[r].w) \subseteq
                Changed(tx[r].w) \cup DOMAIN object \cup (versionSeq .. versionSeq' - 1)
    BY <2>1, <1>1, <1>4, <1>12, <1>13
  <2> QED BY <2>1, <2>2, <2>3, <2>4, <1>1, <1>7, <1>12 DEF WriterFrame
<1>15. Ready(r) /\ HasKey(r, k) /\ Checked(r, k)
  <2>1. Holds(r, Ready0) /\ Holds(r, <<"key", k>>) /\ Holds(r, <<"checked", k>>)
    BY <1>1, <1>2 DEF Requires
  <2> QED BY <2>1 DEF Holds, Ready0
<1>16. /\ Keeps(r)
       /\ \A x, y : Mine(r, x, y) => Mine(r, x, y)'
       /\ \A x : Checked(r, x) => Checked(r, x)'
       /\ IsNew(r)' <=> IsNew(r)
  BY <1>14, WriterSame
<1>17. Mine(r, b, k)'
  BY <1>1, <1>15, <1>16 DEF Mine
<1>18. OwnKeysAt(r)'
  <2>1. OwnKeysAt(r)
    BY DEF Inv, Data, OwnKeys, OwnKeysAt
  <2>2. ASSUME NEW v \in DOMAIN w.rows PROVE Mine(r, w.rows[v].bucket, w.rows[v].key)'
    <3>1. CASE v = n
      BY <3>1, <1>4, <1>5, <1>17
    <3>2. CASE v # n
      BY <3>2, <2>1, <1>4, <1>16 DEF OwnKeysAt
    <3> QED BY <3>1, <3>2
  <2>3. ASSUME NEW v \in (w.gone \cup w.cleared \cup w.made) \cap DOMAIN object
        PROVE  Mine(r, object[v].bucket, object[v].key)'
    <3>1. CASE v \in mine
      <4>1. v \notin DOMAIN tx[r].w.rows
        BY <2>3 DEF Inv, Data, VersionIds
      <4>2. object[v].bucket = b /\ object[v].key = k
        BY <3>1, <4>1, <1>10, <1>11
      <4> QED BY <4>2, <1>12, <1>17
    <3>2. CASE v \notin mine
      BY <3>2, <2>1, <2>3, <1>3, <1>9, <1>12, <1>16 DEF OwnKeysAt
    <3> QED BY <3>1, <3>2
  <2> QED BY <2>2, <2>3, <1>12 DEF OwnKeysAt
<1>19. NewestIn(Rows(r), Flags(r))'
  <2>1. NewestIn(Rows(r), Flags(r))
    BY DEF Inv, Data, Views
  <2>2. PICK o, l, p, m : o = Rows(r) /\ l = Flags(r) /\ p = Rows(r)' /\ m = Flags(r)'
    OBVIOUS
  <2>3. p = Merge(Restrict(object, DOMAIN object \ w.gone), w.rows)
    BY <2>2, <1>12 DEF Rows
  <2>4. PICK f : f = Restrict(object, DOMAIN object \ w.gone)
    OBVIOUS
  <2>5. DOMAIN f = DOMAIN object \ w.gone /\ \A v \in DOMAIN f : f[v] = object[v]
    BY <2>4 DEF Restrict
  <2>6. DOMAIN p = DOMAIN f \cup DOMAIN w.rows
        /\ (\A v \in DOMAIN w.rows : p[v] = w.rows[v])
        /\ \A v \in DOMAIN f \ DOMAIN w.rows : p[v] = f[v]
    <3>1. PICK g1 : g1 = w.rows
      OBVIOUS
    <3>2. p = Merge(f, g1)
      BY <2>3, <2>4, <3>1
    <3>3. MergedAs(p, f, g1)
      BY <3>2, MergeIs
    <3> QED BY <3>1, <3>3 DEF MergedAs
  <2>7. DOMAIN tx[r].w.rows \cap DOMAIN object = {}
    BY DEF Inv, Data, VersionIds
  <2>8. DOMAIN p = DOMAIN o \cup {n} /\ p[n] = row
    BY <2>2, <2>5, <2>6, <1>3, <1>4, <1>10
  <2>9. \A v \in DOMAIN o : p[v] = o[v]
    BY <2>2, <2>5, <2>6, <2>7, <1>3, <1>4, <1>9, <1>10
  <2>10. \A v \in DOMAIN o : v \in Nat /\ v < n
    BY <2>2, <1>9, <1>10
  <2>11. m = (l \ mine) \cup {n}
    BY <2>2, <1>3, <1>12 DEF Flags
  <2>12. mine = Versions(o, b, k) /\ NewestIn(o, l)
    BY <2>1, <2>2, <1>1
  <2>13. NewestIn(p, m)
    BY <2>8, <2>9, <2>10, <2>11, <2>12, <1>5, <1>8, NewestPublished
  <2> QED BY <2>2, <2>13 DEF NewestIn, Versions
<1>20. FreshAt(r)'
  <2>1. FreshAt(r)
    BY DEF Inv, Data, Fresh, FreshAt
  <2>2. ASSUME NEW v \in DOMAIN w.rows
        PROVE  /\ \A x \in Versions(object, w.rows[v].bucket, w.rows[v].key) : x < v
               /\ Checked(r, w.rows[v].key)'
    <3>1. CASE v = n
      BY <3>1, <1>4, <1>5, <1>9, <1>15, <1>16 DEF Versions
    <3>2. CASE v # n
      BY <3>2, <2>1, <1>4, <1>16 DEF FreshAt
    <3> QED BY <3>1, <3>2
  <2> QED BY <2>2, <1>12 DEF FreshAt, Versions
<1>21. Call[r].op \in Deleting \cup Attaching /\ (cs = {} <=> Call[r].op \in Deleting)
  BY <1>1, <1>2, AllowedOnly DEF Suits
<1>22. "fork_bucket" \notin Deleting \cup Attaching /\ Deleting \cap Attaching = {}
  BY DEF Deleting, Attaching
<1>23. Call[r].op \notin Deleting => DOMAIN tx[r].w.rows = {}
  <2>1. 1 \in DOMAIN tx[r].todo /\ tx[r].todo[1].verb \in Writer
    BY <1>2, FirstStatement DEF Writer
  <2>2. OnceAt(r, tx[r].todo, tx[r].w)
    BY DEF Inv, Todos, Once
  <2>3. DOMAIN Empty = {}
    BY DEF Empty
  <2> QED BY <2>1, <2>2, <2>3 DEF OnceAt, Clean
<1>24. ByCallAt(r)'
  <2>1. ByCallAt(r)
    BY DEF Inv, Data, ByCall, ByCallAt
  <2>2. \A v \in DOMAIN w.rows : Call[r].op \in Deleting => w.rows[v].blob = {}
    BY <2>1, <1>4, <1>5, <1>21 DEF ByCallAt
  <2>3. \A v \in DOMAIN w.rows : Call[r].op \in Attaching => w.rows[v].blob # {} /\ DOMAIN w.rows = {v}
    BY <1>4, <1>5, <1>21, <1>22, <1>23
  <2> QED BY <2>1, <2>2, <2>3, <1>3, <1>12, <1>21, <1>22 DEF ByCallAt
<1>25. ForksAt(r)'
  <2>1. ForksAt(r) /\ Call[r].op # "fork_bucket"
    BY <1>21, <1>22 DEF Inv, Data, Forks, ForksAt
  <2>2. tx[r].shot = {}
    BY <2>1 DEF ForksAt
  <2> QED BY <2>1, <2>2, <1>12 DEF ForksAt
<1>26. Todos'
  <2>1. Provides(r, tx[r].todo[1]) = {}
    BY <1>2 DEF Provides
  <2>2. WillReadAt(r, tx[r].todo)'
    BY <1>2, <1>6, StillReads
  <2>3. Lacks(<<>>, Setter) /\ Lacks(<<>>, Writer) /\ Lacks(<<>>, {"child"})
        /\ SuitedAt(r, <<>>) /\ PreparedNext(r, <<>>)
    BY NothingNext
  <2>4. Verb(r) \in Writer
    BY <1>2 DEF Writer
  <2> QED BY <2>1, <2>2, <2>3, <2>4, <1>2, <1>6, <1>7, <1>16, GoesOn
<1> QED BY <1>14, <1>18, <1>19, <1>20, <1>24, <1>25, <1>26, WriterStep

\* A set of numbers below a bound has a greatest one.
LEMMA GreatestNatural ==
    ASSUME NEW S, NEW n \in Nat, S # {}, \A x \in S : x \in Nat /\ x < n
    PROVE  \E x \in S : \A y \in S : y <= x
<1> DEFINE T == {n - x : x \in S}
<1>1. T \subseteq Nat /\ T # {}
  OBVIOUS
<1>2. PICK t \in T : \A s \in T : t <= s
  BY <1>1, LeastNatural
<1>3. PICK x \in S : t = n - x
  OBVIOUS
<1>4. ASSUME NEW y \in S PROVE y <= x
  <2>1. n - y \in T /\ n - x <= n - y
    BY <1>2, <1>3
  <2> QED BY <2>1
<1> QED BY <1>4

\* The row of a key that takes the flag when some of its rows go.
Heir(mine, gone, l) ==
    {v \in mine \ gone : gone \cap l # {} /\ \A w \in mine \ gone : w <= v}

\* When the flagged row of a key goes, the newest of those left takes the flag.
LEMMA NewestRemoved ==
    ASSUME NEW o, NEW l, NewestIn(o, l), NEW n \in Nat,
           \A v \in DOMAIN o : v \in Nat /\ v < n,
           NEW b, NEW k, NEW p, NEW m, NEW mine, NEW gone, NEW next,
           mine = Versions(o, b, k), gone \subseteq mine,
           next = Heir(mine, gone, l),
           DOMAIN p = DOMAIN o \ gone, \A v \in DOMAIN p : p[v] = o[v],
           m = (l \ gone) \cup next
    PROVE  NewestIn(p, m)
<1>0. next = {v \in mine \ gone : gone \cap l # {} /\ \A w \in mine \ gone : w <= v}
  BY DEF Heir
<1>1. l \subseteq DOMAIN o /\ mine \subseteq DOMAIN o
  BY DEF NewestIn, Versions
<1>2. m \subseteq DOMAIN p
  BY <1>0, <1>1
<1>3. \A v \in mine : o[v].bucket = b /\ o[v].key = k
  BY DEF Versions
<1>4. \A v \in mine : v \in l <=> \A w \in mine : w <= v
  BY <1>1, <1>3 DEF NewestIn
<1>5. ASSUME NEW v \in DOMAIN p
      PROVE  v \in m <=> \A w \in Versions(p, p[v].bucket, p[v].key) : w <= v
  <2>1. v \in DOMAIN o /\ v \notin gone /\ p[v] = o[v]
    OBVIOUS
  <2>2. CASE v \notin mine
    <3>1. ~(o[v].bucket = b /\ o[v].key = k)
      BY <2>1, <2>2 DEF Versions
    <3>2. Versions(p, o[v].bucket, o[v].key) = Versions(o, o[v].bucket, o[v].key)
      BY <3>1, <1>3 DEF Versions
    <3>3. v \in l <=> \A w \in Versions(o, o[v].bucket, o[v].key) : w <= v
      BY <2>1 DEF NewestIn
    <3>4. v \in m <=> v \in l
      BY <2>1, <2>2, <1>0
    <3> QED BY <2>1, <3>2, <3>3, <3>4
  <2>3. CASE v \in mine
    <3>1. Versions(p, p[v].bucket, p[v].key) = mine \ gone /\ v \in mine \ gone
      BY <2>1, <2>3, <1>3 DEF Versions
    <3>2. CASE gone \cap l # {}
      <4>1. PICK x : x \in gone /\ x \in l
        BY <3>2
      <4>2. x \in mine /\ v <= x /\ x \in Nat /\ v \in Nat /\ x # v
        BY <4>1, <2>1, <2>3, <1>1, <1>4
      <4>3. v \notin l
        BY <4>2, <2>3, <1>4
      <4> QED BY <3>1, <3>2, <4>3, <1>0
    <3>3. CASE gone \cap l = {}
      <4>1. v \in m <=> v \in l
        BY <2>1, <3>3, <1>0
      <4>2. PICK x \in mine : \A y \in mine : y <= x
        BY <2>3, <1>1, GreatestNatural
      <4>3. x \in l /\ x \in mine \ gone /\ x \in Nat /\ v \in Nat /\ v <= x
        BY <4>2, <3>3, <2>3, <1>1, <1>4
      <4>4. ASSUME \A w \in mine \ gone : w <= v PROVE v \in l
        <5>1. x <= v
          BY <4>3, <4>4
        <5>2. x = v
          BY <5>1, <4>3
        <5> QED BY <5>2, <4>3
      <4>5. ASSUME v \in l PROVE \A w \in mine \ gone : w <= v
        BY <4>5, <2>3, <1>4
      <4> QED BY <4>1, <4>4, <4>5, <3>1
    <3> QED BY <3>2, <3>3
  <2> QED BY <2>2, <2>3
<1> QED BY <1>2, <1>5 DEF NewestIn

\* A version that is removed, and the row that takes its flag.
LEMMA DeleteVersionStep ==
    ASSUME Inv, NEW r \in Session, DeleteVersion(r)
    PROVE  Inv'
<1> DEFINE K == Arg(r).key
           M == Versions(Rows(r), tx[r].id, K)
           G == Arg(r).version \cap M
           X == {v \in M \ G : G \cap Flags(r) # {} /\ \A y \in M \ G : y <= v}
<1>0. PICK w, d :
        /\ w = [tx[r].w EXCEPT
                    !.rows = Restrict(tx[r].w.rows, DOMAIN tx[r].w.rows \ G),
                    !.gone = tx[r].w.gone \cup G,
                    !.made = (tx[r].w.made \ G) \cup X,
                    !.delta = d]
        /\ Runs(r, "remove", {}) /\ Goes(r, <<>>, w) /\ Quiet
  BY DEF DeleteVersion
<1> HIDE DEF K, M, G, X
<1>a. PICK n, b, k, mine, gone, next :
        n = versionSeq /\ b = tx[r].id /\ k = K /\ mine = M /\ gone = G /\ next = X
  OBVIOUS
<1>1. /\ n = versionSeq /\ b = tx[r].id /\ k = Arg(r).key
      /\ mine = Versions(Rows(r), b, k) /\ gone \subseteq mine
      /\ next = {v \in mine \ gone : gone \cap Flags(r) # {} /\ \A y \in mine \ gone : y <= v}
      /\ Runs(r, "remove", {}) /\ Goes(r, <<>>, w)
      /\ versionSeq' = n /\ UNCHANGED <<tables, bucketSeq>>
  BY <1>0, <1>a DEF K, M, G, X, Quiet, sequences
<1>2. /\ Open(r) /\ Verb(r) = "remove" /\ tx[r].todo[1].verb = "remove"
      /\ Arg(r) = tx[r].todo[1].arg /\ Suits(r, tx[r].todo[1]) /\ WritesFormed(tx[r].w)
      /\ \A g \in Requires(r, tx[r].todo[1]) : Holds(r, g)
  BY <1>1, RunsFirst
<1>3. /\ WritesFormed(w)
      /\ w.rows = Restrict(tx[r].w.rows, DOMAIN tx[r].w.rows \ gone)
      /\ w.gone = tx[r].w.gone \cup gone /\ w.made = (tx[r].w.made \ gone) \cup next
      /\ w.cleared = tx[r].w.cleared
      /\ w.born = tx[r].w.born /\ w.staged = tx[r].w.staged /\ w.dropped = tx[r].w.dropped
      /\ w.named = tx[r].w.named /\ w.unnamed = tx[r].w.unnamed
  BY <1>0, <1>a, <1>2 DEF WritesFormed
<1>4. /\ DOMAIN w.rows = DOMAIN tx[r].w.rows \ gone
      /\ \A v \in DOMAIN w.rows : w.rows[v] = tx[r].w.rows[v]
      /\ w.rows = [v \in DOMAIN w.rows |-> w.rows[v]]
  BY <1>3 DEF Restrict
<1>6. Advanced(r, <<>>, tx[r].id, tx[r].src, tx[r].shot, w)
  BY <1>1, <1>2, <1>3, IdleNothing, GoesAdvances DEF Inv
<1>7. RunFrame(r)
  BY <1>1, <1>6, NothingMore, FrameOf
<1>8. n \in Nat \ {0} /\ DOMAIN object \subseteq 1 .. n - 1 /\ Changed(tx[r].w) \subseteq 1 .. n - 1
  BY <1>1 DEF Inv, Data, VersionIds
<1>9. \A v \in DOMAIN object \cup DOMAIN tx[r].w.rows : v \in Nat /\ v < n
  BY <1>8 DEF Changed
<1>10. /\ DOMAIN Rows(r) = (DOMAIN object \ tx[r].w.gone) \cup DOMAIN tx[r].w.rows
       /\ \A v \in DOMAIN tx[r].w.rows : Rows(r)[v] = tx[r].w.rows[v]
       /\ \A v \in DOMAIN object \ tx[r].w.gone : Rows(r)[v] = object[v]
  BY RowsAre
<1>11. /\ mine \subseteq DOMAIN Rows(r) /\ \A v \in mine : Rows(r)[v].bucket = b /\ Rows(r)[v].key = k
       /\ next \subseteq mine
  BY <1>1 DEF Versions
<1>12. /\ tx'[r].id = tx[r].id /\ tx'[r].src = tx[r].src /\ tx'[r].shot = tx[r].shot /\ tx'[r].w = w
       /\ tx'[r].state = tx[r].state /\ UNCHANGED <<object, latest, bucketSeq>>
  BY <1>1, <1>2, <1>6 DEF Advanced, tables, Open
<1>13. Changed(w) \subseteq Changed(tx[r].w) \cup DOMAIN object
  BY <1>1, <1>3, <1>4, <1>10, <1>11 DEF Changed
<1>14. WriterFrame(r)
  <2>1. versionSeq' \in Nat /\ versionSeq <= versionSeq'
    BY <1>1, <1>8
  <2>2. SameSides(r)
    BY <1>3, <1>12 DEF SameSides
  <2>3. /\ tx'[r].w.named = tx[r].w.named /\ tx'[r].w.born = tx[r].w.born
        /\ tx'[r].w.rows = [v \in DOMAIN tx'[r].w.rows |-> tx'[r].w.rows[v]]
    BY <1>3, <1>4, <1>12
  <2>4. /\ DOMAIN tx'[r].w.rows \subseteq DOMAIN tx[r].w.rows \cup (versionSeq .. versionSeq' - 1)
        /\ Changed(tx'[r].w) \subseteq
                Changed(tx[r].w) \cup DOMAIN object \cup (versionSeq .. versionSeq' - 1)
    BY <1>4, <1>12, <1>13
  <2> QED BY <2>1, <2>2, <2>3, <2>4, <1>1, <1>7, <1>12 DEF WriterFrame
<1>15. Ready(r) /\ HasKey(r, k)
  <2>1. Holds(r, Ready0) /\ Holds(r, <<"key", k>>)
    BY <1>1, <1>2 DEF Requires
  <2> QED BY <2>1 DEF Holds, Ready0
<1>16. /\ Keeps(r)
       /\ \A x, y : Mine(r, x, y) => Mine(r, x, y)'
       /\ \A x : Checked(r, x) => Checked(r, x)'
       /\ IsNew(r)' <=> IsNew(r)
  BY <1>14, WriterSame
<1>17. Mine(r, b, k)'
  BY <1>1, <1>15, <1>16 DEF Mine
<1>18. OwnKeysAt(r)'
  <2>1. OwnKeysAt(r)
    BY DEF Inv, Data, OwnKeys, OwnKeysAt
  <2>2. ASSUME NEW v \in DOMAIN w.rows PROVE Mine(r, w.rows[v].bucket, w.rows[v].key)'
    BY <2>1, <1>4, <1>16 DEF OwnKeysAt
  <2>3. ASSUME NEW v \in (w.gone \cup w.cleared \cup w.made) \cap DOMAIN object
        PROVE  Mine(r, object[v].bucket, object[v].key)'
    <3>1. CASE v \in mine
      <4>1. v \notin DOMAIN tx[r].w.rows
        BY <2>3 DEF Inv, Data, VersionIds
      <4>2. object[v].bucket = b /\ object[v].key = k
        BY <3>1, <4>1, <1>10, <1>11
      <4> QED BY <4>2, <1>12, <1>17
    <3>2. CASE v \notin mine
      BY <3>2, <2>1, <2>3, <1>1, <1>3, <1>11, <1>12, <1>16 DEF OwnKeysAt
    <3> QED BY <3>1, <3>2
  <2> QED BY <2>2, <2>3, <1>12 DEF OwnKeysAt
<1>19. NewestIn(Rows(r), Flags(r))'
  <2>1. NewestIn(Rows(r), Flags(r))
    BY DEF Inv, Data, Views
  <2>2. PICK o, l, p, m : o = Rows(r) /\ l = Flags(r) /\ p = Rows(r)' /\ m = Flags(r)'
    OBVIOUS
  <2>3. p = Merge(Restrict(object, DOMAIN object \ w.gone), w.rows)
    BY <2>2, <1>12 DEF Rows
  <2>4. PICK f, g : f = Restrict(object, DOMAIN object \ w.gone) /\ g = w.rows
    OBVIOUS
  <2>5. DOMAIN f = DOMAIN object \ w.gone /\ \A v \in DOMAIN f : f[v] = object[v]
    BY <2>4 DEF Restrict
  <2>6. MergedAs(p, f, g)
    BY <2>3, <2>4, MergeIs
  <2>7. DOMAIN tx[r].w.rows \cap DOMAIN object = {}
    BY DEF Inv, Data, VersionIds
  <2>8. DOMAIN p = DOMAIN o \ gone
    BY <2>2, <2>4, <2>5, <2>6, <1>3, <1>4, <1>10 DEF MergedAs
  <2>9. ASSUME NEW v \in DOMAIN p PROVE p[v] = o[v]
    <3>1. CASE v \in DOMAIN w.rows
      BY <3>1, <2>2, <2>4, <2>6, <1>4, <1>10 DEF MergedAs
    <3>2. CASE v \notin DOMAIN w.rows
      <4>1. v \in DOMAIN f /\ p[v] = f[v]
        BY <3>2, <2>4, <2>6 DEF MergedAs
      <4>2. v \in DOMAIN object \ tx[r].w.gone /\ f[v] = object[v]
        BY <4>1, <2>5, <1>3
      <4> QED BY <4>1, <4>2, <2>2, <1>10
    <3> QED BY <3>1, <3>2
  <2>10. \A v \in DOMAIN o : v \in Nat /\ v < n
    BY <2>2, <1>9, <1>10
  <2>11. m = (l \ gone) \cup next
    BY <2>2, <1>3, <1>12 DEF Flags
  <2>12. /\ mine = Versions(o, b, k) /\ gone \subseteq mine
         /\ next = Heir(mine, gone, l)
    BY <2>2, <1>1 DEF Heir
  <2>13. NewestIn(o, l) /\ n \in Nat
    BY <2>1, <2>2, <1>8
  <2>14. NewestIn(p, m)
    BY <2>8, <2>9, <2>10, <2>11, <2>12, <2>13, NewestRemoved
  <2> QED BY <2>2, <2>14 DEF NewestIn, Versions
<1>20. FreshAt(r)'
  <2>1. FreshAt(r)
    BY DEF Inv, Data, Fresh, FreshAt
  <2> QED BY <2>1, <1>4, <1>12, <1>16 DEF FreshAt, Versions
<1>21. Call[r].op = "delete_many"
  BY <1>1, <1>2, AllowedOnly DEF Suits
<1>22. Call[r].op \in Deleting /\ Call[r].op \notin Attaching /\ Call[r].op # "fork_bucket"
  BY <1>21 DEF Deleting, Attaching
<1>24. ByCallAt(r)'
  <2>1. ByCallAt(r)
    BY DEF Inv, Data, ByCall, ByCallAt
  <2> QED BY <2>1, <1>4, <1>12, <1>21, <1>22 DEF ByCallAt
<1>25. ForksAt(r)'
  <2>1. ForksAt(r)
    BY DEF Inv, Data, Forks, ForksAt
  <2>2. tx[r].shot = {}
    BY <2>1, <1>22 DEF ForksAt
  <2> QED BY <2>2, <1>12, <1>22 DEF ForksAt
<1>26. Todos'
  <2>1. Provides(r, tx[r].todo[1]) = {}
    BY <1>2 DEF Provides
  <2>2. WillReadAt(r, tx[r].todo)'
    BY <1>2, <1>6, StillReads
  <2>3. Lacks(<<>>, Setter) /\ Lacks(<<>>, Writer) /\ Lacks(<<>>, {"child"})
        /\ SuitedAt(r, <<>>) /\ PreparedNext(r, <<>>)
    BY NothingNext
  <2> QED BY <2>1, <2>2, <2>3, <1>2, <1>6, <1>7, <1>16, <1>22, GoesOn
<1> QED BY <1>14, <1>18, <1>19, <1>20, <1>24, <1>25, <1>26, WriterStep

-----------------------------------------------------------------------------
(* A fork.                                                                 *)

\* s lists the n elements of S, each of them once.
Lists(s, S, n) ==
    /\ n \in Nat /\ n = Cardinality(S) /\ Len(s) = n /\ DOMAIN s = 1 .. n
    /\ \A i \in 1 .. n : s[i] \in S
    /\ \A i, j \in 1 .. n : s[i] = s[j] => i = j
    /\ \A x \in S : \E i \in 1 .. n : s[i] = x

\* The orders of a finite set list it.
LEMMA ScanLists ==
    ASSUME NEW S, IsFiniteSet(S), NEW s \in SetToSeqs(S)
    PROVE  Lists(s, S, Cardinality(S))
<1> DEFINE n == Cardinality(S)
<1>1. n \in Nat
  BY FS_CardinalityType
<1>2. s \in [1 .. n -> S] /\ \A i, j \in 1 .. n : s[i] = s[j] => i = j
  BY DEF SetToSeqs
<1> HIDE DEF n
<1>3. s \in Seq(S) /\ Len(s) = n /\ DOMAIN s = 1 .. n
  BY <1>1, <1>2
<1>4. s \in Injection(1 .. n, S)
  BY <1>2, <1>3 DEF Injection, IsInjective
<1>5. Cardinality(1 .. n) = n
  <2>1. 1 \in Int /\ n \in Int
    BY <1>1
  <2>2. Cardinality(1 .. n) = IF 1 > n THEN 0 ELSE n - 1 + 1
    BY <2>1, FS_Interval, Zenon
  <2> QED BY <2>2, <1>1
<1>6. Cardinality(1 .. n) = Cardinality(S)
  BY <1>5 DEF n
<1>7. s \in Surjection(1 .. n, S)
  BY <1>4, <1>6, FS_Injection
<1>8. \A x \in S : \E i \in 1 .. n : s[i] = x
  BY <1>7 DEF Surjection
<1> QED BY <1>1, <1>2, <1>3, <1>8 DEF Lists, n

\* What snapshot does to its transaction.
LEMMA SnapshotAdvances ==
    ASSUME Formed, NEW r \in Session, Open(r), NEW ls, IsSeq(ls), NEW h, NEW f, NEW m, NEW w,
           w = [tx[r].w EXCEPT !.rows = f, !.made = m],
           tx' = [tx EXCEPT ![r].todo = ls \o Tail(@), ![r].shot = h, ![r].w.rows = f,
                            ![r].w.made = m]
    PROVE  Advanced(r, ls, tx[r].id, tx[r].src, h, w) /\ WritesFormed(w)
<1>1. tx[r] = [state |-> tx[r].state, todo |-> tx[r].todo, id |-> tx[r].id, src |-> tx[r].src,
               shot |-> tx[r].shot, w |-> tx[r].w]
      /\ tx[r].state = "open" /\ WritesFormed(tx[r].w) /\ IsSeq(tx[r].todo) /\ tx[r].todo # <<>>
  BY DEF Formed, TxFormed, Open
<1>2. tx = [q \in Session |-> tx[q]]
  BY DEF Formed
<1>3. WritesFormed(w)
  BY <1>1 DEF WritesFormed
<1>4. tx'[r] = [state |-> "open", todo |-> ls \o Tail(tx[r].todo),
                id |-> tx[r].id, src |-> tx[r].src, shot |-> h, w |-> w]
  BY <1>1, <1>2
<1>5. tx' = [q \in Session |-> tx'[q]] /\ \A q \in Session \ {r} : tx'[q] = tx[q]
  BY <1>2
<1> QED BY <1>3, <1>4, <1>5, AdvancedIf

\* The rows of a new bucket, one for every key, beside those of the others.
LEMMA NewestCopied ==
    ASSUME NEW o, NEW l, NewestIn(o, l), NEW b, \A v \in DOMAIN o : o[v].bucket # b,
           NEW f, DOMAIN o \cap DOMAIN f = {}, \A v \in DOMAIN f : f[v].bucket = b /\ v \in Nat,
           \A v, x \in DOMAIN f : f[v].key = f[x].key => v = x,
           NEW p, NEW m, MergedAs(p, o, f), m = l \cup DOMAIN f
    PROVE  NewestIn(p, m)
<1>1. /\ DOMAIN p = DOMAIN o \cup DOMAIN f /\ \A v \in DOMAIN f : p[v] = f[v]
      /\ \A v \in DOMAIN o : p[v] = o[v]
  BY DEF MergedAs
<1>2. l \subseteq DOMAIN o
  BY DEF NewestIn
<1>3. ASSUME NEW v \in DOMAIN p
      PROVE  v \in m <=> \A w \in Versions(p, p[v].bucket, p[v].key) : w <= v
  <2>1. CASE v \in DOMAIN f
    <3>1. \A w \in Versions(p, p[v].bucket, p[v].key) : w = v
      BY <2>1, <1>1 DEF Versions
    <3>2. v \in Nat /\ v \in m
      BY <2>1
    <3> QED BY <3>1, <3>2
  <2>2. CASE v \notin DOMAIN f
    <3>1. v \in DOMAIN o /\ p[v] = o[v] /\ (v \in m <=> v \in l)
      BY <2>2, <1>1
    <3>2. Versions(p, o[v].bucket, o[v].key) = Versions(o, o[v].bucket, o[v].key)
      BY <3>1, <1>1 DEF Versions
    <3>3. v \in l <=> \A w \in Versions(o, o[v].bucket, o[v].key) : w <= v
      BY <3>1 DEF NewestIn
    <3> QED BY <3>1, <3>2, <3>3
  <2> QED BY <2>1, <2>2
<1> QED BY <1>1, <1>2, <1>3 DEF NewestIn

\* The rows that a fork makes of a list of rows, from an id on.
CopiedAs(f, s, o, b, n, len) ==
    /\ DOMAIN f = n .. n + len - 1
    /\ f = [v \in DOMAIN f |-> f[v]]
    /\ \A v \in DOMAIN f :
        f[v].bucket = b /\ f[v].key = o[s[v - n + 1]].key /\ f[v].blob = o[s[v - n + 1]].blob

\* The rows f have new ids and say of their keys what the rows S of o say.
CopyOf(f, S, o, n) ==
    /\ \A v \in DOMAIN f : v \in Nat /\ n <= v
    /\ \A v \in DOMAIN f : \E x \in S : f[v].key = o[x].key /\ f[v].blob = o[x].blob
    /\ \A x \in S : \E v \in DOMAIN f : f[v].key = o[x].key /\ f[v].blob = o[x].blob
    /\ \A v, w \in DOMAIN f :
        (\A x, y \in S : o[x].key = o[y].key => x = y) /\ f[v].key = f[w].key => v = w

\* They are the listed rows under new ids.
LEMMA CopiedRows ==
    ASSUME NEW f, NEW s, NEW o, NEW b, NEW n \in Nat, NEW S, NEW len, Lists(s, S, len),
           CopiedAs(f, s, o, b, n, len)
    PROVE  CopyOf(f, S, o, n)
<1>1. len \in Nat /\ DOMAIN f = n .. n + len - 1
  BY DEF Lists, CopiedAs
<1>2. \A v \in DOMAIN f : v \in Nat /\ n <= v /\ v - n + 1 \in 1 .. len
  BY <1>1
<1>3. \A v \in DOMAIN f : /\ f[v].key = o[s[v - n + 1]].key /\ f[v].blob = o[s[v - n + 1]].blob
                          /\ s[v - n + 1] \in S
  BY <1>2 DEF Lists, CopiedAs
<1>4. ASSUME NEW x \in S PROVE \E v \in DOMAIN f : f[v].key = o[x].key /\ f[v].blob = o[x].blob
  <2>1. PICK i \in 1 .. len : s[i] = x
    BY DEF Lists
  <2>2. PICK v : v = n + i - 1
    OBVIOUS
  <2>3. v \in DOMAIN f /\ v - n + 1 = i
    BY <2>2, <1>1
  <2> QED BY <2>1, <2>3, <1>3
<1>5. ASSUME NEW v \in DOMAIN f, NEW w \in DOMAIN f, f[v].key = f[w].key,
             \A x, y \in S : o[x].key = o[y].key => x = y
      PROVE  v = w
  <2>1. PICK i, j : i = v - n + 1 /\ j = w - n + 1
    OBVIOUS
  <2>2. i \in 1 .. len /\ j \in 1 .. len /\ s[i] \in S /\ s[j] \in S /\ o[s[i]].key = o[s[j]].key
    BY <2>1, <1>2, <1>3, <1>5
  <2>3. s[i] = s[j]
    BY <2>2, <1>5
  <2>4. i = j
    BY <2>2, <2>3 DEF Lists
  <2> QED BY <2>1, <2>4, <1>2
<1> QED BY <1>2, <1>3, <1>4, <1>5 DEF CopyOf

\* The bumps that follow the copy.
LEMMA BumpList ==
    ASSUME NEW S, IsFiniteSet(S), NEW order \in SetToSeqs(S), NEW r, Call[r].op = "fork_bucket",
           NEW ls, ls = [i \in DOMAIN order |-> Do("bump", {order[i]})]
    PROVE  IsSeq(ls) /\ Idle(r, ls)
<1>1. Lists(order, S, Cardinality(S))
  BY ScanLists
<1>2. PICK n : n = Cardinality(S)
  OBVIOUS
<1>3. n \in Nat /\ DOMAIN order = 1 .. n
  BY <1>1, <1>2 DEF Lists
<1>4. ls = [i \in 1 .. n |-> Do("bump", {order[i]})]
  BY <1>3
<1>5. Len(ls) = n /\ DOMAIN ls = 1 .. n
  BY <1>3, <1>4
<1>6. IsSeq(ls)
  BY <1>3, <1>4, <1>5 DEF IsSeq
<1>7. \A i \in DOMAIN ls : ls[i] = Do("bump", {order[i]})
  BY <1>4, <1>5
<1>8. "bump" \in Allowed(Call[r].op)
  BY DEF Allowed
<1>9. \A a : Do("bump", a).verb = "bump" /\ Do("bump", a).arg = a
  BY DEF Do
<1>10. ASSUME NEW i \in DOMAIN ls
       PROVE  /\ ls[i].verb \in {"delete upload", "release", "bump"}
              /\ ls[i] = Do(ls[i].verb, ls[i].arg) /\ ls[i].verb \in Allowed(Call[r].op)
  <2>1. ls[i].verb = "bump" /\ ls[i].arg = {order[i]} /\ ls[i] = Do("bump", {order[i]})
    BY <1>7, <1>9
  <2> QED BY <2>1, <1>8
<1> QED BY <1>6, <1>10 DEF Idle

\* fork_bucket reads its source.
LEMMA SnapshotStep ==
    ASSUME Inv, NEW r \in Session, Snapshot(r)
    PROVE  Inv'
<1> DEFINE S0 == Forked(tx[r].src)
           B0 == (UNION {object[v].blob : v \in S0}) \cap DOMAIN blob
           R0 == {<<object[v].key, object[v].blob>> : v \in S0}
           New(s) == [v \in versionSeq .. versionSeq + Len(s) - 1 |->
                        LET row == object[s[v - versionSeq + 1]]
                        IN [bucket |-> tx[r].id, key |-> row.key, blob |-> row.blob]]
<1>0. PICK scan \in SetToSeqs(S0), order \in SetToSeqs(B0) :
        /\ Runs(r, "snapshot", {})
        /\ tx' = [tx EXCEPT ![r].todo = [i \in DOMAIN order |-> Do("bump", {order[i]})] \o Tail(@),
                            ![r].shot = {<<tx[r].src, R0>>},
                            ![r].w.rows = New(scan), ![r].w.made = DOMAIN New(scan)]
        /\ versionSeq' = versionSeq + Cardinality(S0) /\ UNCHANGED <<tables, bucketSeq>>
  BY DEF Snapshot
<1>c. PICK n, b, src, S, read, len :
        n = versionSeq /\ b = tx[r].id /\ src = tx[r].src /\ S = S0 /\ read = R0 /\ len = Cardinality(S0)
  OBVIOUS
<1>d. PICK f, ls : f = New(scan) /\ ls = [i \in DOMAIN order |-> Do("bump", {order[i]})]
  OBVIOUS
<1>e. PICK h, m, w :
        h = {<<src, read>>} /\ m = DOMAIN f /\ w = [tx[r].w EXCEPT !.rows = f, !.made = m]
  OBVIOUS
<1>a. /\ n = versionSeq /\ b = tx[r].id /\ src = tx[r].src /\ S = S0 /\ f = New(scan) /\ read = R0
      /\ ls = [i \in DOMAIN order |-> Do("bump", {order[i]})] /\ len = Cardinality(S0)
      /\ h = {<<src, read>>} /\ m = DOMAIN f
      /\ w = [tx[r].w EXCEPT !.rows = f, !.made = m]
  BY <1>c, <1>d, <1>e
<1>1. /\ Runs(r, "snapshot", {})
      /\ tx' = [tx EXCEPT ![r].todo = ls \o Tail(@), ![r].shot = h, ![r].w.rows = f, ![r].w.made = m]
      /\ n = versionSeq /\ versionSeq' = n + len /\ UNCHANGED <<tables, bucketSeq>>
  BY <1>0, <1>a
<1>2. /\ Open(r) /\ Verb(r) = "snapshot" /\ tx[r].todo[1].verb = "snapshot"
      /\ Suits(r, tx[r].todo[1]) /\ WritesFormed(tx[r].w)
      /\ \A g \in Requires(r, tx[r].todo[1]) : Holds(r, g)
  BY <1>1, RunsFirst
<1>3. Call[r].op = "fork_bucket"
  BY <1>2, AllowedOnly DEF Suits
<1>4. n \in Nat \ {0} /\ DOMAIN object \subseteq 1 .. n - 1 /\ latest \subseteq DOMAIN object
  BY <1>1 DEF Inv, Data, VersionIds
<1>5. S = {v \in latest : object[v].bucket = src}
  BY <1>a DEF Forked
<1>6. IsFiniteSet(S) /\ IsFiniteSet(B0)
  <2>1. S \in SUBSET Nat /\ \A x \in S : x <= n
    BY <1>4, <1>5
  <2>2. IsFiniteSet(S)
    BY <2>1, <1>4, FS_BoundedSetOfNaturals
  <2>3. IsFiniteSet(DOMAIN blob) /\ B0 \subseteq DOMAIN blob
    BY DEF Inv, Finite
  <2>4. IsFiniteSet(B0)
    BY <2>3, FS_Subset
  <2> QED BY <2>2, <2>4
<1>7. IsSeq(ls) /\ Idle(r, ls)
  BY <1>a, <1>3, <1>6, BumpList
<1>8. Lists(scan, S, len)
  BY <1>a, <1>6, ScanLists
<1>9. CopiedAs(f, scan, object, b, n, len)
  <2>1. Len(scan) = len
    BY <1>8 DEF Lists
  <2>2. f = [v \in n .. n + len - 1 |->
                [bucket |-> b, key |-> object[scan[v - n + 1]].key, blob |-> object[scan[v - n + 1]].blob]]
    BY <1>a, <2>1
  <2> QED BY <2>2 DEF CopiedAs
<1>b. h = {<<src, read>>} /\ m = DOMAIN f /\ b = tx[r].id /\ src = tx[r].src
      /\ w = [tx[r].w EXCEPT !.rows = f, !.made = m]
      /\ read = {<<object[v].key, object[v].blob>> : v \in S}
  BY <1>a
<1> HIDE DEF S0, B0, R0, New
<1>10. Advanced(r, ls, tx[r].id, tx[r].src, h, w) /\ WritesFormed(w)
  BY <1>1, <1>2, <1>7, <1>b, SnapshotAdvances DEF Inv
<1>11. /\ w.rows = f /\ w.made = m /\ w.gone = tx[r].w.gone /\ w.cleared = tx[r].w.cleared
       /\ w.born = tx[r].w.born /\ w.staged = tx[r].w.staged /\ w.dropped = tx[r].w.dropped
       /\ w.named = tx[r].w.named /\ w.unnamed = tx[r].w.unnamed
  BY <1>2, <1>b DEF WritesFormed
<1>12. Clean(tx[r].w)
  <2>1. 1 \in DOMAIN tx[r].todo /\ tx[r].todo[1].verb \in Writer
    BY <1>2, FirstStatement DEF Writer
  <2>2. OnceAt(r, tx[r].todo, tx[r].w) /\ Call[r].op \notin Deleting
    BY <1>3 DEF Inv, Todos, Once, Deleting
  <2> QED BY <2>1, <2>2 DEF OnceAt
<1>13. w.gone = {} /\ w.cleared = {} /\ DOMAIN tx[r].w.rows = {}
  BY <1>11, <1>12 DEF Clean, Empty
<1>14. RunFrame(r)
  BY <1>1, <1>10, NothingMore, FrameOf
<1>15. /\ tx'[r].id = tx[r].id /\ tx'[r].src = tx[r].src /\ tx'[r].shot = h /\ tx'[r].w = w
       /\ tx'[r].state = tx[r].state /\ UNCHANGED <<object, latest, bucketSeq>>
  BY <1>1, <1>2, <1>10 DEF Advanced, tables, Open
<1>16. /\ \A v \in DOMAIN f : v \in Nat /\ n <= v
       /\ \A v \in DOMAIN f : \E x \in S : f[v].key = object[x].key /\ f[v].blob = object[x].blob
       /\ \A x \in S : \E v \in DOMAIN f : f[v].key = object[x].key /\ f[v].blob = object[x].blob
       /\ \A v, x \in DOMAIN f :
            (\A y, z \in S : object[y].key = object[z].key => y = z) /\ f[v].key = f[x].key => v = x
  <2>1. CopyOf(f, S, object, n)
    BY <1>4, <1>8, <1>9, CopiedRows
  <2> QED BY <2>1 DEF CopyOf
<1>17. len \in Nat /\ DOMAIN f = n .. n + len - 1 /\ f = [v \in DOMAIN f |-> f[v]]
       /\ \A v \in DOMAIN f : f[v].bucket = b
  BY <1>8, <1>9 DEF Lists, CopiedAs
<1>18. WriterFrame(r)
  <2>1. versionSeq' \in Nat /\ versionSeq <= versionSeq' /\ DOMAIN f = versionSeq .. versionSeq' - 1
    BY <1>1, <1>4, <1>17
  <2>2. SameSides(r)
    BY <1>11, <1>15 DEF SameSides
  <2>3. /\ tx'[r].w.named = tx[r].w.named /\ tx'[r].w.born = tx[r].w.born
        /\ tx'[r].w.rows = [v \in DOMAIN tx'[r].w.rows |-> tx'[r].w.rows[v]]
    BY <1>11, <1>15, <1>17
  <2>4. /\ DOMAIN tx'[r].w.rows \subseteq DOMAIN tx[r].w.rows \cup DOMAIN f
        /\ Changed(tx'[r].w) \subseteq Changed(tx[r].w) \cup DOMAIN object \cup DOMAIN f
    BY <1>11, <1>13, <1>15, <1>b DEF Changed
  <2>5. bucketSeq' = bucketSeq
    BY <1>1
  <2> QED BY <2>1, <2>2, <2>3, <2>4, <2>5, <1>14, <1>15 DEF WriterFrame
<1>19. IsNew(r) /\ HasSource(r)
  <2>1. Holds(r, Ready0) /\ Holds(r, Source0)
    BY <1>2 DEF Requires
  <2>2. Ready(r) /\ HasSource(r)
    BY <2>1 DEF Holds, Ready0, Source0
  <2> QED BY <2>2, <1>3 DEF Ready
<1>20. /\ Keeps(r) /\ IsNew(r)' /\ HasSource(r)'
  BY <1>18, <1>19, WriterSame
<1>21. \A v \in DOMAIN object : object[v].bucket # b
  BY <1>19, <1>b DEF IsNew, Inv, Data, Secret
<1>22. DOMAIN object \cap DOMAIN f = {}
  BY <1>4, <1>16
<1>23. ASSUME NEW y \in S, NEW z \in S, object[y].key = object[z].key PROVE y = z
  <2>1. NewestIn(object, latest)
    BY DEF Inv, Data, Views
  <2>2. y \in DOMAIN object /\ z \in DOMAIN object /\ y \in latest /\ z \in latest
        /\ object[y].bucket = object[z].bucket
    BY <1>4, <1>5
  <2>3. y <= z /\ z <= y
    BY <2>1, <2>2, <1>23 DEF NewestIn, Versions
  <2>4. y \in Nat /\ z \in Nat
    BY <2>2, <1>4
  <2> QED BY <2>3, <2>4
<1>24. \A v, x \in DOMAIN f : f[v].key = f[x].key => v = x
  BY <1>16, <1>23
<1>25. OwnKeysAt(r)'
  <2>1. \A k : Mine(r, b, k)'
    BY <1>15, <1>20, <1>b DEF Mine, Ready
  <2>2. (w.gone \cup w.cleared \cup w.made) \cap DOMAIN object = {}
    BY <1>11, <1>13, <1>22, <1>b
  <2>3. \A v \in DOMAIN w.rows : Mine(r, w.rows[v].bucket, w.rows[v].key)'
    BY <2>1, <1>11, <1>17
  <2> QED BY <2>2, <2>3, <1>15 DEF OwnKeysAt
<1>26. NewestIn(Rows(r), Flags(r))'
  <2>1. PICK o, l, p, q : o = object /\ l = latest /\ p = Rows(r)' /\ q = Flags(r)'
    OBVIOUS
  <2>2. NewestIn(o, l)
    BY <2>1 DEF Inv, Data, Views
  <2>3. o = [v \in DOMAIN o |-> o[v]]
    BY <2>1 DEF Inv, Data, VersionIds
  <2>4. Restrict(o, DOMAIN o \ w.gone) = o
    BY <2>3, <1>13 DEF Restrict
  <2>5. p = Merge(o, f)
    BY <2>1, <2>4, <1>11, <1>15 DEF Rows
  <2>6. MergedAs(p, o, f)
    BY <2>5, MergeIs
  <2>7. q = l \cup DOMAIN f
    BY <2>1, <1>11, <1>13, <1>15, <1>b DEF Flags
  <2>8. /\ \A v \in DOMAIN o : o[v].bucket # b
        /\ DOMAIN o \cap DOMAIN f = {} /\ \A v \in DOMAIN f : f[v].bucket = b /\ v \in Nat
    BY <2>1, <1>16, <1>17, <1>21, <1>22
  <2>9. NewestIn(p, q)
    BY <2>2, <2>6, <2>7, <2>8, <1>24, NewestCopied
  <2> QED BY <2>1, <2>9 DEF NewestIn, Versions
<1>27. FreshAt(r)'
  <2>1. \A k : Checked(r, k)'
    BY <1>3 DEF Checked, CreateOnly
  <2>2. \A k : Versions(object, b, k) = {}
    BY <1>21 DEF Versions
  <2>3. \A v \in DOMAIN w.rows : w.rows[v].bucket = b
    BY <1>11, <1>17
  <2> QED BY <2>1, <2>2, <2>3, <1>15 DEF FreshAt, Versions
<1>28. ByCallAt(r)'
  BY <1>3, <1>13, <1>15, <1>20 DEF ByCallAt, Deleting, Attaching
<1>29. ForksAt(r)'
  <2>1. Copy(w) = {<<f[v].key, f[v].blob>> : v \in DOMAIN f}
    BY <1>11 DEF Copy
  <2>2. \A v \in DOMAIN f : \E x \in S : <<f[v].key, f[v].blob>> = <<object[x].key, object[x].blob>>
    BY <1>16
  <2>3. \A x \in S : \E v \in DOMAIN f : <<f[v].key, f[v].blob>> = <<object[x].key, object[x].blob>>
    BY <1>16
  <2>4. Copy(w) = read
    BY <2>1, <2>2, <2>3, <1>b
  <2>5. Copy(tx[r].w)' = Copy(w)
    BY <1>15 DEF Copy
  <2>6. tx'[r].shot = {<<tx'[r].src, Copy(tx[r].w)'>>}
    BY <2>4, <2>5, <1>15, <1>b
  <2>7. \A v, x \in DOMAIN w.rows : w.rows[v].key = w.rows[x].key => v = x
    BY <1>11, <1>24
  <2> QED BY <2>6, <2>7, <1>3, <1>15, <1>20 DEF ForksAt
<1>30. Todos'
  <2>1. Provides(r, tx[r].todo[1]) = {}
    BY <1>2 DEF Provides
  <2>2. WillReadAt(r, tx[r].todo)'
    <3>1. tx'[r].shot # {}
      BY <1>15, <1>b
    <3> QED BY <3>1 DEF WillReadAt
  <2>3. Lacks(ls, Setter \cup Writer \cup {"child"}) /\ SuitedAt(r, ls) /\ PreparedNext(r, ls)
    BY <1>7, IdleLists
  <2>4. Lacks(ls, Setter) /\ Lacks(ls, Writer) /\ Lacks(ls, {"child"})
    BY <2>3 DEF Lacks
  <2>5. Verb(r) \in Writer
    BY <1>2 DEF Writer
  <2> QED BY <2>1, <2>2, <2>3, <2>4, <2>5, <1>2, <1>10, <1>14, <1>20, GoesOn
<1> QED BY <1>18, <1>25, <1>26, <1>27, <1>28, <1>29, <1>30, WriterStep

\* Every statement preserves the invariant.
LEMMA RunStep ==
    ASSUME Inv, NEW r \in Session, Run(r)
    PROVE  Inv'
BY LockStep, LockEachStep, ChildStep, SourceStep, LockKeysStep, CheckStep, ReadStep, InsertBlobStep,
   PinBlobStep, PublishStep, DeleteVersionStep, SnapshotStep, BumpStep, InsertBucketStep,
   CheckEmptyStep, DeleteUploadsStep, DeleteBucketStep, InsertUploadStep, LockUploadStep, StageStep,
   AssembleStep, DeleteUploadStep, ReleaseStep, ExpireStep, CollectStep
   DEF Run

-----------------------------------------------------------------------------
(* The end of a transaction.                                               *)

\* t is s but for the blobs that its bumps skip.
SameTodo(t, s) ==
    /\ IsSeq(t) /\ DOMAIN t = DOMAIN s
    /\ \A i \in DOMAIN s :
        /\ t[i] = Do(t[i].verb, t[i].arg) /\ t[i].verb = s[i].verb
        /\ s[i].verb # "bump" => t[i] = s[i]

\* r is over; the others keep their locks and writes.
EndFrame(r) ==
    /\ \E why : why # "open" /\ tx'[r] = Ended(why)
    /\ tx' = [q \in Session |-> tx'[q]]
    /\ \A q \in Session \ {r} :
        /\ tx'[q] = [state |-> tx[q].state, todo |-> tx'[q].todo, id |-> tx[q].id, src |-> tx[q].src,
                     shot |-> tx[q].shot, w |-> tx[q].w]
        /\ SameTodo(tx'[q].todo, tx[q].todo)
        /\ tx[q].todo = <<>> => tx'[q].todo = <<>>
    /\ held' = held \ Released(r)

\* What is left of r.
LEMMA EndedIs ==
    ASSUME NEW r \in Session, EndFrame(r)
    PROVE  /\ tx'[r].state # "open" /\ tx'[r].todo = <<>> /\ tx'[r].id = 0 /\ tx'[r].src = 0
           /\ tx'[r].shot = {} /\ tx'[r].w = NoWrites /\ tx'[r] = Ended(tx'[r].state)
           /\ NewIds(r)' = {}
<1>1. PICK why : why # "open" /\ tx'[r] = Ended(why)
  BY DEF EndFrame
<1>2. tx'[r].w = NoWrites /\ tx'[r].todo = <<>> /\ tx'[r].id = 0 /\ tx'[r].src = 0
      /\ tx'[r].shot = {} /\ tx'[r].state = why
  BY <1>1 DEF Ended
<1>3. NewIds(r)' = {}
  BY <1>2 DEF NewIds, NoWrites, Range, Empty
<1> QED BY <1>1, <1>2, <1>3

\* The fields of what nothing writes.
LEMMA NoWritesIs ==
    /\ DOMAIN NoWrites.rows = {} /\ NoWrites.rows = Empty /\ NoWrites.gone = {} /\ NoWrites.cleared = {}
    /\ NoWrites.made = {} /\ NoWrites.born = {} /\ NoWrites.dead = {} /\ DOMAIN NoWrites.staged = {}
    /\ NoWrites.dropped = {} /\ DOMAIN NoWrites.named = {} /\ NoWrites.unnamed = {}
    /\ NoWrites.named = Empty /\ Changed(NoWrites) = {} /\ DOMAIN Empty = {}
    /\ Empty = [x \in DOMAIN Empty |-> Empty[x]] /\ WritesFormed(NoWrites)
BY DEF NoWrites, Empty, Changed, WritesFormed

\* What the others have.
LEMMA OthersAre ==
    ASSUME NEW r \in Session, EndFrame(r), NEW q \in Session \ {r}
    PROVE  /\ tx'[q].state = tx[q].state /\ tx'[q].id = tx[q].id /\ tx'[q].src = tx[q].src
           /\ tx'[q].shot = tx[q].shot /\ tx'[q].w = tx[q].w
           /\ NewIds(q)' = NewIds(q) /\ (IsNew(q)' <=> IsNew(q))
           /\ SameTodo(tx'[q].todo, tx[q].todo)
           /\ \A a, m : Holding(q, a, m) => Holding(q, a, m)'
<1>1. /\ tx'[q].state = tx[q].state /\ tx'[q].id = tx[q].id /\ tx'[q].src = tx[q].src
      /\ tx'[q].shot = tx[q].shot /\ tx'[q].w = tx[q].w /\ SameTodo(tx'[q].todo, tx[q].todo)
  BY DEF EndFrame
<1>2. NewIds(q)' = NewIds(q)
  BY <1>1 DEF NewIds
<1>3. IsNew(q)' <=> IsNew(q)
  BY <1>1, <1>2 DEF IsNew
<1>4. \A a, m : Holding(q, a, m) => Holding(q, a, m)'
  BY DEF Holding, EndFrame, Released
<1> QED BY <1>1, <1>2, <1>3, <1>4

\* The shape of the transactions and the locks.
LEMMA EndFormed ==
    ASSUME Inv, NEW r \in Session, EndFrame(r)
    PROVE  Formed' /\ LockSafe'
<1>1. LockSafe'
  BY DEF Inv, LockSafe, EndFrame
<1>2. ASSUME NEW q \in Session PROVE TxFormed(tx'[q])
  <2>1. CASE q = r
    <3>1. PICK why : why # "open" /\ tx'[r] = Ended(why)
      BY DEF EndFrame
    <3>2. PICK t : t = Ended(why)
      OBVIOUS
    <3>3. /\ t = [state |-> t.state, todo |-> t.todo, id |-> t.id, src |-> t.src, shot |-> t.shot,
                  w |-> t.w]
          /\ t.state = why /\ t.todo = <<>> /\ t.w = NoWrites
      BY <3>2 DEF Ended
    <3>4. TxFormed(t)
      BY <3>2, <3>3, NoWritesIs, IdleNothing DEF TxFormed
    <3> QED BY <2>1, <3>1, <3>2, <3>4
  <2>2. CASE q # r
    <3>1. TxFormed(tx[q])
      BY DEF Inv, Formed
    <3>2. PICK t, s : t = tx'[q] /\ s = tx[q]
      OBVIOUS
    <3>3. /\ t = [state |-> s.state, todo |-> t.todo, id |-> s.id, src |-> s.src,
                  shot |-> s.shot, w |-> s.w]
          /\ SameTodo(t.todo, s.todo) /\ (s.todo = <<>> => t.todo = <<>>)
      BY <2>2, <3>2 DEF EndFrame
    <3>4. /\ t = [state |-> t.state, todo |-> t.todo, id |-> t.id, src |-> t.src,
                  shot |-> t.shot, w |-> t.w]
          /\ t.state = s.state /\ t.id = s.id /\ t.src = s.src /\ t.shot = s.shot /\ t.w = s.w
      BY <3>3
    <3>5. IsSeq(t.todo)
      BY <3>3 DEF SameTodo
    <3>6. ASSUME t.state # "open" PROVE t = Ended(t.state)
      <4>1. s = Ended(s.state)
        BY <3>1, <3>2, <3>4, <3>6 DEF TxFormed
      <4>2. s.todo = <<>> /\ s.id = 0 /\ s.src = 0 /\ s.shot = {} /\ s.w = NoWrites
        BY <4>1 DEF Ended
      <4> QED BY <4>2, <3>3, <3>4 DEF Ended
    <3>7. TxFormed(t)
      BY <3>1, <3>2, <3>4, <3>5, <3>6 DEF TxFormed
    <3> QED BY <3>2, <3>7
  <2> QED BY <2>1, <2>2
<1>3. \A q \in Session : TxFormed(tx[q])'
  BY <1>2 DEF TxFormed, IsSeq, WritesFormed, Ended
<1> QED BY <1>1, <1>3 DEF Formed, EndFrame

\* A session that loses nothing it relies on is as prepared as it was.
LEMMA EndTodos ==
    ASSUME Inv, NEW r \in Session, EndFrame(r), \A q \in Session \ {r} : Keeps(q)
    PROVE  Todos'
<1>1. /\ tx'[r].state # "open" /\ tx'[r].todo = <<>>
  BY EndedIs
<1>2. DOMAIN tx'[r].todo = {}
  BY <1>1
<1>3. ASSUME NEW q \in Session, q # r
      PROVE  /\ SuitedAt(q, tx[q].todo)' /\ PreparedAt(q, tx[q].todo)'
             /\ SettlingAt(tx[q].todo, tx[q].id)' /\ OnceAt(q, tx[q].todo, tx[q].w)'
             /\ WillReadAt(q, tx[q].todo)'
  <2>1. PICK t, s : t = tx'[q].todo /\ s = tx[q].todo
    OBVIOUS
  <2>2. /\ tx'[q].state = tx[q].state /\ tx'[q].id = tx[q].id
        /\ tx'[q].shot = tx[q].shot /\ tx'[q].w = tx[q].w /\ SameTodo(t, s)
    BY <1>3, <2>1, OthersAre
  <2>3. /\ DOMAIN t = DOMAIN s
        /\ \A i \in DOMAIN s : /\ t[i] = Do(t[i].verb, t[i].arg) /\ t[i].verb = s[i].verb
                               /\ s[i].verb # "bump" => t[i] = s[i]
    BY <2>2 DEF SameTodo
  <2>4. /\ SuitedAt(q, s) /\ PreparedAt(q, s) /\ SettlingAt(s, tx[q].id)
        /\ OnceAt(q, s, tx[q].w) /\ WillReadAt(q, s)
    BY <2>1 DEF Inv, Todos, Suited, Prepared, Settling, Once, WillRead
  <2>5. SuitedAt(q, t)
    <3>1. ASSUME NEW i \in DOMAIN s PROVE Suits(q, t[i])
      <4>1. Suits(q, s[i])
        BY <2>4 DEF SuitedAt
      <4>2. CASE s[i].verb = "bump"
        BY <4>1, <4>2, <2>3 DEF Suits
      <4>3. CASE s[i].verb # "bump"
        BY <4>1, <4>3, <2>3
      <4> QED BY <4>2, <4>3
    <3> QED BY <3>1, <2>3 DEF SuitedAt
  <2>6. PreparedNext(q, t)
    <3>1. ASSUME NEW i \in DOMAIN t, NEW f \in Requires(q, t[i])
          PROVE  Holds(q, f)' \/ \E j \in DOMAIN t : j < i /\ f \in Provides(q, t[j])
      <4>1. s[i].verb # "bump"
        BY <2>3, <3>1 DEF Requires
      <4>2. f \in Requires(q, s[i]) /\ i \in DOMAIN s
        BY <4>1, <2>3
      <4>3. CASE Holds(q, f)
        BY <4>3, <1>3 DEF Keeps
      <4>4. CASE \E j \in DOMAIN s : j < i /\ f \in Provides(q, s[j])
        <5>1. PICK j \in DOMAIN s : j < i /\ f \in Provides(q, s[j])
          BY <4>4
        <5>2. s[j].verb # "bump"
          BY <5>1 DEF Provides
        <5> QED BY <5>1, <5>2, <2>3
      <4> QED BY <4>2, <4>3, <4>4, <2>4 DEF PreparedAt
    <3> QED BY <3>1 DEF PreparedNext
  <2>7. SettlingAt(t, tx[q].id)
    BY <2>3, <2>4 DEF SettlingAt, Sole
  <2>8. OnceAt(q, t, tx[q].w)
    BY <2>3, <2>4 DEF OnceAt, Sole
  <2>9. WillReadAt(q, t)
    BY <2>3, <2>4 DEF WillReadAt
  <2>10. SuitedAt(q, tx[q].todo)'
    BY <2>1, <2>5 DEF SuitedAt
  <2>11. PreparedAt(q, tx[q].todo)'
    BY <2>1, <2>6 DEF PreparedAt, PreparedNext
  <2>12. SettlingAt(tx[q].todo, tx[q].id)'
    BY <2>1, <2>2, <2>7 DEF SettlingAt, Sole
  <2>13. OnceAt(q, tx[q].todo, tx[q].w)'
    BY <2>1, <2>2, <2>8 DEF OnceAt, Sole, Clean
  <2>14. WillReadAt(q, tx[q].todo)'
    BY <2>1, <2>2, <2>9 DEF WillReadAt
  <2> QED BY <2>10, <2>11, <2>12, <2>13, <2>14
<1>4. /\ SuitedAt(r, tx[r].todo)' /\ PreparedAt(r, tx[r].todo)'
      /\ SettlingAt(tx[r].todo, tx[r].id)' /\ OnceAt(r, tx[r].todo, tx[r].w)'
      /\ WillReadAt(r, tx[r].todo)'
  BY <1>1, <1>2 DEF SuitedAt, PreparedAt, SettlingAt, OnceAt, WillReadAt
<1>5. Suited' /\ Prepared'
  BY <1>3, <1>4 DEF Suited, Prepared, SuitedAt, PreparedAt
<1>6. Settling' /\ Once' /\ WillRead'
  BY <1>3, <1>4 DEF Settling, Once, WillRead, SettlingAt, OnceAt, WillReadAt
<1> QED BY <1>5, <1>6 DEF Todos

\* What is left of r satisfies what the invariant says of one session.
LEMMA EndedAt ==
    ASSUME NEW r \in Session, EndFrame(r)
    PROVE  /\ OwnKeysAt(r)' /\ FreshAt(r)' /\ ByCallAt(r)' /\ ForksAt(r)' /\ UploadsAt(r)'
           /\ Rows(r)' = Merge(Restrict(object', DOMAIN object'), Empty) /\ Flags(r)' = latest'
<1>1. tx'[r].w = NoWrites /\ tx'[r].state # "open" /\ tx'[r].shot = {}
  BY EndedIs
<1>2. /\ DOMAIN NoWrites.rows = {} /\ NoWrites.rows = Empty /\ NoWrites.gone = {}
      /\ NoWrites.cleared = {} /\ NoWrites.made = {} /\ DOMAIN NoWrites.staged = {}
      /\ NoWrites.dropped = {}
  BY NoWritesIs
<1>3. /\ DOMAIN tx'[r].w.rows = {} /\ tx'[r].w.rows = Empty /\ tx'[r].w.gone = {}
      /\ tx'[r].w.cleared = {} /\ tx'[r].w.made = {} /\ DOMAIN tx'[r].w.staged = {}
      /\ tx'[r].w.dropped = {}
  BY <1>1, <1>2
<1>4. OwnKeysAt(r)' /\ FreshAt(r)' /\ ByCallAt(r)'
  BY <1>3 DEF OwnKeysAt, FreshAt, ByCallAt
<1>5. ForksAt(r)'
  BY <1>1, <1>3 DEF ForksAt
<1>6. UploadsAt(r)'
  BY <1>1, <1>3 DEF UploadsAt
<1>7. Rows(r)' = Merge(Restrict(object', DOMAIN object'), Empty)
  BY <1>3 DEF Rows
<1>8. Flags(r)' = latest'
  BY <1>3 DEF Flags
<1> QED BY <1>4, <1>5, <1>6, <1>7, <1>8

\* A transaction without writes sees what is committed.
LEMMA BareView ==
    ASSUME NEW o, o = [v \in DOMAIN o |-> o[v]]
    PROVE  Merge(Restrict(o, DOMAIN o), Empty) = o
BY DEF Merge, Restrict, Empty

\* ROLLBACK changes nothing for the others.
LEMMA RollbackStep ==
    ASSUME Inv, NEW r \in Session, NEW why, why # "open", Rollback(r, why)
    PROVE  Inv'
<1>1. /\ UNCHANGED tables /\ UNCHANGED <<versionSeq, bucketSeq>>
      /\ tx' = [tx EXCEPT ![r] = Ended(why)] /\ held' = held \ Released(r)
  BY DEF Rollback, sequences
<1>2. tx = [q \in Session |-> tx[q]] /\ \A q \in Session : TxFormed(tx[q])
  BY DEF Inv, Formed
<1>3. tx' = [q \in Session |-> tx'[q]] /\ tx'[r] = Ended(why) /\ \A q \in Session \ {r} : tx'[q] = tx[q]
  BY <1>1, <1>2
<1>4. \A q \in Session : SameTodo(tx[q].todo, tx[q].todo)
  BY <1>2 DEF SameTodo, TxFormed, Inv, Todos, Suited, SuitedAt, Suits
<1>5. EndFrame(r)
  BY <1>1, <1>2, <1>3, <1>4 DEF EndFrame, TxFormed
<1>6. ASSUME NEW q \in Session, q # r PROVE Keeps(q)
  <2>1. \A h \in held : h[1] = q => h \in held'
    BY <1>1, <1>6 DEF Released
  <2> QED BY <2>1, <1>1, <1>3, <1>6, KeepsSame
<1>7. Todos' /\ Formed' /\ LockSafe'
  BY <1>5, <1>6, EndTodos, EndFormed
<1>8. /\ tx'[r].w = NoWrites /\ tx'[r].id = 0 /\ tx'[r].src = 0 /\ tx'[r].shot = {} /\ NewIds(r)' = {}
  BY <1>5, EndedIs
<1>9. /\ OwnKeysAt(r)' /\ FreshAt(r)' /\ ByCallAt(r)' /\ ForksAt(r)' /\ UploadsAt(r)'
  BY <1>5, EndedAt
<1>10. UNCHANGED <<bucket, object, latest, upload, blob>> /\ Ids' = Ids
  BY <1>1 DEF tables, Ids
<1>11. ASSUME NEW q \in Session, q # r
       PROVE  /\ tx'[q] = tx[q] /\ NewIds(q)' = NewIds(q) /\ (IsNew(q)' <=> IsNew(q))
              /\ \A b, k : Mine(q, b, k) => Mine(q, b, k)'
              /\ \A k : Checked(q, k) => Checked(q, k)'
              /\ (HasSource(q) => HasSource(q)') /\ (Emptied(q) => Emptied(q)')
              /\ \A a, m : Holding(q, a, m) => Holding(q, a, m)'
  BY <1>3, <1>5, <1>6, <1>11, OthersAre, KeepsMine, KeepsChecked
<1>12. BucketIds'
  <2>1. ASSUME NEW q \in Session
        PROVE  /\ tx'[q].id \in Ids \cup {0} /\ tx'[q].src \in Ids \cup {0}
               /\ NewIds(q)' \subseteq Ids \cap {tx'[q].id}
    <3>1. CASE q = r
      BY <3>1, <1>8
    <3>2. CASE q # r
      BY <3>2, <1>11 DEF Inv, Data, BucketIds
    <3> QED BY <3>1, <3>2
  <2> QED BY <2>1, <1>1, <1>10 DEF Inv, Data, BucketIds
<1>13. Secret'
  <2>1. ASSUME NEW q \in Session, NEW b \in NewIds(q)'
        PROVE  /\ \A n \in DOMAIN bucket : bucket[n] # b
               /\ \A v \in DOMAIN object : object[v].bucket # b
               /\ \A u \in DOMAIN upload : upload[u].bucket # b
               /\ \A p \in Session \ {q} : tx'[p].id # b
    <3>1. q # r /\ b \in NewIds(q) /\ b \in Ids
      BY <2>1, <1>8, <1>11 DEF Inv, Data, BucketIds
    <3>2. b # 0
      BY <3>1 DEF Ids
    <3> QED BY <3>1, <3>2, <1>8, <1>11 DEF Inv, Data, Secret
  <2> QED BY <2>1, <1>10 DEF Secret
<1>14. VersionIds'
  <2>1. Changed(NoWrites) = {} /\ DOMAIN NoWrites.rows = {} /\ NoWrites.rows = [x \in {} |-> NoWrites.rows[x]]
    BY NoWritesIs
  <2>2. \A q \in Session : Changed(tx[q].w)' = Changed(tx'[q].w)
    BY DEF Changed
  <2>3. ASSUME NEW q \in Session
        PROVE  /\ tx'[q].w.rows = [v \in DOMAIN tx'[q].w.rows |-> tx'[q].w.rows[v]]
               /\ Changed(tx'[q].w) \subseteq 1 .. versionSeq - 1
               /\ DOMAIN tx'[q].w.rows \cap DOMAIN object = {}
               /\ \A p \in Session \ {q} : Changed(tx'[q].w) \cap DOMAIN tx'[p].w.rows = {}
    <3>1. CASE q = r
      BY <3>1, <2>1, <1>8
    <3>2. CASE q # r
      <4>1. tx'[q] = tx[q] /\ \A p \in Session \ {q} : tx'[p].w.rows = tx[p].w.rows \/ DOMAIN tx'[p].w.rows = {}
        BY <3>2, <2>1, <1>8, <1>11
      <4> QED BY <4>1 DEF Inv, Data, VersionIds
    <3> QED BY <3>1, <3>2
  <2> QED BY <2>2, <2>3, <1>1, <1>10 DEF Inv, Data, VersionIds
<1>15. OwnKeys'
  <2>1. ASSUME NEW q \in Session, q # r PROVE OwnKeysAt(q)'
    <3>1. OwnKeysAt(q) /\ tx'[q] = tx[q]
      BY <2>1, <1>11 DEF Inv, Data, OwnKeys, OwnKeysAt
    <3> QED BY <2>1, <3>1, <1>10, <1>11 DEF OwnKeysAt
  <2> QED BY <2>1, <1>9 DEF OwnKeys, OwnKeysAt
<1>16. Views'
  <2>1. Views
    BY DEF Inv, Data
  <2>2. NewestIn(object, latest)'
    BY <2>1, <1>10 DEF Views, NewestIn, Versions
  <2>3. ASSUME NEW q \in Session, q # r PROVE NewestIn(Rows(q), Flags(q))'
    <3>1. tx'[q] = tx[q] /\ UNCHANGED <<object, latest>>
      BY <2>3, <1>10, <1>11
    <3>2. Rows(q)' = Rows(q) /\ Flags(q)' = Flags(q)
      BY <3>1 DEF Rows, Flags
    <3>3. NewestIn(Rows(q), Flags(q))
      BY <2>1 DEF Views
    <3> QED BY <3>2, <3>3 DEF NewestIn, Versions
  <2>4. NewestIn(Rows(r), Flags(r))'
    <3>1. object' = [v \in DOMAIN object' |-> object'[v]]
      BY <1>10 DEF Inv, Data, VersionIds
    <3>2. Rows(r)' = object' /\ Flags(r)' = latest'
      BY <3>1, <1>5, EndedAt, BareView
    <3> QED BY <2>2, <3>2 DEF NewestIn, Versions
  <2> QED BY <2>2, <2>3, <2>4 DEF Views
<1>17. Fresh'
  <2>1. ASSUME NEW q \in Session, q # r PROVE FreshAt(q)'
    <3>1. FreshAt(q) /\ tx'[q] = tx[q]
      BY <2>1, <1>11 DEF Inv, Data, Fresh, FreshAt
    <3> QED BY <2>1, <3>1, <1>10, <1>11 DEF FreshAt, Versions
  <2> QED BY <2>1, <1>9 DEF Fresh, FreshAt
<1>18. ByCall'
  <2>1. ASSUME NEW q \in Session, q # r PROVE ByCallAt(q)'
    <3>1. ByCallAt(q) /\ tx'[q] = tx[q]
      BY <2>1, <1>11 DEF Inv, Data, ByCall, ByCallAt
    <3> QED BY <2>1, <3>1, <1>11 DEF ByCallAt
  <2> QED BY <2>1, <1>9 DEF ByCall, ByCallAt
<1>19. Forks'
  <2>1. ASSUME NEW q \in Session, q # r PROVE ForksAt(q)'
    <3>1. ForksAt(q) /\ tx'[q] = tx[q]
      BY <2>1, <1>11 DEF Inv, Data, Forks, ForksAt
    <3>2. Copy(tx[q].w)' = Copy(tx[q].w)
      BY <3>1 DEF Copy
    <3> QED BY <2>1, <3>1, <3>2, <1>10, <1>11 DEF ForksAt
  <2> QED BY <2>1, <1>9 DEF Forks, ForksAt
<1>20. Named'
  <2>1. /\ NoWrites.named = [n \in DOMAIN NoWrites.named |-> NoWrites.named[n]]
        /\ DOMAIN NoWrites.named = {} /\ NoWrites.unnamed = {}
    BY NoWritesIs
  <2> QED BY <2>1, <1>8, <1>10, <1>11 DEF Inv, Named
<1>21. Uploads'
  <2>1. ASSUME NEW q \in Session, q # r PROVE UploadsAt(q)'
    <3>1. UploadsAt(q) /\ tx'[q] = tx[q]
      BY <2>1, <1>11 DEF Inv, Uploads, UploadsAt
    <3>2. \A p \in Session \ {q} : NewIds(p)' \subseteq NewIds(p)
      BY <1>8, <1>11
    <3> QED BY <2>1, <3>1, <3>2, <1>10, <1>11 DEF UploadsAt
  <2>2. \A h \in held' : h \in held
    BY <1>1
  <2> QED BY <2>1, <2>2, <1>9, <1>10 DEF Inv, Uploads, UploadsAt
<1>22. Finite'
  <2>1. IsFiniteSet(NoWrites.born) /\ IsFiniteSet(DOMAIN NoWrites.staged)
    BY NoWritesIs, FS_EmptySet
  <2> QED BY <2>1, <1>8, <1>10, <1>11 DEF Inv, Finite
<1> QED BY <1>7, <1>12, <1>13, <1>14, <1>15, <1>16, <1>17, <1>18, <1>19, <1>20, <1>21, <1>22 DEF Inv, Data

-----------------------------------------------------------------------------
(* COMMIT.                                                                 *)

\* Rows and flags under some writes.
RowsUnder(o, w) == Merge(Restrict(o, DOMAIN o \ w.gone), w.rows)
FlagsUnder(l, w) == (l \ (w.cleared \cup w.gone)) \cup w.made

\* Two tables that say the same about a key.
Agree(o, l, p, m, b, k) ==
    /\ Versions(p, b, k) = Versions(o, b, k)
    /\ \A v \in Versions(o, b, k) : p[v] = o[v] /\ (v \in m <=> v \in l)

\* The rows under writes, one by one.
UnderAs(p, o, w) ==
    /\ DOMAIN p = (DOMAIN o \ w.gone) \cup DOMAIN w.rows
    /\ p = [v \in DOMAIN p |-> p[v]]
    /\ \A v \in DOMAIN w.rows : p[v] = w.rows[v]
    /\ \A v \in DOMAIN o \ w.gone : p[v] = o[v]

\* They are what the merge makes of them.
LEMMA UnderIs ==
    ASSUME NEW o, NEW w, DOMAIN w.rows \cap DOMAIN o = {}
    PROVE  UnderAs(RowsUnder(o, w), o, w)
<1>1. PICK f, g, m : f = Restrict(o, DOMAIN o \ w.gone) /\ g = w.rows /\ m = Merge(f, g)
  OBVIOUS
<1>2. DOMAIN f = DOMAIN o \ w.gone /\ \A v \in DOMAIN f : f[v] = o[v]
  BY <1>1 DEF Restrict
<1>3. MergedAs(m, f, g)
  BY <1>1, MergeIs
<1>4. RowsUnder(o, w) = m
  BY <1>1 DEF RowsUnder
<1> QED BY <1>1, <1>2, <1>3, <1>4 DEF MergedAs, UnderAs

\* Writes to other keys leave a key alone.
LEMMA UnderAgrees ==
    ASSUME NEW o, NEW l, NEW w, NEW b, NEW k, DOMAIN w.rows \cap DOMAIN o = {},
           \A v \in DOMAIN w.rows : ~(w.rows[v].bucket = b /\ w.rows[v].key = k),
           \A v \in (w.gone \cup w.cleared \cup w.made) \cap DOMAIN o :
                ~(o[v].bucket = b /\ o[v].key = k)
    PROVE  Agree(o, l, RowsUnder(o, w), FlagsUnder(l, w), b, k)
<1>1. PICK p, m : p = RowsUnder(o, w) /\ m = FlagsUnder(l, w)
  OBVIOUS
<1>2. /\ DOMAIN p = (DOMAIN o \ w.gone) \cup DOMAIN w.rows
      /\ \A v \in DOMAIN w.rows : p[v] = w.rows[v]
      /\ \A v \in DOMAIN o \ w.gone : p[v] = o[v]
  <2>1. UnderAs(p, o, w)
    BY <1>1, UnderIs
  <2> QED BY <2>1 DEF UnderAs
<1>3. \A v \in Versions(o, b, k) :
        v \in DOMAIN o /\ v \notin w.gone /\ v \notin w.cleared /\ v \notin w.made
  BY DEF Versions
<1>4. \A v \in Versions(o, b, k) : v \in Versions(p, b, k) /\ p[v] = o[v]
  BY <1>2, <1>3 DEF Versions
<1>5. \A v \in Versions(p, b, k) : v \in Versions(o, b, k)
  BY <1>2 DEF Versions
<1>6. Versions(p, b, k) = Versions(o, b, k)
  BY <1>4, <1>5
<1>7. \A v \in Versions(o, b, k) : v \in m <=> v \in l
  BY <1>1, <1>3 DEF FlagsUnder
<1> QED BY <1>1, <1>4, <1>6, <1>7 DEF Agree

\* Tables that agree on a key still do under the same writes.
LEMMA AgreeUnder ==
    ASSUME NEW o, NEW l, NEW p, NEW m, NEW b, NEW k, Agree(o, l, p, m, b, k), NEW w,
           DOMAIN w.rows \cap DOMAIN o = {}, DOMAIN w.rows \cap DOMAIN p = {},
           l \subseteq DOMAIN o, m \subseteq DOMAIN p
    PROVE  Agree(RowsUnder(o, w), FlagsUnder(l, w), RowsUnder(p, w), FlagsUnder(m, w), b, k)
<1>1. PICK O, P, L, M : /\ O = RowsUnder(o, w) /\ P = RowsUnder(p, w)
                        /\ L = FlagsUnder(l, w) /\ M = FlagsUnder(m, w)
  OBVIOUS
<1>2. /\ DOMAIN O = (DOMAIN o \ w.gone) \cup DOMAIN w.rows
      /\ \A v \in DOMAIN w.rows : O[v] = w.rows[v]
      /\ \A v \in DOMAIN o \ w.gone : O[v] = o[v]
  <2>1. UnderAs(O, o, w)
    BY <1>1, UnderIs
  <2> QED BY <2>1 DEF UnderAs
<1>3. /\ DOMAIN P = (DOMAIN p \ w.gone) \cup DOMAIN w.rows
      /\ \A v \in DOMAIN w.rows : P[v] = w.rows[v]
      /\ \A v \in DOMAIN p \ w.gone : P[v] = p[v]
  <2>1. UnderAs(P, p, w)
    BY <1>1, UnderIs
  <2> QED BY <2>1 DEF UnderAs
<1>4. L = (l \ (w.cleared \cup w.gone)) \cup w.made /\ M = (m \ (w.cleared \cup w.gone)) \cup w.made
  BY <1>1 DEF FlagsUnder
<1>5. \A v : v \in DOMAIN o /\ o[v].bucket = b /\ o[v].key = k
                <=> v \in DOMAIN p /\ p[v].bucket = b /\ p[v].key = k
  BY DEF Agree, Versions
<1>6. \A v \in DOMAIN o : o[v].bucket = b /\ o[v].key = k => p[v] = o[v] /\ (v \in m <=> v \in l)
  BY DEF Agree, Versions
<1>7. ASSUME NEW v \in Versions(O, b, k)
      PROVE  v \in Versions(P, b, k) /\ P[v] = O[v] /\ (v \in M <=> v \in L)
  <2>1. CASE v \in DOMAIN w.rows
    <3>1. v \notin l /\ v \notin m
      BY <2>1
    <3> QED BY <2>1, <3>1, <1>2, <1>3, <1>4 DEF Versions
  <2>2. CASE v \notin DOMAIN w.rows
    <3>1. v \in DOMAIN o \ w.gone /\ O[v] = o[v] /\ o[v].bucket = b /\ o[v].key = k
      BY <2>2, <1>2 DEF Versions
    <3>2. v \in DOMAIN p \ w.gone /\ p[v] = o[v] /\ P[v] = p[v] /\ (v \in m <=> v \in l)
      BY <3>1, <1>3, <1>5, <1>6
    <3> QED BY <3>1, <3>2, <1>3, <1>4 DEF Versions
  <2> QED BY <2>1, <2>2
<1>8. ASSUME NEW v \in Versions(P, b, k) PROVE v \in Versions(O, b, k)
  <2>1. CASE v \in DOMAIN w.rows
    BY <2>1, <1>2, <1>3 DEF Versions
  <2>2. CASE v \notin DOMAIN w.rows
    <3>1. v \in DOMAIN p \ w.gone /\ P[v] = p[v] /\ p[v].bucket = b /\ p[v].key = k
      BY <2>2, <1>3 DEF Versions
    <3>2. v \in DOMAIN o \ w.gone /\ o[v].bucket = b /\ o[v].key = k /\ O[v] = o[v]
      BY <3>1, <1>2, <1>5
    <3> QED BY <3>2, <1>2 DEF Versions
  <2> QED BY <2>1, <2>2
<1>9. Versions(P, b, k) = Versions(O, b, k)
  BY <1>7, <1>8
<1> QED BY <1>1, <1>7, <1>9 DEF Agree

\* The flags of one key.
NewestAt(o, l, b, k) ==
    \A v \in Versions(o, b, k) : v \in l <=> \A w \in Versions(o, b, k) : w <= v

\* A key whose rows and flags are the same has the same newest row.
LEMMA NewestAgrees ==
    ASSUME NEW o, NEW l, NEW p, NEW m, NEW b, NEW k, Agree(o, l, p, m, b, k), NewestAt(o, l, b, k)
    PROVE  NewestAt(p, m, b, k)
BY DEF Agree, NewestAt

\* A table whose keys are right is right.
LEMMA NewestByKey ==
    ASSUME NEW o, NEW l
    PROVE  NewestIn(o, l) <=> l \subseteq DOMAIN o /\ \A b, k : NewestAt(o, l, b, k)
<1>1. ASSUME NewestIn(o, l), NEW b, NEW k PROVE NewestAt(o, l, b, k)
  BY <1>1 DEF NewestIn, NewestAt, Versions
<1>2. ASSUME l \subseteq DOMAIN o, \A b, k : NewestAt(o, l, b, k) PROVE NewestIn(o, l)
  <2>1. ASSUME NEW v \in DOMAIN o
        PROVE  v \in l <=> \A w \in Versions(o, o[v].bucket, o[v].key) : w <= v
    <3>1. v \in Versions(o, o[v].bucket, o[v].key) /\ NewestAt(o, l, o[v].bucket, o[v].key)
      BY <1>2 DEF Versions
    <3> QED BY <3>1 DEF NewestAt
  <2> QED BY <1>2, <2>1 DEF NewestIn
<1> QED BY <1>1, <1>2 DEF NewestIn

\* Two sessions never own the same key.
LEMMA OneOwner ==
    ASSUME Inv, NEW r \in Session, NEW q \in Session, q # r, NEW b, NEW k, Mine(r, b, k)
    PROVE  ~Mine(q, b, k) /\ ~(b = tx[q].id /\ HasKey(q, k))
<1>1. ~IsNew(q) \/ b # tx[q].id
  BY DEF Mine, IsNew, Inv, Data, Secret
<1>2. ~IsNew(r) \/ b # tx[q].id
  BY DEF Mine, IsNew, Inv, Data, Secret
<1>3. ASSUME b = tx[q].id, HasKey(q, k), HasKey(r, k) PROVE FALSE
  <2>1. <<q, KeyLock(b, k), "exclusive">> \in held /\ <<r, KeyLock(b, k), "exclusive">> \in held
    BY <1>3 DEF HasKey, Holding, Mine
  <2>2. KeyLock(b, k)[1] = "key" /\ <<"exclusive", "exclusive">> \in Conflicting
    BY DEF KeyLock, Conflicting
  <2> QED BY <2>1, <2>2 DEF Inv, LockSafe
<1> QED BY <1>1, <1>2, <1>3 DEF Mine

\* COMMIT ends the transaction and makes its writes everybody's.
CommitFrame(r) ==
    /\ EndFrame(r)
    /\ bucket' = Merge(Restrict(bucket, DOMAIN bucket \ tx[r].w.unnamed), tx[r].w.named)
    /\ object' = RowsUnder(object, tx[r].w) /\ latest' = FlagsUnder(latest, tx[r].w)
    /\ DOMAIN blob' = (DOMAIN blob \cup tx[r].w.born) \ tx[r].w.dead
    /\ upload' = Restrict(Merge(upload, tx[r].w.staged),
                          (DOMAIN upload \cup DOMAIN tx[r].w.staged) \ tx[r].w.dropped)
    /\ UNCHANGED <<versionSeq, bucketSeq>>

\* Skipping deleted blobs changes the arguments of bumps only.
LEMMA SkipDeadSame ==
    ASSUME NEW s, IsSeq(s), \A i \in DOMAIN s : s[i] = Do(s[i].verb, s[i].arg), NEW dead
    PROVE  SameTodo(SkipDead(s, dead), s) /\ (s = <<>> => SkipDead(s, dead) = <<>>)
<1>1. PICK t : t = SkipDead(s, dead)
  OBVIOUS
<1>2. PICK n : n = Len(s)
  OBVIOUS
<1>3. n \in Nat /\ DOMAIN s = 1 .. n
  BY <1>2, SeqOver DEF IsSeq
<1>4. t = [i \in 1 .. n |->
            IF s[i].verb = "bump" THEN [s[i] EXCEPT !.arg = @ \ dead] ELSE s[i]]
  BY <1>1, <1>3 DEF SkipDead
<1>5. DOMAIN t = 1 .. n /\ Len(t) = n
  BY <1>3, <1>4
<1>6. IsSeq(t)
  BY <1>3, <1>4, <1>5 DEF IsSeq
<1>7. ASSUME NEW i \in DOMAIN s
      PROVE  /\ t[i] = Do(t[i].verb, t[i].arg) /\ t[i].verb = s[i].verb
             /\ s[i].verb # "bump" => t[i] = s[i]
  <2>1. s[i] = [verb |-> s[i].verb, arg |-> s[i].arg]
    BY DEF Do
  <2>2. CASE s[i].verb = "bump"
    <3>1. t[i] = [s[i] EXCEPT !.arg = @ \ dead]
      BY <2>2, <1>3, <1>4
    <3>2. t[i] = [verb |-> s[i].verb, arg |-> s[i].arg \ dead]
      BY <2>1, <3>1
    <3> QED BY <2>2, <3>2 DEF Do
  <2>3. CASE s[i].verb # "bump"
    BY <2>3, <1>3, <1>4 DEF Do
  <2> QED BY <2>2, <2>3
<1>8. ASSUME s = <<>> PROVE t = <<>>
  <2>1. n = 0
    BY <1>2, <1>8
  <2>2. t \in Seq({}) /\ Len(t) = 0
    BY <2>1, <1>4, <1>5
  <2> QED BY <2>2
<1> QED BY <1>1, <1>3, <1>5, <1>6, <1>7, <1>8 DEF SameTodo

\* What COMMIT does.
LEMMA CommitIs ==
    ASSUME Inv, NEW r \in Session, Commit(r)
    PROVE  CommitFrame(r) /\ tx[r].state = "open"
<1>1. /\ bucket' = Merge(Restrict(bucket, DOMAIN bucket \ tx[r].w.unnamed), tx[r].w.named)
      /\ object' = Rows(r) /\ latest' = Flags(r)
      /\ upload' = Restrict(Merge(upload, tx[r].w.staged),
                            (DOMAIN upload \cup DOMAIN tx[r].w.staged) \ tx[r].w.dropped)
      /\ held' = held \ Released(r) /\ tx[r].state = "open"
      /\ UNCHANGED <<versionSeq, bucketSeq>>
      /\ tx' = [q \in Session |->
                    IF q = r THEN Ended("ok")
                    ELSE [tx[q] EXCEPT !.todo = SkipDead(@, tx[r].w.dead)]]
  BY DEF Commit, sequences
<1>2. DOMAIN blob' = (DOMAIN blob \cup tx[r].w.born) \ tx[r].w.dead
  BY DEF Commit
<1>3. object' = RowsUnder(object, tx[r].w) /\ latest' = FlagsUnder(latest, tx[r].w)
  BY <1>1 DEF Rows, Flags, RowsUnder, FlagsUnder
<1>4. tx' = [q \in Session |-> tx'[q]] /\ tx'[r] = Ended("ok")
  BY <1>1
<1>5. ASSUME NEW q \in Session \ {r}
      PROVE  /\ tx'[q] = [state |-> tx[q].state, todo |-> tx'[q].todo, id |-> tx[q].id, src |-> tx[q].src,
                          shot |-> tx[q].shot, w |-> tx[q].w]
             /\ SameTodo(tx'[q].todo, tx[q].todo)
             /\ tx[q].todo = <<>> => tx'[q].todo = <<>>
  <2>1. PICK t, s, l : t = tx'[q] /\ s = tx[q] /\ l = SkipDead(tx[q].todo, tx[r].w.dead)
    OBVIOUS
  <2>2. t = [s EXCEPT !.todo = l]
    BY <1>1, <2>1
  <2>3. /\ s = [state |-> s.state, todo |-> s.todo, id |-> s.id, src |-> s.src, shot |-> s.shot,
                w |-> s.w]
        /\ IsSeq(s.todo)
    BY <2>1 DEF Inv, Formed, TxFormed
  <2>4. t = [state |-> s.state, todo |-> l, id |-> s.id, src |-> s.src, shot |-> s.shot, w |-> s.w]
    BY <2>2, <2>3
  <2>5. \A i \in DOMAIN s.todo : s.todo[i] = Do(s.todo[i].verb, s.todo[i].arg)
    BY <2>1 DEF Inv, Todos, Suited, SuitedAt, Suits
  <2>6. SameTodo(l, s.todo) /\ (s.todo = <<>> => l = <<>>)
    BY <2>1, <2>3, <2>5, SkipDeadSame
  <2> QED BY <2>1, <2>4, <2>6
<1>6. EndFrame(r)
  BY <1>1, <1>4, <1>5 DEF EndFrame
<1> QED BY <1>1, <1>2, <1>3, <1>6 DEF CommitFrame

\* The names after COMMIT: those that stay and the new one.
LEMMA CommitNames ==
    ASSUME Inv, NEW r \in Session, CommitFrame(r)
    PROVE  /\ bucket' = [n \in DOMAIN bucket' |-> bucket'[n]]
           /\ DOMAIN bucket' = (DOMAIN bucket \ tx[r].w.unnamed) \cup DOMAIN tx[r].w.named
           /\ \A n \in DOMAIN tx[r].w.named : bucket'[n] = tx[r].id
           /\ \A n \in DOMAIN bucket \ tx[r].w.unnamed : bucket'[n] = bucket[n]
<1>1. PICK f, g, m : f = Restrict(bucket, DOMAIN bucket \ tx[r].w.unnamed) /\ g = tx[r].w.named
                     /\ m = Merge(f, g)
  OBVIOUS
<1>2. DOMAIN f = DOMAIN bucket \ tx[r].w.unnamed /\ \A n \in DOMAIN f : f[n] = bucket[n]
  BY <1>1 DEF Restrict
<1>3. MergedAs(m, f, g)
  BY <1>1, MergeIs
<1>4. bucket' = m
  BY <1>1 DEF CommitFrame
<1>5. \A n \in DOMAIN g : g[n] = tx[r].id /\ n \notin DOMAIN bucket
  BY <1>1 DEF Inv, Named
<1> QED BY <1>1, <1>2, <1>3, <1>4, <1>5 DEF MergedAs

\* Nobody takes a name from a session that holds its lifecycle lock.
LEMMA NameStays ==
    ASSUME Inv, NEW r \in Session, CommitFrame(r), NEW q \in Session \ {r},
           NEW n \in DOMAIN bucket, NEW mode \in {"shared", "exclusive"}, Holding(q, Lifecycle(n), mode)
    PROVE  n \in DOMAIN bucket' /\ bucket'[n] = bucket[n]
<1>1. n \notin tx[r].w.unnamed
  <2>1. SUFFICES ASSUME n \in tx[r].w.unnamed PROVE FALSE
    OBVIOUS
  <2>2. Holding(r, Lifecycle(n), "exclusive")
    BY <2>1 DEF Inv, Named, Emptied
  <2>3. Lifecycle(n)[1] = "bucket" /\ <<mode, "exclusive">> \in Conflicting
    BY DEF Lifecycle, Conflicting
  <2> QED BY <2>2, <2>3 DEF Holding, Inv, LockSafe
<1> QED BY <1>1, CommitNames

\* The uploads after COMMIT.
LEMMA CommitUploads ==
    ASSUME Inv, NEW r \in Session, CommitFrame(r)
    PROVE  /\ upload' = [u \in DOMAIN upload' |-> upload'[u]]
           /\ DOMAIN upload' = (DOMAIN upload \cup DOMAIN tx[r].w.staged) \ tx[r].w.dropped
           /\ \A u \in DOMAIN upload' \cap DOMAIN tx[r].w.staged : upload'[u] = tx[r].w.staged[u]
           /\ \A u \in DOMAIN upload' \ DOMAIN tx[r].w.staged : u \in DOMAIN upload /\ upload'[u] = upload[u]
<1>1. PICK f, g, m, D, p :
        /\ f = upload /\ g = tx[r].w.staged /\ m = Merge(f, g)
        /\ D = (DOMAIN f \cup DOMAIN g) \ tx[r].w.dropped /\ p = Restrict(m, D)
  OBVIOUS
<1>2. MergedAs(m, f, g)
  BY <1>1, MergeIs
<1>3. p = [u \in D |-> m[u]]
  BY <1>1 DEF Restrict
<1>4. upload' = p
  BY <1>1 DEF CommitFrame
<1>5. DOMAIN p = D /\ p = [u \in DOMAIN p |-> p[u]] /\ \A u \in D : p[u] = m[u]
  BY <1>3
<1> QED BY <1>1, <1>2, <1>4, <1>5 DEF MergedAs

\* Nobody changes an upload row that a session has locked.
LEMMA UploadStays ==
    ASSUME Inv, NEW r \in Session, CommitFrame(r), NEW q \in Session \ {r},
           NEW u, NEW mode, Holding(q, UploadRow(u), mode)
    PROVE  u \in DOMAIN upload' /\ upload'[u] = upload[u]
<1>1. UploadRow(u)[1] = "upload" /\ UploadRow(u)[2] = u
  BY DEF UploadRow
<1>2. <<q, UploadRow(u), mode>> \in held
  BY DEF Holding
<1>3. mode = "update" /\ u \in DOMAIN upload
  BY <1>1, <1>2 DEF Inv, LockSafe, Uploads
<1>4. ~Holding(r, UploadRow(u), "update")
  <2>1. <<"update", "update">> \in Conflicting
    BY DEF Conflicting
  <2> QED BY <2>1, <1>1, <1>2, <1>3 DEF Holding, Inv, LockSafe
<1>5. UploadsAt(r)
  BY DEF Inv, Uploads, UploadsAt
<1>6. u \notin tx[r].w.dropped
  BY <1>4, <1>5 DEF UploadsAt
<1>7. u \notin DOMAIN tx[r].w.staged
  <2>1. SUFFICES ASSUME u \in DOMAIN tx[r].w.staged PROVE FALSE
    OBVIOUS
  <2>2. Call[r].op = "begin_upload" /\ u = Call[r].upload
    BY <2>1, <1>4, <1>5 DEF UploadsAt
  <2>3. tx[r].state = "open"
    <3>1. SUFFICES ASSUME tx[r].state # "open" PROVE FALSE
      OBVIOUS
    <3>2. tx[r] = Ended(tx[r].state)
      BY <3>1 DEF Inv, Formed, TxFormed
    <3>3. tx[r].w = NoWrites
      BY <3>2 DEF Ended
    <3> QED BY <3>3, <2>1, NoWritesIs
  <2> QED BY <2>2, <2>3, <1>3, <1>5 DEF UploadsAt
<1> QED BY <1>3, <1>6, <1>7, CommitUploads

\* The object table after COMMIT: what r saw.
LEMMA CommitRows ==
    ASSUME Inv, NEW r \in Session, CommitFrame(r)
    PROVE  /\ UnderAs(object', object, tx[r].w)
           /\ DOMAIN tx[r].w.rows \cap DOMAIN object = {}
           /\ \A v \in DOMAIN tx[r].w.rows : Mine(r, tx[r].w.rows[v].bucket, tx[r].w.rows[v].key)
           /\ NewestIn(object', latest') /\ latest' \subseteq DOMAIN object'
<1>1. DOMAIN tx[r].w.rows \cap DOMAIN object = {}
  BY DEF Inv, Data, VersionIds
<1>2. object' = RowsUnder(object, tx[r].w) /\ latest' = FlagsUnder(latest, tx[r].w)
  BY DEF CommitFrame
<1>3. UnderAs(object', object, tx[r].w)
  BY <1>1, <1>2, UnderIs
<1>4. \A v \in DOMAIN tx[r].w.rows : Mine(r, tx[r].w.rows[v].bucket, tx[r].w.rows[v].key)
  BY DEF Inv, Data, OwnKeys, OwnKeysAt
<1>5. object' = Rows(r) /\ latest' = Flags(r)
  BY <1>2 DEF Rows, Flags, RowsUnder, FlagsUnder
<1>6. NewestIn(Rows(r), Flags(r))
  BY DEF Inv, Data, Views
<1>7. NewestIn(object', latest')
  BY <1>5, <1>6
<1> QED BY <1>1, <1>3, <1>4, <1>7 DEF NewestIn

\* A key that is not r's is as it was.
LEMMA CommitAgrees ==
    ASSUME Inv, NEW r \in Session, CommitFrame(r), NEW b, NEW k, ~Mine(r, b, k)
    PROVE  Agree(object, latest, object', latest', b, k)
<1>1. DOMAIN tx[r].w.rows \cap DOMAIN object = {}
  BY DEF Inv, Data, VersionIds
<1>2. OwnKeysAt(r)
  BY DEF Inv, Data, OwnKeys, OwnKeysAt
<1>3. PICK w, o : w = tx[r].w /\ o = object
  OBVIOUS
<1>4. /\ \A v \in DOMAIN w.rows : ~(w.rows[v].bucket = b /\ w.rows[v].key = k)
      /\ \A v \in (w.gone \cup w.cleared \cup w.made) \cap DOMAIN o :
            ~(o[v].bucket = b /\ o[v].key = k)
  BY <1>2, <1>3 DEF OwnKeysAt
<1>5. object' = RowsUnder(o, w) /\ latest' = FlagsUnder(latest, w)
  BY <1>3 DEF CommitFrame
<1>6. Agree(o, latest, RowsUnder(o, w), FlagsUnder(latest, w), b, k)
  BY <1>1, <1>3, <1>4, UnderAgrees
<1> QED BY <1>3, <1>5, <1>6

\* A bucket that is r's to write to is not another session's to drop.
LEMMA DropExcludes ==
    ASSUME Inv, NEW r \in Session, Ready(r), NEW q \in Session \ {r}, Emptied(q)
    PROVE  tx[q].id # tx[r].id
<1>1. SUFFICES ASSUME tx[q].id = tx[r].id PROVE FALSE
  OBVIOUS
<1>2. CASE IsNew(r)
  BY <1>1, <1>2 DEF IsNew, Inv, Data, Secret
<1>3. CASE Rooted(r)
  <2>1. PICK n \in DOMAIN bucket : Holding(r, Lifecycle(n), "shared") /\ bucket[n] = tx[r].id
    BY <1>3 DEF Rooted
  <2>2. n = Call[q].bucket
    BY <2>1, <1>1 DEF Emptied, Inv, Data, BucketIds
  <2>3. Holding(q, Lifecycle(n), "exclusive")
    BY <2>2 DEF Emptied
  <2>4. Lifecycle(n)[1] = "bucket" /\ <<"shared", "exclusive">> \in Conflicting
    BY DEF Lifecycle, Conflicting
  <2> QED BY <2>1, <2>3, <2>4 DEF Holding, Inv, LockSafe
<1> QED BY <1>2, <1>3 DEF Ready

\* The others can rely on what they relied on.
LEMMA CommitKeeps ==
    ASSUME Inv, NEW r \in Session, CommitFrame(r), NEW q \in Session \ {r}
    PROVE  Keeps(q)
<1>1. /\ tx'[q].id = tx[q].id /\ tx'[q].src = tx[q].src /\ tx'[q].w = tx[q].w
      /\ (IsNew(q)' <=> IsNew(q))
      /\ \A a, m : Holding(q, a, m) => Holding(q, a, m)'
  BY OthersAre DEF CommitFrame
<1>2. Ready(q) => Ready(q)'
  <2>1. Rooted(q) => Rooted(q)'
    <3>1. SUFFICES ASSUME Rooted(q) PROVE Rooted(q)'
      OBVIOUS
    <3>2. PICK n \in DOMAIN bucket : Holding(q, Lifecycle(n), "shared") /\ bucket[n] = tx[q].id
      BY <3>1 DEF Rooted
    <3>3. n \in DOMAIN bucket' /\ bucket'[n] = bucket[n]
      BY <3>2, NameStays
    <3> QED BY <3>2, <3>3, <1>1 DEF Rooted, Lifecycle
  <2> QED BY <2>1, <1>1 DEF Ready
<1>3. \A k : HasKey(q, k) => HasKey(q, k)'
  BY <1>1 DEF HasKey, KeyLock
<1>4. HasUpload(q) => HasUpload(q)'
  BY <1>1 DEF HasUpload, UploadRow
<1>5. ASSUME NEW k, Checked(q, k) PROVE Checked(q, k)'
  <2>1. Call[q].op = "complete_upload" => HasUpload(q) /\ HasUpload(q)'
    BY <1>4, <1>5 DEF Checked
  <2>2. Call[q].op = "complete_upload" => upload'[Call[q].upload] = upload[Call[q].upload]
    BY <2>1, UploadStays DEF HasUpload
  <2>3. CreateOnly(q)' => CreateOnly(q)
    <3>1. CASE Call[q].op \in {"put", "copy"}
      BY <3>1 DEF CreateOnly
    <3>2. CASE Call[q].op = "complete_upload"
      BY <2>2, <3>2 DEF CreateOnly
    <3>3. CASE Call[q].op \notin {"put", "copy", "complete_upload"}
      BY <3>3 DEF CreateOnly
    <3> QED BY <3>1, <3>2, <3>3
  <2>4. ASSUME CreateOnly(q) PROVE HasKey(q, k)' /\ LiveLatest(tx[q].id, k)' = {}
    <3>1. HasKey(q, k) /\ LiveLatest(tx[q].id, k) = {}
      BY <1>5, <2>4 DEF Checked
    <3>2. PICK b : b = tx[q].id
      OBVIOUS
    <3>3. ~Mine(r, b, k)
      BY <3>1, <3>2, OneOwner
    <3>4. Agree(object, latest, object', latest', b, k)
      BY <3>3, CommitAgrees
    <3>5. \A v \in Versions(object', b, k) \cap latest' : object'[v].blob = {}
      BY <3>1, <3>2, <3>4 DEF LiveLatest, Agree
    <3>6. LiveLatest(tx[q].id, k)' = {v \in Versions(object', b, k) \cap latest' : object'[v].blob # {}}
      BY <1>1, <3>2 DEF LiveLatest, Versions
    <3> QED BY <3>1, <3>5, <3>6, <1>3
  <2> QED BY <2>1, <2>3, <2>4 DEF Checked
<1>6. HasSource(q) => HasSource(q)'
  <2>1. SUFFICES ASSUME HasSource(q), Call[q].op = "fork_bucket" PROVE HasSource(q)'
    BY DEF HasSource
  <2>2. /\ Call[q].source \in DOMAIN bucket /\ bucket[Call[q].source] = tx[q].src
        /\ Holding(q, Lifecycle(Call[q].source), "shared")
    BY <2>1 DEF HasSource
  <2>3. Call[q].source \in DOMAIN bucket' /\ bucket'[Call[q].source] = bucket[Call[q].source]
    BY <2>2, NameStays
  <2> QED BY <2>2, <2>3, <1>1 DEF HasSource, Lifecycle
<1>7. Emptied(q) => Emptied(q)'
  <2>1. SUFFICES ASSUME Emptied(q) PROVE Emptied(q)'
    OBVIOUS
  <2>2. /\ Call[q].bucket \in DOMAIN bucket /\ bucket[Call[q].bucket] = tx[q].id
        /\ Holding(q, Lifecycle(Call[q].bucket), "exclusive")
        /\ \A v \in DOMAIN object : object[v].bucket # tx[q].id
    BY <2>1 DEF Emptied
  <2>3. Call[q].bucket \in DOMAIN bucket' /\ bucket'[Call[q].bucket] = bucket[Call[q].bucket]
    BY <2>2, NameStays
  <2>4. ASSUME NEW v \in DOMAIN object' PROVE object'[v].bucket # tx[q].id
    <3>1. /\ UnderAs(object', object, tx[r].w)
          /\ \A x \in DOMAIN tx[r].w.rows : Mine(r, tx[r].w.rows[x].bucket, tx[r].w.rows[x].key)
      BY CommitRows
    <3>2. CASE v \in DOMAIN tx[r].w.rows
      <4>1. Ready(r) /\ object'[v].bucket = tx[r].id
        BY <3>1, <3>2 DEF Mine, UnderAs
      <4> QED BY <4>1, <2>1, DropExcludes
    <3>3. CASE v \notin DOMAIN tx[r].w.rows
      BY <3>1, <3>3, <2>2 DEF UnderAs
    <3> QED BY <3>2, <3>3
  <2> QED BY <2>2, <2>3, <2>4, <1>1 DEF Emptied, Lifecycle
<1>8. \A n : Holding(q, Lifecycle(n), "exclusive") => Holding(q, Lifecycle(n), "exclusive")'
  BY <1>1 DEF Lifecycle
<1>9. \A n : Holding(q, Lifecycle(n), "shared") => Holding(q, Lifecycle(n), "shared")'
  BY <1>1 DEF Lifecycle
<1>10. ASSUME NEW f, Holds(q, f) PROVE Holds(q, f)'
  BY <1>2, <1>3, <1>4, <1>5, <1>6, <1>7, <1>8, <1>9, <1>10 DEF Holds
<1> QED BY <1>10 DEF Keeps

\* What the others know about themselves after another COMMIT.
LEMMA CommitOthers ==
    ASSUME Inv, NEW r \in Session, CommitFrame(r), NEW q \in Session \ {r}
    PROVE  /\ tx'[q].state = tx[q].state /\ tx'[q].id = tx[q].id /\ tx'[q].src = tx[q].src
           /\ tx'[q].shot = tx[q].shot /\ tx'[q].w = tx[q].w
           /\ NewIds(q)' = NewIds(q) /\ (IsNew(q)' <=> IsNew(q))
           /\ \A a, m : Holding(q, a, m) => Holding(q, a, m)'
           /\ \A b, k : Mine(q, b, k) => Mine(q, b, k)'
           /\ \A k : Checked(q, k) => Checked(q, k)'
           /\ (HasSource(q) => HasSource(q)') /\ (Emptied(q) => Emptied(q)')
<1>1. /\ tx'[q].state = tx[q].state /\ tx'[q].id = tx[q].id /\ tx'[q].src = tx[q].src
      /\ tx'[q].shot = tx[q].shot /\ tx'[q].w = tx[q].w
      /\ NewIds(q)' = NewIds(q) /\ (IsNew(q)' <=> IsNew(q))
      /\ \A a, m : Holding(q, a, m) => Holding(q, a, m)'
  BY OthersAre DEF CommitFrame
<1>2. Keeps(q)
  BY CommitKeeps
<1>3. \A b, k : Mine(q, b, k) => Mine(q, b, k)'
  BY <1>1, <1>2, KeepsMine
<1> QED BY <1>1, <1>2, <1>3, KeepsChecked

\* Bucket ids after COMMIT.
LEMMA CommitBucketIds ==
    ASSUME Inv, NEW r \in Session, CommitFrame(r)
    PROVE  BucketIds' /\ Ids' = Ids
<1>1. bucketSeq' = bucketSeq /\ BucketIds
  BY DEF CommitFrame, Inv, Data
<1>2. Ids' = Ids
  BY <1>1 DEF Ids
<1>3. /\ bucket' = [n \in DOMAIN bucket' |-> bucket'[n]]
      /\ DOMAIN bucket' = (DOMAIN bucket \ tx[r].w.unnamed) \cup DOMAIN tx[r].w.named
      /\ \A n \in DOMAIN tx[r].w.named : bucket'[n] = tx[r].id
      /\ \A n \in DOMAIN bucket \ tx[r].w.unnamed : bucket'[n] = bucket[n]
  BY CommitNames
<1>4. \A n \in DOMAIN tx[r].w.named :
        /\ Call[r].op \in Creating /\ n = Call[r].bucket /\ tx[r].w.named[n] = tx[r].id
        /\ tx[r].id \in NewIds(r) /\ n \in Name
  <2>1. \A n \in DOMAIN tx[r].w.named :
            Call[r].op \in Creating /\ n = Call[r].bucket /\ tx[r].w.named[n] = tx[r].id
    BY DEF Inv, Named
  <2>2. Call[r].op \in Creating => Call[r].bucket \in Name
    BY CallAssumption DEF Creating
  <2>3. \A n \in DOMAIN tx[r].w.named : tx[r].w.named[n] \in NewIds(r)
    BY DEF NewIds, Range
  <2> QED BY <2>1, <2>2, <2>3
<1>5. DOMAIN bucket' \subseteq Name
  BY <1>1, <1>3, <1>4 DEF BucketIds
<1>6. \A n \in DOMAIN bucket' : bucket'[n] \in Ids
  BY <1>1, <1>3, <1>4 DEF BucketIds
<1>7. \A b \in NewIds(r) : \A n \in DOMAIN bucket : bucket[n] # b
  BY DEF Inv, Data, Secret
<1>8. ASSUME NEW n \in DOMAIN bucket', NEW m \in DOMAIN bucket', bucket'[n] = bucket'[m] PROVE n = m
  <2>1. CASE n \in DOMAIN tx[r].w.named /\ m \in DOMAIN tx[r].w.named
    BY <2>1, <1>4
  <2>2. CASE n \in DOMAIN tx[r].w.named /\ m \notin DOMAIN tx[r].w.named
    BY <2>2, <1>3, <1>4, <1>7, <1>8
  <2>3. CASE n \notin DOMAIN tx[r].w.named /\ m \in DOMAIN tx[r].w.named
    BY <2>3, <1>3, <1>4, <1>7, <1>8
  <2>4. CASE n \notin DOMAIN tx[r].w.named /\ m \notin DOMAIN tx[r].w.named
    BY <2>4, <1>1, <1>3, <1>8 DEF BucketIds
  <2> QED BY <2>1, <2>2, <2>3, <2>4
<1>9. ASSUME NEW v \in DOMAIN object' PROVE object'[v].bucket \in Ids
  <2>1. /\ UnderAs(object', object, tx[r].w)
        /\ \A x \in DOMAIN tx[r].w.rows : Mine(r, tx[r].w.rows[x].bucket, tx[r].w.rows[x].key)
    BY CommitRows
  <2>2. CASE v \in DOMAIN tx[r].w.rows
    <3>1. object'[v].bucket = tx[r].id /\ Ready(r)
      BY <2>1, <2>2 DEF UnderAs, Mine
    <3>2. Holds(r, Ready0)
      BY <3>1 DEF Holds, Ready0
    <3> QED BY <3>1, <3>2, ReadyId
  <2>3. CASE v \notin DOMAIN tx[r].w.rows
    BY <2>1, <2>3, <1>1 DEF UnderAs, BucketIds
  <2> QED BY <2>2, <2>3
<1>10. ASSUME NEW u \in DOMAIN upload' PROVE upload'[u].bucket \in Ids
  <2>1. CASE u \in DOMAIN tx[r].w.staged
    <3>1. upload'[u] = tx[r].w.staged[u]
      BY <2>1, CommitUploads
    <3> QED BY <2>1, <3>1 DEF Inv, Uploads, UploadsAt
  <2>2. CASE u \notin DOMAIN tx[r].w.staged
    <3>1. u \in DOMAIN upload /\ upload'[u] = upload[u]
      BY <2>2, CommitUploads
    <3> QED BY <3>1, <1>1 DEF BucketIds
  <2> QED BY <2>1, <2>2
<1>11. ASSUME NEW q \in Session
       PROVE  /\ tx'[q].id \in Ids \cup {0} /\ tx'[q].src \in Ids \cup {0}
              /\ NewIds(q)' \subseteq Ids \cap {tx'[q].id}
  <2>1. CASE q = r
    BY <2>1, EndedIs DEF CommitFrame
  <2>2. CASE q # r
    BY <2>2, <1>1, CommitOthers DEF BucketIds
  <2> QED BY <2>1, <2>2
<1>12. BucketIds'
  BY <1>1, <1>2, <1>3, <1>5, <1>6, <1>8, <1>9, <1>10, <1>11 DEF BucketIds
<1> QED BY <1>2, <1>12

\* New bucket ids of the others stay theirs.
LEMMA CommitSecret ==
    ASSUME Inv, NEW r \in Session, CommitFrame(r)
    PROVE  Secret'
<1>1. ASSUME NEW q \in Session, NEW b \in NewIds(q)'
      PROVE  /\ \A n \in DOMAIN bucket' : bucket'[n] # b
             /\ \A v \in DOMAIN object' : object'[v].bucket # b
             /\ \A u \in DOMAIN upload' : upload'[u].bucket # b
             /\ \A p \in Session \ {q} : tx'[p].id # b
  <2>1. q # r
    BY <1>1, EndedIs DEF CommitFrame
  <2>2. b \in NewIds(q) /\ b \in Ids
    BY <1>1, <2>1, CommitOthers DEF Inv, Data, BucketIds
  <2>3. /\ \A n \in DOMAIN bucket : bucket[n] # b
        /\ \A v \in DOMAIN object : object[v].bucket # b
        /\ \A u \in DOMAIN upload : upload[u].bucket # b
        /\ \A p \in Session \ {q} : tx[p].id # b
        /\ tx[r].id # b /\ b # 0
    BY <2>1, <2>2 DEF Inv, Data, Secret, Ids
  <2>4. ASSUME NEW n \in DOMAIN bucket' PROVE bucket'[n] # b
    BY <2>3, CommitNames
  <2>5. ASSUME NEW v \in DOMAIN object' PROVE object'[v].bucket # b
    <3>1. /\ UnderAs(object', object, tx[r].w)
          /\ \A x \in DOMAIN tx[r].w.rows : Mine(r, tx[r].w.rows[x].bucket, tx[r].w.rows[x].key)
      BY CommitRows
    <3> QED BY <2>3, <3>1 DEF UnderAs, Mine
  <2>6. ASSUME NEW u \in DOMAIN upload' PROVE upload'[u].bucket # b
    <3>1. CASE u \in DOMAIN tx[r].w.staged
      <4>1. upload'[u] = tx[r].w.staged[u]
        BY <3>1, CommitUploads
      <4> QED BY <2>1, <2>2, <3>1, <4>1 DEF Inv, Uploads, UploadsAt
    <3>2. CASE u \notin DOMAIN tx[r].w.staged
      <4>1. u \in DOMAIN upload /\ upload'[u] = upload[u]
        BY <3>2, CommitUploads
      <4> QED BY <4>1, <2>3
    <3> QED BY <3>1, <3>2
  <2>7. ASSUME NEW p \in Session \ {q} PROVE tx'[p].id # b
    <3>1. CASE p = r
      BY <3>1, <2>3, EndedIs DEF CommitFrame
    <3>2. CASE p # r
      BY <3>2, <2>3, CommitOthers
    <3> QED BY <3>1, <3>2
  <2> QED BY <2>4, <2>5, <2>6, <2>7
<1> QED BY <1>1 DEF Secret

\* Version ids after COMMIT.
LEMMA CommitVersionIds ==
    ASSUME Inv, NEW r \in Session, CommitFrame(r)
    PROVE  VersionIds'
<1>1. UNCHANGED versionSeq /\ VersionIds
  BY DEF CommitFrame, Inv, Data
<1>2. UnderAs(object', object, tx[r].w) /\ latest' \subseteq DOMAIN object'
  BY CommitRows
<1>3. DOMAIN object' = (DOMAIN object \ tx[r].w.gone) \cup DOMAIN tx[r].w.rows
      /\ object' = [v \in DOMAIN object' |-> object'[v]]
  BY <1>2 DEF UnderAs
<1>4. \A q \in Session : DOMAIN tx[q].w.rows \subseteq Changed(tx[q].w)
  BY DEF Changed
<1>5. PICK ids : ids = 1 .. versionSeq - 1
  OBVIOUS
<1>6. /\ DOMAIN object \subseteq ids
      /\ \A q \in Session :
            /\ tx[q].w.rows = [v \in DOMAIN tx[q].w.rows |-> tx[q].w.rows[v]]
            /\ Changed(tx[q].w) \subseteq ids
            /\ DOMAIN tx[q].w.rows \cap DOMAIN object = {}
            /\ \A p \in Session \ {q} : Changed(tx[q].w) \cap DOMAIN tx[p].w.rows = {}
  BY <1>1, <1>5 DEF VersionIds
<1>7. DOMAIN object' \subseteq ids
  BY <1>3, <1>4, <1>6
<1>8. Changed(NoWrites) = {} /\ DOMAIN NoWrites.rows = {} /\ NoWrites.rows = [x \in {} |-> NoWrites.rows[x]]
  BY NoWritesIs
<1>9. tx'[r].w = NoWrites
  BY EndedIs DEF CommitFrame
<1>10. \A q \in Session \ {r} : tx'[q].w = tx[q].w
  BY CommitOthers
<1>11. ASSUME NEW q \in Session
       PROVE  /\ tx'[q].w.rows = [v \in DOMAIN tx'[q].w.rows |-> tx'[q].w.rows[v]]
              /\ Changed(tx'[q].w) \subseteq ids
              /\ DOMAIN tx'[q].w.rows \cap DOMAIN object' = {}
              /\ \A p \in Session \ {q} : Changed(tx'[q].w) \cap DOMAIN tx'[p].w.rows = {}
  <2>1. CASE q = r
    BY <2>1, <1>8, <1>9
  <2>2. CASE q # r
    <3>1. tx'[q].w = tx[q].w
          /\ \A p \in Session \ {q} : tx'[p].w.rows = tx[p].w.rows \/ DOMAIN tx'[p].w.rows = {}
      BY <2>2, <1>8, <1>9, <1>10
    <3>2. DOMAIN tx[q].w.rows \cap DOMAIN tx[r].w.rows = {}
      BY <2>2, <1>4, <1>6
    <3>3. DOMAIN tx[q].w.rows \cap DOMAIN object' = {}
      BY <3>2, <1>3, <1>6
    <3> QED BY <3>1, <3>3, <1>6
  <2> QED BY <2>1, <2>2
<1>12. \A q \in Session : Changed(tx[q].w)' = Changed(tx'[q].w)
  BY DEF Changed
<1> QED BY <1>1, <1>2, <1>3, <1>5, <1>7, <1>11, <1>12 DEF VersionIds

\* The others still write their own keys only.
LEMMA CommitOwnKeys ==
    ASSUME Inv, NEW r \in Session, CommitFrame(r)
    PROVE  OwnKeys'
<1>1. UnderAs(object', object, tx[r].w)
  BY CommitRows
<1>2. ASSUME NEW q \in Session, q # r PROVE OwnKeysAt(q)'
  <2>1. tx'[q].w = tx[q].w /\ \A b, k : Mine(q, b, k) => Mine(q, b, k)'
    BY <1>2, CommitOthers
  <2>2. OwnKeysAt(q) /\ Changed(tx[q].w) \cap DOMAIN tx[r].w.rows = {}
    BY <1>2 DEF Inv, Data, OwnKeys, OwnKeysAt, VersionIds
  <2>3. ASSUME NEW v \in (tx[q].w.gone \cup tx[q].w.cleared \cup tx[q].w.made) \cap DOMAIN object'
        PROVE  Mine(q, object[v].bucket, object[v].key)'
    <3>1. v \in Changed(tx[q].w)
      BY DEF Changed
    <3>2. v \in DOMAIN object /\ object'[v] = object[v]
      BY <3>1, <2>2, <1>1 DEF UnderAs
    <3>3. PICK b, k : b = object[v].bucket /\ k = object[v].key
      OBVIOUS
    <3>4. Mine(q, b, k)'
      BY <2>1, <2>2, <3>2, <3>3 DEF OwnKeysAt
    <3> QED BY <3>2, <3>3, <3>4
  <2>4. \A v \in DOMAIN tx[q].w.rows : Mine(q, tx[q].w.rows[v].bucket, tx[q].w.rows[v].key)
    BY <2>2 DEF OwnKeysAt
  <2>5. PICK w : w = tx[q].w
    OBVIOUS
  <2>6. \A v \in DOMAIN w.rows : Mine(q, w.rows[v].bucket, w.rows[v].key)'
    BY <2>1, <2>4, <2>5
  <2> QED BY <2>1, <2>3, <2>5, <2>6 DEF OwnKeysAt
<1>3. OwnKeysAt(r)'
  BY EndedAt DEF CommitFrame
<1> QED BY <1>2, <1>3 DEF OwnKeys, OwnKeysAt

\* What another session sees is made of what is committed now and of its own writes.
LEMMA CommitSees ==
    ASSUME Inv, NEW r \in Session, CommitFrame(r), NEW q \in Session \ {r}
    PROVE  Rows(q)' = RowsUnder(object', tx[q].w) /\ Flags(q)' = FlagsUnder(latest', tx[q].w)
<1>1. tx'[q].w = tx[q].w
  BY CommitOthers
<1>2. Rows(q)' = Merge(Restrict(object', DOMAIN object' \ tx[q].w.gone), tx[q].w.rows)
  BY <1>1 DEF Rows
<1>3. Flags(q)' = (latest' \ (tx[q].w.cleared \cup tx[q].w.gone)) \cup tx[q].w.made
  BY <1>1 DEF Flags
<1> QED BY <1>2, <1>3 DEF RowsUnder, FlagsUnder

\* What the others write is still about keys of their own.
LEMMA CommitOwn ==
    ASSUME Inv, NEW r \in Session, CommitFrame(r), NEW q \in Session \ {r},
           NEW v \in (tx[q].w.gone \cup tx[q].w.cleared \cup tx[q].w.made) \cap DOMAIN object'
    PROVE  v \in DOMAIN object /\ object'[v] = object[v] /\ Mine(q, object[v].bucket, object[v].key)
<1>1. UnderAs(object', object, tx[r].w)
  BY CommitRows
<1>2. Changed(tx[q].w) \cap DOMAIN tx[r].w.rows = {} /\ v \in Changed(tx[q].w)
  BY DEF Inv, Data, VersionIds, Changed
<1>3. v \in DOMAIN object /\ object'[v] = object[v]
  BY <1>1, <1>2 DEF UnderAs
<1>4. OwnKeysAt(q)
  BY DEF Inv, Data, OwnKeys, OwnKeysAt
<1> QED BY <1>3, <1>4 DEF OwnKeysAt

\* The newest row of every key is the latest one, for everybody, after COMMIT.
LEMMA CommitViews ==
    ASSUME Inv, NEW r \in Session, CommitFrame(r)
    PROVE  Views'
<1>1. /\ UnderAs(object', object, tx[r].w) /\ NewestIn(object', latest') /\ latest' \subseteq DOMAIN object'
  BY CommitRows
<1>2. VersionIds' /\ VersionIds
  BY CommitVersionIds DEF Inv, Data
<1>3. ASSUME NEW q \in Session \ {r} PROVE NewestIn(Rows(q)', Flags(q)')
  <2>1. PICK o, l, p, m, w : o = object /\ l = latest /\ p = object' /\ m = latest' /\ w = tx[q].w
    OBVIOUS
  <2>2. /\ DOMAIN w.rows \cap DOMAIN o = {} /\ DOMAIN w.rows \cap DOMAIN p = {}
        /\ l \subseteq DOMAIN o /\ m \subseteq DOMAIN p
    <3>1. tx'[q].w = tx[q].w
      BY CommitOthers
    <3> QED BY <3>1, <1>2, <2>1 DEF VersionIds
  <2>3. Rows(q)' = RowsUnder(p, w) /\ Flags(q)' = FlagsUnder(m, w)
    BY <2>1, CommitSees
  <2>4. Rows(q) = RowsUnder(o, w) /\ Flags(q) = FlagsUnder(l, w)
    BY <2>1 DEF Rows, Flags, RowsUnder, FlagsUnder
  <2>5. NewestIn(RowsUnder(o, w), FlagsUnder(l, w))
    BY <2>4 DEF Inv, Data, Views
  <2>6. ASSUME NEW b, NEW k PROVE NewestAt(RowsUnder(p, w), FlagsUnder(m, w), b, k)
    <3>1. CASE ~Mine(r, b, k)
      <4>1. Agree(o, l, p, m, b, k)
        BY <3>1, <2>1, CommitAgrees
      <4>2. Agree(RowsUnder(o, w), FlagsUnder(l, w), RowsUnder(p, w), FlagsUnder(m, w), b, k)
        BY <4>1, <2>2, AgreeUnder
      <4>3. NewestAt(RowsUnder(o, w), FlagsUnder(l, w), b, k)
        BY <2>5, NewestByKey
      <4> QED BY <4>2, <4>3, NewestAgrees
    <3>2. CASE Mine(r, b, k)
      <4>1. ~Mine(q, b, k)
        BY <3>2, OneOwner
      <4>2. \A v \in DOMAIN w.rows : ~(w.rows[v].bucket = b /\ w.rows[v].key = k)
        <5>1. OwnKeysAt(q)
          BY DEF Inv, Data, OwnKeys, OwnKeysAt
        <5> QED BY <5>1, <4>1, <2>1 DEF OwnKeysAt
      <4>3. \A v \in (w.gone \cup w.cleared \cup w.made) \cap DOMAIN p :
                ~(p[v].bucket = b /\ p[v].key = k)
        BY <4>1, <2>1, CommitOwn
      <4>4. Agree(p, m, RowsUnder(p, w), FlagsUnder(m, w), b, k)
        BY <4>2, <4>3, <2>2, UnderAgrees
      <4>5. NewestAt(p, m, b, k)
        BY <1>1, <2>1, NewestByKey
      <4> QED BY <4>4, <4>5, NewestAgrees
    <3> QED BY <3>1, <3>2
  <2>7. FlagsUnder(m, w) \subseteq DOMAIN RowsUnder(p, w)
    <3>1. PICK P, O : P = RowsUnder(p, w) /\ O = RowsUnder(o, w)
      OBVIOUS
    <3>2. UnderAs(P, p, w) /\ UnderAs(O, o, w)
      BY <3>1, <2>2, UnderIs
    <3>3. /\ DOMAIN P = (DOMAIN p \ w.gone) \cup DOMAIN w.rows
          /\ DOMAIN O = (DOMAIN o \ w.gone) \cup DOMAIN w.rows
          /\ DOMAIN p = (DOMAIN o \ tx[r].w.gone) \cup DOMAIN tx[r].w.rows
      BY <3>2, <1>1, <2>1 DEF UnderAs
    <3>4. FlagsUnder(l, w) \subseteq DOMAIN O
      BY <3>1, <2>5 DEF NewestIn
    <3>5. ASSUME NEW v \in w.made PROVE v \in DOMAIN P
      <4>1. v \in DOMAIN O
        BY <3>4 DEF FlagsUnder
      <4>2. CASE v \in DOMAIN w.rows
        BY <4>2, <3>3
      <4>3. CASE v \notin DOMAIN w.rows
        <5>1. v \in DOMAIN o /\ v \notin w.gone
          BY <4>1, <4>3, <3>3
        <5>2. OwnKeysAt(q) /\ OwnKeysAt(r)
          BY DEF Inv, Data, OwnKeys, OwnKeysAt
        <5>3. Mine(q, object[v].bucket, object[v].key)
          BY <5>1, <5>2, <2>1 DEF OwnKeysAt
        <5>4. ~Mine(r, object[v].bucket, object[v].key)
          BY <5>3, OneOwner
        <5>5. v \notin tx[r].w.gone
          BY <5>1, <5>2, <5>4, <2>1 DEF OwnKeysAt
        <5> QED BY <5>1, <5>5, <3>3
      <4> QED BY <4>2, <4>3
    <3>6. ASSUME NEW v \in m, v \notin w.gone PROVE v \in DOMAIN P
      BY <3>6, <2>2, <3>3
    <3> QED BY <3>1, <3>5, <3>6 DEF FlagsUnder
  <2> QED BY <2>3, <2>6, <2>7, NewestByKey
<1>4. NewestIn(Rows(r)', Flags(r)')
  <2>1. object' = [v \in DOMAIN object' |-> object'[v]]
    BY <1>1 DEF UnderAs
  <2>2. Rows(r)' = object' /\ Flags(r)' = latest'
    BY <2>1, EndedAt, BareView DEF CommitFrame
  <2> QED BY <2>2, <1>1
<1>5. \A q \in Session : NewestIn(Rows(q)', Flags(q)')
  BY <1>3, <1>4
<1>6. \A q \in Session : NewestIn(Rows(q)', Flags(q)') <=> NewestIn(Rows(q), Flags(q))'
  BY DEF NewestIn, Versions
<1>7. NewestIn(object, latest)'
  BY <1>1 DEF NewestIn, Versions
<1> QED BY <1>5, <1>6, <1>7 DEF Views

\* What the others add is still above what is committed, and checked.
LEMMA CommitFresh ==
    ASSUME Inv, NEW r \in Session, CommitFrame(r)
    PROVE  Fresh'
<1>1. ASSUME NEW q \in Session \ {r} PROVE FreshAt(q)'
  <2>1. tx'[q].w = tx[q].w /\ \A k : Checked(q, k) => Checked(q, k)'
    BY CommitOthers
  <2>2. PICK w : w = tx[q].w
    OBVIOUS
  <2>3. ASSUME NEW v \in DOMAIN w.rows
        PROVE  /\ \A x \in Versions(object', w.rows[v].bucket, w.rows[v].key) : x < v
               /\ Checked(q, w.rows[v].key)'
    <3>1. PICK b, k : b = w.rows[v].bucket /\ k = w.rows[v].key
      OBVIOUS
    <3>2. Mine(q, b, k)
      BY <2>2, <3>1 DEF Inv, Data, OwnKeys, OwnKeysAt
    <3>3. ~Mine(r, b, k)
      BY <3>2, OneOwner
    <3>4. Versions(object', b, k) = Versions(object, b, k)
      BY <3>3, CommitAgrees DEF Agree
    <3>5. (\A x \in Versions(object, b, k) : x < v) /\ Checked(q, k)
      BY <2>2, <3>1 DEF Inv, Data, Fresh, FreshAt
    <3>6. Checked(q, k)'
      BY <2>1, <3>5
    <3> QED BY <3>1, <3>4, <3>5, <3>6
  <2>4. \A v \in DOMAIN w.rows : \A x \in Versions(object, w.rows[v].bucket, w.rows[v].key)' : x < v
    BY <2>3 DEF Versions
  <2> QED BY <2>1, <2>2, <2>3, <2>4 DEF FreshAt
<1>2. FreshAt(r)'
  BY EndedAt DEF CommitFrame
<1> QED BY <1>1, <1>2 DEF Fresh, FreshAt

\* What the calls of the others write is what they may write.
LEMMA CommitByCall ==
    ASSUME Inv, NEW r \in Session, CommitFrame(r)
    PROVE  ByCall'
<1>1. ASSUME NEW q \in Session \ {r} PROVE ByCallAt(q)'
  <2>1. tx'[q].w = tx[q].w /\ (IsNew(q)' <=> IsNew(q))
    BY CommitOthers
  <2>2. ByCallAt(q)
    BY DEF Inv, Data, ByCall, ByCallAt
  <2> QED BY <2>1, <2>2 DEF ByCallAt
<1>2. ByCallAt(r)'
  BY EndedAt DEF CommitFrame
<1> QED BY <1>1, <1>2 DEF ByCall, ByCallAt

\* Other forks are what they have read.
LEMMA CommitForks ==
    ASSUME Inv, NEW r \in Session, CommitFrame(r)
    PROVE  Forks'
<1>1. ASSUME NEW q \in Session \ {r} PROVE ForksAt(q)'
  <2>1. /\ tx'[q].w = tx[q].w /\ tx'[q].shot = tx[q].shot /\ tx'[q].src = tx[q].src
        /\ (HasSource(q) => HasSource(q)')
    BY CommitOthers
  <2>2. ForksAt(q)
    BY DEF Inv, Data, Forks, ForksAt
  <2>3. Copy(tx[q].w)' = Copy(tx[q].w)
    BY <2>1 DEF Copy
  <2> QED BY <2>1, <2>2, <2>3 DEF ForksAt
<1>2. ForksAt(r)'
  BY EndedAt DEF CommitFrame
<1> QED BY <1>1, <1>2 DEF Forks, ForksAt

\* Names still change under the exclusive lifecycle lock only.
LEMMA CommitNamed ==
    ASSUME Inv, NEW r \in Session, CommitFrame(r)
    PROVE  Named'
<1>1. /\ NoWrites.named = [n \in DOMAIN NoWrites.named |-> NoWrites.named[n]]
      /\ DOMAIN NoWrites.named = {} /\ NoWrites.unnamed = {}
  BY NoWritesIs
<1>2. tx'[r].w = NoWrites
  BY EndedIs DEF CommitFrame
<1>3. Named
  BY DEF Inv
<1>4. ASSUME NEW q \in Session \ {r}, NEW n \in DOMAIN tx[q].w.named PROVE n \notin DOMAIN bucket'
  <2>1. n \notin DOMAIN bucket /\ Holding(q, Lifecycle(n), "exclusive")
    BY <1>3 DEF Named
  <2>2. ASSUME n \in DOMAIN tx[r].w.named PROVE FALSE
    <3>1. Holding(r, Lifecycle(n), "exclusive")
      BY <2>2, <1>3 DEF Named
    <3>2. Lifecycle(n)[1] = "bucket" /\ <<"exclusive", "exclusive">> \in Conflicting
      BY DEF Lifecycle, Conflicting
    <3> QED BY <2>1, <3>1, <3>2 DEF Holding, Inv, LockSafe
  <2> QED BY <2>1, <2>2, CommitNames
<1>5. ASSUME NEW q \in Session \ {r}
      PROVE  /\ tx'[q].w = tx[q].w /\ tx'[q].id = tx[q].id /\ (Emptied(q) => Emptied(q)')
             /\ \A n : Holding(q, Lifecycle(n), "exclusive") => Holding(q, Lifecycle(n), "exclusive")'
  BY CommitOthers DEF Lifecycle
<1> QED BY <1>1, <1>2, <1>3, <1>4, <1>5 DEF Named

\* Upload rows still change under their lock only, and no new id is taken.
LEMMA CommitUploadsKept ==
    ASSUME Inv, NEW r \in Session, CommitFrame(r), tx[r].state = "open"
    PROVE  Uploads'
<1>1. /\ upload' = [u \in DOMAIN upload' |-> upload'[u]]
      /\ DOMAIN upload' = (DOMAIN upload \cup DOMAIN tx[r].w.staged) \ tx[r].w.dropped
  BY CommitUploads
<1>2. Ids' = Ids
  BY CommitBucketIds
<1>3. ASSUME NEW q \in Session \ {r} PROVE UploadsAt(q)'
  <2>1. /\ tx'[q].w = tx[q].w /\ tx'[q].state = tx[q].state
        /\ \A a, m : Holding(q, a, m) => Holding(q, a, m)'
    BY CommitOthers
  <2>2. UploadsAt(q) /\ UploadsAt(r)
    BY DEF Inv, Uploads, UploadsAt
  <2>3. \A u : Holding(q, UploadRow(u), "update") => Holding(q, UploadRow(u), "update")'
    BY <2>1 DEF UploadRow
  <2>4. \A p \in Session \ {q} : NewIds(p)' \subseteq NewIds(p)
    BY CommitOthers, EndedIs DEF CommitFrame
  <2>5. ASSUME Call[q].op = "begin_upload", tx[q].state = "open" PROVE Call[q].upload \notin DOMAIN upload'
    <3>1. Call[q].upload \notin DOMAIN upload
      BY <2>2, <2>5 DEF UploadsAt
    <3>2. ASSUME Call[q].upload \in DOMAIN tx[r].w.staged PROVE FALSE
      <4>1. CASE Holding(r, UploadRow(Call[q].upload), "update")
        <5>1. UploadRow(Call[q].upload)[1] = "upload" /\ UploadRow(Call[q].upload)[2] = Call[q].upload
          BY DEF UploadRow
        <5> QED BY <4>1, <5>1, <3>1 DEF Holding, Inv, Uploads
      <4>2. CASE Call[r].op = "begin_upload" /\ Call[q].upload = Call[r].upload
        BY <4>2, <2>5, UploadAssumption
      <4> QED BY <4>1, <4>2, <3>2, <2>2 DEF UploadsAt
    <3> QED BY <3>1, <3>2, <1>1
  <2> QED BY <2>1, <2>2, <2>3, <2>4, <2>5, <1>2 DEF UploadsAt
<1>4. UploadsAt(r)'
  BY EndedAt DEF CommitFrame
<1>5. ASSUME NEW h \in held', h[2][1] = "upload"
      PROVE  h[2][2] \in DOMAIN upload' /\ h[2] = UploadRow(h[2][2])
  <2>1. h \in held /\ h[1] # r /\ h[1] \in Session
    BY DEF CommitFrame, EndFrame, Released, Inv, LockSafe
  <2>2. h[3] = "update" /\ h[2][2] \in DOMAIN upload /\ h[2] = UploadRow(h[2][2])
    BY <2>1, <1>5 DEF Inv, LockSafe, Uploads
  <2>3. ASSUME h[2][2] \in tx[r].w.dropped PROVE FALSE
    <3>1. UploadsAt(r)
      BY DEF Inv, Uploads, UploadsAt
    <3>2. PICK g : g = <<r, UploadRow(h[2][2]), "update">>
      OBVIOUS
    <3>3. g \in held /\ g[1] = r /\ g[2] = UploadRow(h[2][2]) /\ g[3] = "update"
      BY <2>3, <3>1, <3>2 DEF UploadsAt, Holding
    <3>4. g[2][1] # "blob" /\ <<"update", "update">> \in Conflicting
      BY <3>3, <2>2, <1>5 DEF Conflicting
    <3> QED BY <3>3, <3>4, <2>1, <2>2 DEF Inv, LockSafe
  <2> QED BY <2>2, <2>3, <1>1
<1> QED BY <1>1, <1>3, <1>4, <1>5 DEF Uploads, UploadsAt

\* Finitely many rows, after COMMIT.
LEMMA CommitFinite ==
    ASSUME Inv, NEW r \in Session, CommitFrame(r)
    PROVE  Finite'
<1>1. IsFiniteSet(NoWrites.born) /\ IsFiniteSet(DOMAIN NoWrites.staged)
  BY NoWritesIs, FS_EmptySet
<1>2. ASSUME NEW S, NEW T, NEW U, IsFiniteSet(S), IsFiniteSet(T), U \subseteq S \cup T PROVE IsFiniteSet(U)
  <2>1. IsFiniteSet(S \cup T)
    BY <1>2, FS_Union
  <2> QED BY <1>2, <2>1, FS_Subset
<1>3. /\ IsFiniteSet(DOMAIN blob) /\ IsFiniteSet(DOMAIN upload)
      /\ \A q \in Session : IsFiniteSet(tx[q].w.born) /\ IsFiniteSet(DOMAIN tx[q].w.staged)
  BY DEF Inv, Finite
<1>4. DOMAIN blob' \subseteq DOMAIN blob \cup tx[r].w.born
  BY DEF CommitFrame
<1>5. DOMAIN upload' \subseteq DOMAIN upload \cup DOMAIN tx[r].w.staged
  BY CommitUploads
<1>6. IsFiniteSet(DOMAIN blob')
  BY <1>2, <1>3, <1>4
<1>7. IsFiniteSet(DOMAIN upload')
  BY <1>2, <1>3, <1>5
<1>8. tx'[r].w = NoWrites
  BY EndedIs DEF CommitFrame
<1>9. \A q \in Session \ {r} : tx'[q].w = tx[q].w
  BY CommitOthers
<1> QED BY <1>1, <1>3, <1>6, <1>7, <1>8, <1>9 DEF Finite

\* COMMIT preserves the invariant.
LEMMA CommitStep ==
    ASSUME Inv, NEW r \in Session, Commit(r)
    PROVE  Inv'
<1>1. CommitFrame(r) /\ EndFrame(r) /\ tx[r].state = "open"
  BY CommitIs DEF CommitFrame
<1>2. \A q \in Session : q # r => Keeps(q)
  BY <1>1, CommitKeeps
<1>3. Todos' /\ Formed' /\ LockSafe'
  BY <1>1, <1>2, EndTodos, EndFormed
<1>4. BucketIds' /\ Secret' /\ VersionIds' /\ OwnKeys'
  BY <1>1, CommitBucketIds, CommitSecret, CommitVersionIds, CommitOwnKeys
<1>5. Views' /\ Fresh' /\ ByCall' /\ Forks'
  BY <1>1, CommitViews, CommitFresh, CommitByCall, CommitForks
<1>6. Named' /\ Uploads' /\ Finite'
  BY <1>1, CommitNamed, CommitUploadsKept, CommitFinite
<1> QED BY <1>3, <1>4, <1>5, <1>6 DEF Inv, Data

\* The invariant depends on the variables only.
LEMMA InvSame ==
    ASSUME Inv, UNCHANGED vars
    PROVE  Inv'
<1>1. UNCHANGED <<bucket, object, latest, blob, upload, versionSeq, bucketSeq, tx, held>>
  BY DEF vars, tables, sequences
<1>2. /\ \A r, a, m : Holding(r, a, m)' <=> Holding(r, a, m)
      /\ \A r : NewIds(r)' = NewIds(r)
      /\ \A b, k : LiveLatest(b, k)' = LiveLatest(b, k)
      /\ Ids' = Ids
  BY <1>1 DEF Holding, NewIds, LiveLatest, Versions, Ids
<1>3. /\ \A r : Rooted(r)' <=> Rooted(r)
      /\ \A r : IsNew(r)' <=> IsNew(r)
      /\ \A r, k : HasKey(r, k)' <=> HasKey(r, k)
      /\ \A r : HasUpload(r)' <=> HasUpload(r)
      /\ \A r : HasSource(r)' <=> HasSource(r)
      /\ \A r : Emptied(r)' <=> Emptied(r)
      /\ \A r : CreateOnly(r)' <=> CreateOnly(r)
  BY <1>1, <1>2 DEF Rooted, IsNew, HasKey, HasUpload, HasSource, Emptied, CreateOnly, Lifecycle, KeyLock, UploadRow
<1>4. /\ \A r : Ready(r)' <=> Ready(r)
      /\ \A r, k : Checked(r, k)' <=> Checked(r, k)
      /\ \A r, b, k : Mine(r, b, k)' <=> Mine(r, b, k)
  BY <1>1, <1>2, <1>3 DEF Ready, Checked, Mine
<1>5. \A r, f : Holds(r, f)' <=> Holds(r, f)
  BY <1>2, <1>3, <1>4 DEF Holds, Lifecycle
<1>6. Formed' /\ LockSafe'
  BY <1>1 DEF Inv, Formed, LockSafe
<1>7. Todos'
  <2>1. Suited' /\ Settling' /\ Once' /\ WillRead'
    BY <1>1 DEF Inv, Todos, Suited, Settling, Once, WillRead, SuitedAt, SettlingAt, OnceAt, WillReadAt
  <2>2. Prepared'
    BY <1>1, <1>5 DEF Inv, Todos, Prepared, PreparedAt
  <2> QED BY <2>1, <2>2 DEF Todos
<1>8. BucketIds' /\ Secret'
  BY <1>1, <1>2 DEF Inv, Data, BucketIds, Secret
<1>9. VersionIds'
  BY <1>1 DEF Inv, Data, VersionIds, Changed
<1>10. OwnKeys'
  BY <1>1, <1>4 DEF Inv, Data, OwnKeys, OwnKeysAt
<1>11. Views'
  <2>1. \A r : Rows(r)' = Rows(r) /\ Flags(r)' = Flags(r)
    BY <1>1 DEF Rows, Flags
  <2> QED BY <1>1, <2>1 DEF Inv, Data, Views, NewestIn, Versions
<1>12. Fresh'
  BY <1>1, <1>4 DEF Inv, Data, Fresh, FreshAt, Versions
<1>13. ByCall' /\ Forks'
  <2>1. \A r : Copy(tx[r].w)' = Copy(tx[r].w)
    BY <1>1 DEF Copy
  <2> QED BY <2>1, <1>1, <1>3 DEF Inv, Data, ByCall, ByCallAt, Forks, ForksAt
<1>14. Named'
  BY <1>1, <1>2, <1>3 DEF Inv, Named, Lifecycle
<1>15. Uploads' /\ Finite'
  BY <1>1, <1>2 DEF Inv, Uploads, UploadsAt, UploadRow, Finite
<1> QED BY <1>6, <1>7, <1>8, <1>9, <1>10, <1>11, <1>12, <1>13, <1>14, <1>15 DEF Inv, Data

\* Every step preserves it.
LEMMA NextStep ==
    ASSUME Inv, [Next]_vars
    PROVE  Inv'
<1>1. CASE UNCHANGED vars
  BY <1>1, InvSame
<1>2. CASE Next
  <2>1. PICK r \in Session : Run(r) \/ Commit(r) \/ Raise(r) \/ DeadlockDetected(r) \/ Cancel(r)
    BY <1>2 DEF Next
  <2>2. CASE Raise(r)
    <3>1. PICK why \in Error : Rollback(r, why)
      BY <2>2 DEF Raise
    <3>2. why # "open"
      BY DEF Error
    <3> QED BY <3>1, <3>2, RollbackStep
  <2>3. CASE DeadlockDetected(r)
    BY <2>3, RollbackStep DEF DeadlockDetected
  <2>4. CASE Cancel(r)
    BY <2>4, RollbackStep DEF Cancel
  <2> QED BY <2>1, <2>2, <2>3, <2>4, RunStep, CommitStep
<1> QED BY <1>1, <1>2

-----------------------------------------------------------------------------
(* The programs of the calls.                                              *)

\* What the invariant asks of the statements of a transaction that begins.
Begins(r, t) ==
    /\ IsSeq(t) /\ SuitedAt(r, t) /\ PreparedAt(r, t) /\ SettlingAt(t, 0) /\ OnceAt(r, t, NoWrites)
    /\ Call[r].op = "fork_bucket" => \E i \in DOMAIN t : t[i].verb = "snapshot"

\* Lists of three and four statements.
LEMMA LongerLists ==
    /\ \A a, b, c : /\ IsSeq(<<a, b, c>>) /\ DOMAIN <<a, b, c>> = {1, 2, 3}
                    /\ <<a, b, c>>[1] = a /\ <<a, b, c>>[2] = b /\ <<a, b, c>>[3] = c
    /\ \A a, b, c, d : /\ IsSeq(<<a, b, c, d>>) /\ DOMAIN <<a, b, c, d>> = {1, 2, 3, 4}
                       /\ <<a, b, c, d>>[1] = a /\ <<a, b, c, d>>[2] = b
                       /\ <<a, b, c, d>>[3] = c /\ <<a, b, c, d>>[4] = d
<1>1. \A a, b, c : /\ DOMAIN <<a, b, c>> = 1 .. 3 /\ Len(<<a, b, c>>) = 3
                   /\ <<a, b, c>>[1] = a /\ <<a, b, c>>[2] = b /\ <<a, b, c>>[3] = c
  OBVIOUS
<1>2. \A a, b, c, d : /\ DOMAIN <<a, b, c, d>> = 1 .. 4 /\ Len(<<a, b, c, d>>) = 4
                      /\ <<a, b, c, d>>[1] = a /\ <<a, b, c, d>>[2] = b
                      /\ <<a, b, c, d>>[3] = c /\ <<a, b, c, d>>[4] = d
  OBVIOUS
<1>3. 1 .. 3 = {1, 2, 3} /\ 1 .. 4 = {1, 2, 3, 4}
  OBVIOUS
<1> QED BY <1>1, <1>2, <1>3 DEF IsSeq

\* create_bucket.
LEMMA BeginsCreate ==
    ASSUME NEW r \in Session, Call[r].op = "create_bucket"
    PROVE  Begins(r, Program(r))
<1>1. PICK t, a, b : /\ t = Program(r) /\ a = Do("exclusive", Call[r].bucket)
                     /\ b = Do("insert bucket", Call[r].bucket)
  OBVIOUS
<1>2. t = <<a, b>>
  BY <1>1 DEF Program
<1>3. IsSeq(t) /\ DOMAIN t = {1, 2} /\ t[1] = a /\ t[2] = b
  BY <1>2, ShortLists
<1>4. /\ a.verb = "exclusive" /\ a.arg = Call[r].bucket /\ a = Do(a.verb, a.arg)
      /\ b.verb = "insert bucket" /\ b.arg = Call[r].bucket /\ b = Do(b.verb, b.arg)
  BY <1>1 DEF Do
<1>5. SuitedAt(r, t)
  BY <1>3, <1>4 DEF SuitedAt, Suits, Allowed
<1>6. PreparedAt(r, t)
  <2>1. Requires(r, a) = {}
    BY <1>4 DEF Requires
  <2>2. Requires(r, b) = {<<"exclusive", Call[r].bucket>>}
    BY <1>4 DEF Requires
  <2>3. <<"exclusive", Call[r].bucket>> \in Provides(r, a)
    BY <1>4 DEF Provides
  <2> QED BY <2>1, <2>2, <2>3, <1>3 DEF PreparedAt
<1>7. SettlingAt(t, 0)
  BY <1>3, <1>4 DEF SettlingAt, Sole, Setter
<1>8. OnceAt(r, t, NoWrites)
  BY <1>3, <1>4 DEF OnceAt, Writer
<1> QED BY <1>1, <1>3, <1>5, <1>6, <1>7, <1>8 DEF Begins

\* delete_bucket.
LEMMA BeginsDrop ==
    ASSUME NEW r \in Session, Call[r].op = "delete_bucket"
    PROVE  Begins(r, Program(r))
<1>1. PICK t, n : t = Program(r) /\ n = Call[r].bucket
  OBVIOUS
<1>2. PICK a, b, c, d : /\ a = Do("exclusive", n) /\ b = Do("check empty", n)
                        /\ c = Do("delete uploads", n) /\ d = Do("delete bucket", n)
  OBVIOUS
<1>3. t = <<a, b, c, d>>
  BY <1>1, <1>2 DEF Program
<1>4. IsSeq(t) /\ DOMAIN t = {1, 2, 3, 4} /\ t[1] = a /\ t[2] = b /\ t[3] = c /\ t[4] = d
  BY <1>3, LongerLists
<1>5. /\ a.verb = "exclusive" /\ a.arg = n /\ a = Do(a.verb, a.arg)
      /\ b.verb = "check empty" /\ b.arg = n /\ b = Do(b.verb, b.arg)
      /\ c.verb = "delete uploads" /\ c.arg = n /\ c = Do(c.verb, c.arg)
      /\ d.verb = "delete bucket" /\ d.arg = n /\ d = Do(d.verb, d.arg)
  BY <1>2 DEF Do
<1>6. SuitedAt(r, t)
  <2>1. Suits(r, a) /\ Suits(r, b)
    BY <1>1, <1>5 DEF Suits, Allowed
  <2>2. Suits(r, c) /\ Suits(r, d)
    BY <1>1, <1>5 DEF Suits, Allowed
  <2> QED BY <2>1, <2>2, <1>4 DEF SuitedAt
<1>7. PreparedAt(r, t)
  <2>1. Requires(r, a) = {} /\ Requires(r, c) = {}
    BY <1>5 DEF Requires
  <2>2. Requires(r, b) = {<<"exclusive", n>>} /\ Requires(r, d) = {Empty0}
    BY <1>5 DEF Requires
  <2>3. <<"exclusive", n>> \in Provides(r, a) /\ Empty0 \in Provides(r, b)
    BY <1>5 DEF Provides
  <2> QED BY <2>1, <2>2, <2>3, <1>4 DEF PreparedAt
<1>8. SettlingAt(t, 0)
  BY <1>4, <1>5 DEF SettlingAt, Sole, Setter
<1>9. OnceAt(r, t, NoWrites)
  BY <1>4, <1>5 DEF OnceAt, Writer
<1> QED BY <1>1, <1>4, <1>6, <1>7, <1>8, <1>9 DEF Begins

\* delete.
LEMMA BeginsDelete ==
    ASSUME NEW r \in Session, Call[r].op = "delete"
    PROVE  Begins(r, Program(r))
<1>1. PICK t, k, p : t = Program(r) /\ k = Call[r].key /\ p = [key |-> Call[r].key, blob |-> {}]
  OBVIOUS
<1>2. PICK a, b, c : /\ a = Do("child", Call[r].bucket) /\ b = Do("lock key", k)
                     /\ c = Do("publish", p)
  OBVIOUS
<1>3. t = <<a, b, c>>
  BY <1>1, <1>2 DEF Program
<1>4. IsSeq(t) /\ DOMAIN t = {1, 2, 3} /\ t[1] = a /\ t[2] = b /\ t[3] = c
  BY <1>3, LongerLists
<1>5. /\ a.verb = "child" /\ a = Do(a.verb, a.arg)
      /\ b.verb = "lock key" /\ b.arg = k /\ b = Do(b.verb, b.arg)
      /\ c.verb = "publish" /\ c.arg = p /\ p.key = k /\ p.blob = {} /\ c = Do(c.verb, c.arg)
  BY <1>1, <1>2 DEF Do
<1>6. SuitedAt(r, t)
  BY <1>4, <1>5 DEF SuitedAt, Suits, Allowed, Deleting
<1>7. PreparedAt(r, t)
  <2>1. Requires(r, a) = {} /\ Requires(r, b) = {Ready0}
    BY <1>5 DEF Requires
  <2>2. Requires(r, c) = {Ready0, <<"key", k>>, <<"checked", k>>}
    BY <1>5 DEF Requires
  <2>3. Ready0 \in Provides(r, a) /\ <<"key", k>> \in Provides(r, b)
    BY <1>5 DEF Provides
  <2>4. Holds(r, <<"checked", k>>)
    BY DEF Holds, Checked, CreateOnly
  <2> QED BY <2>1, <2>2, <2>3, <2>4, <1>4 DEF PreparedAt
<1>8. SettlingAt(t, 0)
  BY <1>4, <1>5 DEF SettlingAt, Setter
<1>9. OnceAt(r, t, NoWrites)
  BY DEF OnceAt, Deleting
<1> QED BY <1>1, <1>4, <1>6, <1>7, <1>8, <1>9 DEF Begins

\* copy, up to its read of the source.
LEMMA BeginsCopy ==
    ASSUME NEW r \in Session, Call[r].op = "copy"
    PROVE  Begins(r, Program(r))
<1>1. PICK t, k : t = Program(r) /\ k = Call[r].key
  OBVIOUS
<1>2. PICK a, b, c, d : /\ a = Do("source", Call[r].source) /\ b = Do("child", Call[r].bucket)
                        /\ c = Do("lock keys", k) /\ d = Do("read", Call[r].sourceKey)
  OBVIOUS
<1>3. t = <<a, b, c, d>>
  BY <1>1, <1>2 DEF Program
<1>4. IsSeq(t) /\ DOMAIN t = {1, 2, 3, 4} /\ t[1] = a /\ t[2] = b /\ t[3] = c /\ t[4] = d
  BY <1>3, LongerLists
<1>5. /\ a.verb = "source" /\ a.arg = Call[r].source /\ a = Do(a.verb, a.arg)
      /\ b.verb = "child" /\ b = Do(b.verb, b.arg)
      /\ c.verb = "lock keys" /\ c = Do(c.verb, c.arg)
      /\ d.verb = "read" /\ d = Do(d.verb, d.arg)
  BY <1>2 DEF Do
<1>6. SuitedAt(r, t)
  BY <1>4, <1>5 DEF SuitedAt, Suits, Allowed
<1>7. PreparedAt(r, t)
  <2>1. Requires(r, a) = {} /\ Requires(r, b) = {} /\ Requires(r, c) = {Ready0}
    BY <1>5 DEF Requires
  <2>2. Requires(r, d) = {Ready0, <<"key", k>>}
    BY <1>1, <1>5 DEF Requires
  <2>3. Ready0 \in Provides(r, b) /\ <<"key", k>> \in Provides(r, c)
    BY <1>1, <1>5 DEF Provides
  <2> QED BY <2>1, <2>2, <2>3, <1>4 DEF PreparedAt
<1>8. SettlingAt(t, 0)
  BY <1>4, <1>5 DEF SettlingAt, Setter
<1>9. OnceAt(r, t, NoWrites)
  <2>1. Clean(NoWrites)
    BY NoWritesIs DEF Clean
  <2> QED BY <2>1, <1>4, <1>5 DEF OnceAt, Writer, Sole
<1> QED BY <1>1, <1>4, <1>6, <1>7, <1>8, <1>9 DEF Begins

\* fork_bucket, up to its snapshot: both locks in the order of the names.
LEMMA BeginsFork ==
    ASSUME NEW r \in Session, Call[r].op = "fork_bucket"
    PROVE  Begins(r, Program(r))
<1>1. PICK n, m, t : n = Call[r].source /\ m = Call[r].bucket /\ t = Program(r)
  OBVIOUS
<1>2. PICK x, y : IF n < m THEN x = Do("shared", n) /\ y = Do("exclusive", m)
                  ELSE x = Do("exclusive", m) /\ y = Do("shared", n)
  OBVIOUS
<1>3. PICK c, d, e : c = Do("source", n) /\ d = Do("insert bucket", m) /\ e = Do("snapshot", n)
  OBVIOUS
<1>4. PICK f, g : f = <<x, y>> /\ g = <<c, d, e>>
  OBVIOUS
<1>5. t = f \o g
  BY <1>1, <1>2, <1>3, <1>4 DEF Program
<1>6. IsSeq(f) /\ DOMAIN f = {1, 2} /\ f[1] = x /\ f[2] = y /\ Len(f) = 2
  BY <1>4, ShortLists
<1>7. IsSeq(g) /\ DOMAIN g = {1, 2, 3} /\ g[1] = c /\ g[2] = d /\ g[3] = e /\ Len(g) = 3
  BY <1>4, LongerLists
<1>8. /\ IsSeq(t) /\ DOMAIN t = 1 .. Len(f) + Len(g)
      /\ \A i \in 1 .. Len(f) : t[i] = f[i]
      /\ \A i \in 1 .. Len(g) : t[Len(f) + i] = g[i]
  <2>1. /\ IsSeq(f \o g) /\ DOMAIN (f \o g) = 1 .. Len(f) + Len(g)
        /\ \A i \in 1 .. Len(f) : (f \o g)[i] = f[i]
        /\ \A i \in 1 .. Len(g) : (f \o g)[Len(f) + i] = g[i]
    BY <1>6, <1>7, Joined
  <2> QED BY <2>1, <1>5
<1>9. /\ DOMAIN t = {1, 2, 3, 4, 5} /\ t[1] = x /\ t[2] = y
      /\ t[2 + 1] = c /\ t[2 + 2] = d /\ t[2 + 3] = e
  BY <1>6, <1>7, <1>8
<1>10. t[3] = c /\ t[4] = d /\ t[5] = e
  BY <1>9
<1>11. /\ c.verb = "source" /\ c.arg = n /\ c = Do(c.verb, c.arg)
       /\ d.verb = "insert bucket" /\ d.arg = m /\ d = Do(d.verb, d.arg)
       /\ e.verb = "snapshot" /\ e = Do(e.verb, e.arg)
  BY <1>3 DEF Do
<1>12. /\ x.verb \in {"shared", "exclusive"} /\ x = Do(x.verb, x.arg)
       /\ y.verb \in {"shared", "exclusive"} /\ y = Do(y.verb, y.arg)
  BY <1>2 DEF Do
<1>13. SuitedAt(r, t)
  <2>1. Suits(r, x) /\ Suits(r, y)
    BY <1>12 DEF Suits, Allowed
  <2>2. Suits(r, c) /\ Suits(r, d) /\ Suits(r, e)
    BY <1>1, <1>11 DEF Suits, Allowed
  <2> QED BY <2>1, <2>2, <1>9, <1>10 DEF SuitedAt
<1>14. PreparedAt(r, t)
  <2>1. Requires(r, x) = {} /\ Requires(r, y) = {}
    BY <1>12 DEF Requires
  <2>2. Requires(r, c) = {<<"shared", n>>}
    BY <1>11 DEF Requires
  <2>3. Requires(r, d) = {<<"exclusive", m>>}
    BY <1>11 DEF Requires
  <2>4. Requires(r, e) = {Ready0, Source0}
    BY <1>11 DEF Requires
  <2>5. Source0 \in Provides(r, c) /\ Ready0 \in Provides(r, d)
    BY <1>11 DEF Provides
  <2>6. \/ <<"shared", n>> \in Provides(r, x) /\ <<"exclusive", m>> \in Provides(r, y)
        \/ <<"shared", n>> \in Provides(r, y) /\ <<"exclusive", m>> \in Provides(r, x)
    <3>1. Do("shared", n).verb = "shared" /\ Do("shared", n).arg = n
      BY DEF Do
    <3>2. Do("exclusive", m).verb = "exclusive" /\ Do("exclusive", m).arg = m
      BY DEF Do
    <3>3. <<"shared", n>> \in Provides(r, Do("shared", n))
      BY <3>1 DEF Provides
    <3>4. <<"exclusive", m>> \in Provides(r, Do("exclusive", m))
      BY <3>2 DEF Provides
    <3> QED BY <3>3, <3>4, <1>2
  <2>7. ASSUME NEW i \in DOMAIN t, NEW h \in Requires(r, t[i])
        PROVE  \E j \in DOMAIN t : j < i /\ h \in Provides(r, t[j])
    <3>1. CASE i = 3
      <4>1. h = <<"shared", n>>
        BY <3>1, <2>2, <1>10
      <4> QED BY <3>1, <4>1, <2>6, <1>9
    <3>2. CASE i = 4
      <4>1. h = <<"exclusive", m>>
        BY <3>2, <2>3, <1>10
      <4> QED BY <3>2, <4>1, <2>6, <1>9
    <3>3. CASE i = 5
      BY <3>3, <2>4, <2>5, <1>9, <1>10
    <3> QED BY <3>1, <3>2, <3>3, <2>1, <1>9
  <2> QED BY <2>7 DEF PreparedAt
<1>15. SettlingAt(t, 0)
  BY <1>9, <1>10, <1>11, <1>12 DEF SettlingAt, Sole, Setter
<1>16. OnceAt(r, t, NoWrites)
  <2>1. Clean(NoWrites)
    BY NoWritesIs DEF Clean
  <2> QED BY <2>1, <1>9, <1>10, <1>11, <1>12 DEF OnceAt, Writer, Sole
<1>17. \E i \in DOMAIN t : t[i].verb = "snapshot"
  BY <1>9, <1>10, <1>11
<1> QED BY <1>1, <1>8, <1>13, <1>14, <1>15, <1>16, <1>17 DEF Begins

\* put, with its condition or without.
LEMMA BeginsPut ==
    ASSUME NEW r \in Session, Call[r].op = "put"
    PROVE  Begins(r, Program(r))
<1>1. PICK t, k, p, co : /\ t = Program(r) /\ k = Call[r].key /\ co = Call[r].createOnly
                         /\ p = [key |-> Call[r].key, blob |-> {Call[r].body}]
  OBVIOUS
<1>2. PICK a, b, c, d, e : /\ a = Do("child", Call[r].bucket) /\ b = Do("lock key", k)
                           /\ c = Do("insert blob", Call[r].body) /\ d = Do("lock blob", Call[r].body)
                           /\ e = Do("publish", p)
  OBVIOUS
<1>3. PICK f : f = <<a, b>>
  OBVIOUS
<1>4. PICK g : g = f \o Condition(co, k)
  OBVIOUS
<1>5. PICK h : h = g \o <<c, d>>
  OBVIOUS
<1>6. t = h \o <<e>>
  BY <1>1, <1>2, <1>3, <1>4, <1>5 DEF Program, EnsureBlob
<1>7. IsSeq(f) /\ Len(f) = 2 /\ f[1] = a /\ f[2] = b
  BY <1>3, ShortLists
<1>8. PICK n : n = Checks(co)
  OBVIOUS
<1>9. n \in {0, 1} /\ (co => n = 1) /\ (~co => n = 0)
  BY <1>8 DEF Checks
<1>10. IsSeq(g) /\ Len(g) = 2 + n /\ g[1] = a /\ g[2] = b /\ (co => g[3] = Do("check", k))
  <2>1. ConditionedAs(g, f, co, k)
    BY <1>4, <1>7, Conditioned
  <2> QED BY <2>1, <1>7, <1>8 DEF ConditionedAs
<1>11. /\ IsSeq(h) /\ Len(h) = 4 + n /\ h[1] = a /\ h[2] = b /\ (co => h[3] = Do("check", k))
       /\ h[3 + n] = c /\ h[4 + n] = d
  <2>1. /\ IsSeq(h) /\ Len(h) = Len(g) + 2
        /\ \A i \in 1 .. Len(g) : h[i] = g[i]
        /\ h[Len(g) + 1] = c /\ h[Len(g) + 2] = d
    BY <1>5, <1>10, Appended
  <2> QED BY <2>1, <1>9, <1>10
<1>12. /\ IsSeq(t) /\ Len(t) = 5 + n /\ t[1] = a /\ t[2] = b /\ (co => t[3] = Do("check", k))
       /\ t[3 + n] = c /\ t[4 + n] = d /\ t[5 + n] = e
  <2>1. /\ IsSeq(t) /\ Len(t) = Len(h) + 1
        /\ \A i \in 1 .. Len(h) : t[i] = h[i]
        /\ t[Len(h) + 1] = e
    BY <1>6, <1>11, Appended
  <2> QED BY <2>1, <1>9, <1>11
<1>13. DOMAIN t = 1 .. 5 + n
  BY <1>12 DEF IsSeq
<1>14. /\ a.verb = "child" /\ a = Do(a.verb, a.arg)
       /\ b.verb = "lock key" /\ b.arg = k /\ b = Do(b.verb, b.arg)
       /\ c.verb = "insert blob" /\ c = Do(c.verb, c.arg)
       /\ d.verb = "lock blob" /\ d = Do(d.verb, d.arg)
       /\ e.verb = "publish" /\ e.arg = p /\ p.key = k /\ p.blob # {} /\ e = Do(e.verb, e.arg)
  BY <1>1, <1>2 DEF Do
<1>15. PICK x : x = Do("check", k)
  OBVIOUS
<1>16. x.verb = "check" /\ x.arg = k /\ x = Do(x.verb, x.arg)
  BY <1>15 DEF Do
<1>17. ASSUME NEW i \in DOMAIN t
       PROVE  \/ i = 1 /\ t[i] = a
              \/ i = 2 /\ t[i] = b
              \/ i = 3 /\ co /\ t[i] = x
              \/ i = 3 + n /\ t[i] = c
              \/ i = 4 + n /\ t[i] = d
              \/ i = 5 + n /\ t[i] = e
  <2>1. CASE co
    BY <2>1, <1>9, <1>12, <1>13, <1>15
  <2>2. CASE ~co
    BY <2>2, <1>9, <1>12, <1>13
  <2> QED BY <2>1, <2>2
<1>18. SuitedAt(r, t)
  <2>1. Suits(r, a) /\ Suits(r, b) /\ Suits(r, c) /\ Suits(r, d) /\ Suits(r, x)
    BY <1>14, <1>16 DEF Suits, Allowed
  <2>2. Suits(r, e)
    BY <1>14 DEF Suits, Allowed, Deleting
  <2> QED BY <2>1, <2>2, <1>17 DEF SuitedAt
<1>19. PreparedAt(r, t)
  <2>1. Requires(r, a) = {} /\ Requires(r, c) = {} /\ Requires(r, d) = {}
    BY <1>14 DEF Requires
  <2>2. Requires(r, b) = {Ready0}
    BY <1>14 DEF Requires
  <2>3. Requires(r, x) = {Ready0, <<"key", k>>}
    BY <1>16 DEF Requires
  <2>4. Requires(r, e) = {Ready0, <<"key", k>>, <<"checked", k>>}
    BY <1>14 DEF Requires
  <2>5. Ready0 \in Provides(r, a) /\ <<"key", k>> \in Provides(r, b)
    BY <1>14 DEF Provides
  <2>6. <<"checked", k>> \in Provides(r, x)
    BY <1>16 DEF Provides
  <2>7. ~co => Holds(r, <<"checked", k>>)
    BY <1>1 DEF Holds, Checked, CreateOnly
  <2>8. 1 \in DOMAIN t /\ 2 \in DOMAIN t /\ 3 \in DOMAIN t
    BY <1>9, <1>13
  <2>9. ASSUME NEW i \in DOMAIN t, NEW q \in Requires(r, t[i])
        PROVE  Holds(r, q) \/ \E j \in DOMAIN t : j < i /\ q \in Provides(r, t[j])
    <3>1. CASE i = 2 /\ t[i] = b
      BY <3>1, <2>2, <2>5, <2>8, <1>12
    <3>2. CASE i = 3 /\ co /\ t[i] = x
      BY <3>2, <2>3, <2>5, <2>8, <1>12
    <3>3. CASE i = 5 + n /\ t[i] = e
      <4>1. q = Ready0 \/ q = <<"key", k>> \/ q = <<"checked", k>>
        BY <3>3, <2>4
      <4>2. i > 3
        BY <3>3, <1>9
      <4> QED BY <4>1, <4>2, <2>5, <2>6, <2>7, <2>8, <1>12, <1>15
    <3> QED BY <3>1, <3>2, <3>3, <2>1, <1>17
  <2> QED BY <2>9 DEF PreparedAt
<1>20. SettlingAt(t, 0)
  BY <1>14, <1>16, <1>17 DEF SettlingAt, Setter
<1>21. OnceAt(r, t, NoWrites)
  <2>1. Clean(NoWrites)
    BY NoWritesIs DEF Clean
  <2>2. ASSUME NEW i \in DOMAIN t, t[i].verb \in Writer PROVE i = 5 + n
    BY <2>2, <1>14, <1>16, <1>17 DEF Writer
  <2> QED BY <2>1, <2>2 DEF OnceAt, Sole
<1> QED BY <1>1, <1>12, <1>18, <1>19, <1>20, <1>21 DEF Begins

\* delete_many: all keys are locked before the first entry is deleted.
LEMMA BeginsDeleteMany ==
    ASSUME NEW r \in Session, Call[r].op = "delete_many"
    PROVE  Begins(r, Program(r))
<1>1. PICK t, es, K : /\ t = Program(r) /\ es = Call[r].entries
                      /\ K = {e.key : e \in Range(Call[r].entries)}
  OBVIOUS
<1>2. PICK a, b, g : /\ a = Do("child", Call[r].bucket) /\ b = Do("lock each", K)
                     /\ g = [i \in DOMAIN es |-> Delete(es[i])]
  OBVIOUS
<1>3. PICK f : f = <<a, b>>
  OBVIOUS
<1>4. t = f \o g
  BY <1>1, <1>2, <1>3 DEF Program
<1>5. IsSeq(f) /\ DOMAIN f = {1, 2} /\ f[1] = a /\ f[2] = b /\ Len(f) = 2
  BY <1>3, ShortLists
<1>6. es \in Seq(Range(es)) /\ DOMAIN es = 1 .. Len(es) /\ Len(es) \in Nat
  BY <1>1, CallAssumption
<1>7. DOMAIN g = 1 .. Len(es) /\ \A i \in 1 .. Len(es) : g[i] = Delete(es[i])
  BY <1>2, <1>6
<1>8. IsSeq(g) /\ Len(g) = Len(es)
  <2>1. Len(g) = Len(es)
    BY <1>6, <1>7
  <2> QED BY <2>1, <1>2, <1>6, <1>7 DEF IsSeq
<1>9. /\ IsSeq(t)
      /\ \A i \in 1 .. Len(f) : t[i] = f[i]
      /\ DOMAIN t = 1 .. Len(f) + Len(g)
      /\ \A i \in DOMAIN t : \/ i \in DOMAIN f /\ t[i] = f[i]
                             \/ i - Len(f) \in DOMAIN g /\ t[i] = g[i - Len(f)]
  <2>1. /\ IsSeq(f \o g)
        /\ \A i \in 1 .. Len(f) : (f \o g)[i] = f[i]
        /\ DOMAIN (f \o g) = 1 .. Len(f) + Len(g)
        /\ \A i \in DOMAIN (f \o g) : \/ i \in DOMAIN f /\ (f \o g)[i] = f[i]
                                      \/ i - Len(f) \in DOMAIN g /\ (f \o g)[i] = g[i - Len(f)]
    <3>1. IsSeq(f) /\ IsSeq(g)
      BY <1>5, <1>8
    <3> QED BY <3>1, Joined
  <2> QED BY <2>1, <1>4
<1>10. 1 \in DOMAIN t /\ 2 \in DOMAIN t /\ t[1] = a /\ t[2] = b
  BY <1>5, <1>6, <1>8, <1>9
<1>11. /\ a.verb = "child" /\ a = Do(a.verb, a.arg)
       /\ b.verb = "lock each" /\ b.arg = K /\ b = Do(b.verb, b.arg)
  BY <1>2 DEF Do
<1>12. ASSUME NEW e, e.key \in K, NEW s, s = Delete(e)
       PROVE  /\ s = Do(s.verb, s.arg) /\ s.verb \in {"publish", "remove"} /\ s.arg.key \in K
              /\ s.verb = "publish" => s.arg.blob = {}
  <2>1. CASE e.version = {}
    <3>1. PICK p : p = [key |-> e.key, blob |-> {}]
      OBVIOUS
    <3>2. s = Do("publish", p)
      BY <2>1, <3>1, <1>12 DEF Delete
    <3>3. s.verb = "publish" /\ s.arg = p /\ p.key = e.key /\ p.blob = {}
      BY <3>1, <3>2 DEF Do
    <3> QED BY <3>2, <3>3, <1>12
  <2>2. CASE e.version # {}
    <3>1. s = Do("remove", e)
      BY <2>2, <1>12 DEF Delete
    <3>2. s.verb = "remove" /\ s.arg = e
      BY <3>1 DEF Do
    <3> QED BY <3>1, <3>2, <1>12
  <2> QED BY <2>1, <2>2
<1>13. ASSUME NEW i \in DOMAIN t
       PROVE  \/ i = 1 /\ t[i] = a
              \/ i = 2 /\ t[i] = b
              \/ /\ i > 2 /\ t[i] = Do(t[i].verb, t[i].arg) /\ t[i].verb \in {"publish", "remove"}
                 /\ t[i].arg.key \in K /\ (t[i].verb = "publish" => t[i].arg.blob = {})
  <2>1. CASE i \in DOMAIN f /\ t[i] = f[i]
    BY <2>1, <1>5
  <2>2. CASE i - Len(f) \in DOMAIN g /\ t[i] = g[i - Len(f)]
    <3>1. PICK j : j = i - 2
      OBVIOUS
    <3>2. j \in 1 .. Len(es) /\ t[i] = Delete(es[j]) /\ i > 2
      BY <2>2, <3>1, <1>5, <1>6, <1>7, <1>9, <1>8
    <3>3. es[j] \in Range(es)
      BY <3>2, <1>6
    <3>4. es[j].key \in K
      BY <3>3, <1>1
    <3> QED BY <3>2, <3>4, <1>12
  <2> QED BY <2>1, <2>2, <1>9
<1>14. SuitedAt(r, t)
  <2>1. Suits(r, a) /\ Suits(r, b)
    BY <1>11 DEF Suits, Allowed
  <2>2. ASSUME NEW s, s = Do(s.verb, s.arg), s.verb \in {"publish", "remove"},
               s.verb = "publish" => s.arg.blob = {}
        PROVE  Suits(r, s)
    BY <2>2 DEF Suits, Allowed, Deleting
  <2> QED BY <2>1, <2>2, <1>13 DEF SuitedAt
<1>15. PreparedAt(r, t)
  <2>1. Requires(r, a) = {} /\ Requires(r, b) = {Ready0}
    BY <1>11 DEF Requires
  <2>2. Ready0 \in Provides(r, a)
    BY <1>11 DEF Provides
  <2>3. Provides(r, b) = {<<"key", k>> : k \in K}
    BY <1>11 DEF Provides
  <2>4. ASSUME NEW s, s.verb \in {"publish", "remove"}, NEW h \in Requires(r, s)
        PROVE  h = Ready0 \/ h = <<"key", s.arg.key>> \/ h = <<"checked", s.arg.key>>
    BY <2>4 DEF Requires
  <2>5. \A k : Holds(r, <<"checked", k>>)
    BY DEF Holds, Checked, CreateOnly
  <2>6. ASSUME NEW i \in DOMAIN t, NEW h \in Requires(r, t[i])
        PROVE  Holds(r, h) \/ \E j \in DOMAIN t : j < i /\ h \in Provides(r, t[j])
    <3>1. CASE i = 2 /\ t[i] = b
      BY <3>1, <2>1, <2>2, <1>10
    <3>2. CASE i > 2 /\ t[i].verb \in {"publish", "remove"} /\ t[i].arg.key \in K
      <4>1. h = Ready0 \/ h = <<"key", t[i].arg.key>> \/ h = <<"checked", t[i].arg.key>>
        BY <3>2, <2>4
      <4>2. 1 < i /\ 2 < i
        BY <3>2, <1>9
      <4>3. <<"key", t[i].arg.key>> \in Provides(r, b)
        BY <3>2, <2>3
      <4> QED BY <4>1, <4>2, <4>3, <2>2, <2>5, <1>10
    <3> QED BY <3>1, <3>2, <2>1, <1>13
  <2> QED BY <2>6 DEF PreparedAt
<1>16. SettlingAt(t, 0)
  BY <1>11, <1>13 DEF SettlingAt, Setter
<1>17. OnceAt(r, t, NoWrites)
  BY DEF OnceAt, Deleting
<1> QED BY <1>1, <1>9, <1>14, <1>15, <1>16, <1>17 DEF Begins

\* begin_upload.
LEMMA BeginsUpload ==
    ASSUME NEW r \in Session, Call[r].op = "begin_upload"
    PROVE  Begins(r, Program(r))
<1>1. PICK t, a, b : /\ t = Program(r) /\ a = Do("child", Call[r].bucket)
                     /\ b = Do("insert upload", Call[r].upload)
  OBVIOUS
<1>2. t = <<a, b>>
  BY <1>1 DEF Program
<1>3. IsSeq(t) /\ DOMAIN t = {1, 2} /\ t[1] = a /\ t[2] = b
  BY <1>2, ShortLists
<1>4. /\ a.verb = "child" /\ a = Do(a.verb, a.arg)
      /\ b.verb = "insert upload" /\ b.arg = Call[r].upload /\ b = Do(b.verb, b.arg)
  BY <1>1 DEF Do
<1>5. SuitedAt(r, t)
  BY <1>3, <1>4 DEF SuitedAt, Suits, Allowed
<1>6. PreparedAt(r, t)
  <2>1. Requires(r, a) = {} /\ Requires(r, b) = {Ready0}
    BY <1>4 DEF Requires
  <2>2. Ready0 \in Provides(r, a)
    BY <1>4 DEF Provides
  <2> QED BY <2>1, <2>2, <1>3 DEF PreparedAt
<1>7. SettlingAt(t, 0)
  BY <1>3, <1>4 DEF SettlingAt, Setter
<1>8. OnceAt(r, t, NoWrites)
  BY <1>3, <1>4 DEF OnceAt, Writer
<1> QED BY <1>1, <1>3, <1>5, <1>6, <1>7, <1>8 DEF Begins

\* put_chunk.
LEMMA BeginsChunk ==
    ASSUME NEW r \in Session, Call[r].op = "put_chunk"
    PROVE  Begins(r, Program(r))
<1>1. PICK t, a, b : /\ t = Program(r) /\ a = Do("lock upload", Call[r].upload)
                     /\ b = Do("insert blob", Call[r].body)
  OBVIOUS
<1>2. PICK c, d : c = Do("lock blob", Call[r].body) /\ d = Do("stage", Call[r].body)
  OBVIOUS
<1>3. PICK f : f = <<a>>
  OBVIOUS
<1>4. PICK g : g = f \o <<b, c>>
  OBVIOUS
<1>5. t = g \o <<d>>
  BY <1>1, <1>2, <1>3, <1>4 DEF Program, EnsureBlob
<1>6. IsSeq(f) /\ Len(f) = 1 /\ f[1] = a
  BY <1>3, ShortLists
<1>7. IsSeq(g) /\ Len(g) = 3 /\ g[1] = a /\ g[2] = b /\ g[3] = c
  <2>1. /\ IsSeq(g) /\ Len(g) = Len(f) + 2
        /\ \A i \in 1 .. Len(f) : g[i] = f[i]
        /\ g[Len(f) + 1] = b /\ g[Len(f) + 2] = c
    <3>1. /\ IsSeq(f \o <<b, c>>) /\ Len(f \o <<b, c>>) = Len(f) + 2
          /\ \A i \in 1 .. Len(f) : (f \o <<b, c>>)[i] = f[i]
          /\ (f \o <<b, c>>)[Len(f) + 1] = b /\ (f \o <<b, c>>)[Len(f) + 2] = c
      <4>1. IsSeq(f)
        BY <1>6
      <4> QED BY <4>1, Appended
    <3> QED BY <3>1, <1>4
  <2> QED BY <2>1, <1>6
<1>8. IsSeq(t) /\ Len(t) = 4 /\ t[1] = a /\ t[2] = b /\ t[3] = c /\ t[4] = d
  <2>1. /\ IsSeq(t) /\ Len(t) = Len(g) + 1
        /\ \A i \in 1 .. Len(g) : t[i] = g[i]
        /\ t[Len(g) + 1] = d
    <3>1. /\ IsSeq(g \o <<d>>) /\ Len(g \o <<d>>) = Len(g) + 1
          /\ \A i \in 1 .. Len(g) : (g \o <<d>>)[i] = g[i]
          /\ (g \o <<d>>)[Len(g) + 1] = d
      BY <1>7, Appended
    <3> QED BY <3>1, <1>5
  <2> QED BY <2>1, <1>7
<1>9. DOMAIN t = {1, 2, 3, 4}
  BY <1>8 DEF IsSeq
<1>10. /\ a.verb = "lock upload" /\ a.arg = Call[r].upload /\ a = Do(a.verb, a.arg)
       /\ b.verb = "insert blob" /\ b = Do(b.verb, b.arg)
       /\ c.verb = "lock blob" /\ c = Do(c.verb, c.arg)
       /\ d.verb = "stage" /\ d = Do(d.verb, d.arg)
  BY <1>1, <1>2 DEF Do
<1>11. SuitedAt(r, t)
  <2>1. Suits(r, a) /\ Suits(r, b) /\ Suits(r, c) /\ Suits(r, d)
    BY <1>10 DEF Suits, Allowed
  <2> QED BY <2>1, <1>8, <1>9 DEF SuitedAt
<1>12. PreparedAt(r, t)
  <2>1. Requires(r, a) = {} /\ Requires(r, b) = {} /\ Requires(r, c) = {} /\ Requires(r, d) = {Upload0}
    BY <1>10 DEF Requires
  <2>2. Upload0 \in Provides(r, a)
    BY <1>10 DEF Provides
  <2> QED BY <2>1, <2>2, <1>8, <1>9 DEF PreparedAt
<1>13. SettlingAt(t, 0)
  BY <1>8, <1>9, <1>10 DEF SettlingAt, Setter
<1>14. OnceAt(r, t, NoWrites)
  BY <1>8, <1>9, <1>10 DEF OnceAt, Writer
<1> QED BY <1>1, <1>8, <1>11, <1>12, <1>13, <1>14 DEF Begins

\* complete_upload, up to its assembly.
LEMMA BeginsComplete ==
    ASSUME NEW r \in Session, Call[r].op = "complete_upload"
    PROVE  Begins(r, Program(r))
<1>1. PICK t, a, b : /\ t = Program(r) /\ a = Do("lock upload", Call[r].upload)
                     /\ b = Do("assemble", Call[r].upload)
  OBVIOUS
<1>2. t = <<a, b>>
  BY <1>1 DEF Program
<1>3. IsSeq(t) /\ DOMAIN t = {1, 2} /\ t[1] = a /\ t[2] = b
  BY <1>2, ShortLists
<1>4. /\ a.verb = "lock upload" /\ a.arg = Call[r].upload /\ a = Do(a.verb, a.arg)
      /\ b.verb = "assemble" /\ b.arg = Call[r].upload /\ b = Do(b.verb, b.arg)
  BY <1>1 DEF Do
<1>5. SuitedAt(r, t)
  BY <1>3, <1>4 DEF SuitedAt, Suits, Allowed
<1>6. PreparedAt(r, t)
  <2>1. Requires(r, a) = {} /\ Requires(r, b) = {Upload0}
    BY <1>4 DEF Requires
  <2>2. Upload0 \in Provides(r, a)
    BY <1>4 DEF Provides
  <2> QED BY <2>1, <2>2, <1>3 DEF PreparedAt
<1>7. SettlingAt(t, 0)
  BY <1>3, <1>4 DEF SettlingAt, Sole, Setter
<1>8. OnceAt(r, t, NoWrites)
  <2>1. Clean(NoWrites)
    BY NoWritesIs DEF Clean
  <2> QED BY <2>1, <1>3, <1>4 DEF OnceAt, Writer, Sole
<1> QED BY <1>1, <1>3, <1>5, <1>6, <1>7, <1>8 DEF Begins

\* abort_upload.
LEMMA BeginsAbort ==
    ASSUME NEW r \in Session, Call[r].op = "abort_upload"
    PROVE  Begins(r, Program(r))
<1>1. PICK t, u : t = Program(r) /\ u = Call[r].upload
  OBVIOUS
<1>2. PICK a, b, c : a = Do("lock upload", u) /\ b = Do("delete upload", u) /\ c = Do("release", u)
  OBVIOUS
<1>3. t = <<a, b, c>>
  BY <1>1, <1>2 DEF Program
<1>4. IsSeq(t) /\ DOMAIN t = {1, 2, 3} /\ t[1] = a /\ t[2] = b /\ t[3] = c
  BY <1>3, LongerLists
<1>5. /\ a.verb = "lock upload" /\ a.arg = u /\ a = Do(a.verb, a.arg)
      /\ b.verb = "delete upload" /\ b = Do(b.verb, b.arg)
      /\ c.verb = "release" /\ c = Do(c.verb, c.arg)
  BY <1>2 DEF Do
<1>6. SuitedAt(r, t)
  BY <1>1, <1>4, <1>5, ZenonT(40) DEF SuitedAt, Suits, Allowed
<1>7. PreparedAt(r, t)
  <2>1. Requires(r, a) = {} /\ Requires(r, b) = {} /\ Requires(r, c) = {}
    BY <1>5 DEF Requires
  <2> QED BY <2>1, <1>4 DEF PreparedAt
<1>8. SettlingAt(t, 0)
  BY <1>4, <1>5 DEF SettlingAt, Setter
<1>9. OnceAt(r, t, NoWrites)
  BY <1>4, <1>5 DEF OnceAt, Writer
<1> QED BY <1>1, <1>4, <1>6, <1>7, <1>8, <1>9 DEF Begins

\* The collectors: gc_pending_uploads and gc_blobs.
LEMMA BeginsGc ==
    ASSUME NEW r \in Session, Call[r].op \in {"gc_pending_uploads", "gc_blobs"}
    PROVE  Begins(r, Program(r))
<1>1. PICK t : t = Program(r)
  OBVIOUS
<1>2. /\ IsSeq(t)
      /\ \A i \in DOMAIN t : /\ t[i] = Do(t[i].verb, t[i].arg) /\ t[i].verb \in {"expire", "collect"}
                             /\ t[i].verb \in Allowed(Call[r].op)
  <2>1. CASE Call[r].op = "gc_pending_uploads"
    <3>1. PICK a : a = Do("expire", 0)
      OBVIOUS
    <3>2. t = <<a>>
      BY <2>1, <3>1, <1>1 DEF Program
    <3>3. IsSeq(t) /\ DOMAIN t = {1} /\ t[1] = a
      BY <3>2, ShortLists
    <3>4. a.verb = "expire" /\ a = Do(a.verb, a.arg) /\ "expire" \in Allowed(Call[r].op)
      BY <2>1, <3>1 DEF Do, Allowed
    <3> QED BY <3>3, <3>4
  <2>2. CASE Call[r].op = "gc_blobs"
    <3>1. PICK a : a = Do("collect", 0)
      OBVIOUS
    <3>2. t = [i \in 1 .. GcLimit |-> a]
      BY <2>2, <3>1, <1>1 DEF Program
    <3>3. DOMAIN t = 1 .. GcLimit /\ Len(t) = GcLimit /\ \A i \in 1 .. GcLimit : t[i] = a
      BY <3>2, GcAssumption
    <3>4. IsSeq(t)
      BY <3>2, <3>3, GcAssumption DEF IsSeq
    <3>5. a.verb = "collect" /\ a = Do(a.verb, a.arg) /\ "collect" \in Allowed(Call[r].op)
      BY <2>2, <3>1 DEF Do, Allowed
    <3> QED BY <3>3, <3>4, <3>5
  <2> QED BY <2>1, <2>2
<1>3. SuitedAt(r, t)
  BY <1>2 DEF SuitedAt, Suits
<1>4. PreparedAt(r, t)
  BY <1>2 DEF PreparedAt, Requires
<1>5. SettlingAt(t, 0)
  BY <1>2 DEF SettlingAt, Setter
<1>6. OnceAt(r, t, NoWrites)
  BY <1>2 DEF OnceAt, Writer
<1> QED BY <1>1, <1>2, <1>3, <1>4, <1>5, <1>6 DEF Begins

\* Every call begins with statements that are prepared.
LEMMA ProgramBegins ==
    ASSUME NEW r \in Session
    PROVE  Begins(r, Program(r))
<1>1. Call[r].op \in Function
  BY CallAssumption
<1>2. CASE Call[r].op \in {"create_bucket", "delete_bucket", "delete", "copy", "fork_bucket"}
  BY <1>2, BeginsCreate, BeginsDrop, BeginsDelete, BeginsCopy, BeginsFork
<1>3. CASE Call[r].op \in {"put", "delete_many", "begin_upload", "put_chunk"}
  BY <1>3, BeginsPut, BeginsDeleteMany, BeginsUpload, BeginsChunk
<1>4. CASE Call[r].op \in {"complete_upload", "abort_upload", "gc_pending_uploads", "gc_blobs"}
  BY <1>4, BeginsComplete, BeginsAbort, BeginsGc
<1> QED BY <1>1, <1>2, <1>3, <1>4 DEF Function

-----------------------------------------------------------------------------
(* The first state.                                                        *)

\* A transaction that begins, and one that is not there.
LEMMA StartTx ==
    ASSUME NEW c \in Scenario, Start(c), NEW r \in Session
    PROVE  /\ tx[r].w = NoWrites /\ tx[r].id = 0 /\ tx[r].src = 0 /\ tx[r].shot = {}
           /\ TxFormed(tx[r]) /\ NewIds(r) = {}
           /\ tx[r].todo = Program(r) \/ (tx[r].todo = <<>> /\ tx[r].state # "open")
<1>1. tx[r] = IF r \in c.calls THEN [Ended("open") EXCEPT !.todo = Program(r)] ELSE Ended("absent")
  BY DEF Start
<1>2. NoWrites.named = Empty /\ DOMAIN Empty = {} /\ WritesFormed(NoWrites)
  BY NoWritesIs
<1>3. CASE r \in c.calls
  <2>1. PICK p : p = Program(r)
    OBVIOUS
  <2>2. tx[r] = [state |-> "open", todo |-> p, id |-> 0, src |-> 0, shot |-> {}, w |-> NoWrites]
    BY <1>1, <1>3, <2>1 DEF Ended
  <2>3. IsSeq(p)
    BY <2>1, ProgramBegins DEF Begins
  <2>4. NewIds(r) = {}
    BY <2>2, <1>2 DEF NewIds, Range
  <2> QED BY <2>1, <2>2, <2>3, <2>4, <1>2 DEF TxFormed
<1>4. CASE r \notin c.calls
  <2>1. tx[r] = Ended("absent")
    BY <1>1, <1>4
  <2>2. tx[r] = [state |-> "absent", todo |-> <<>>, id |-> 0, src |-> 0, shot |-> {}, w |-> NoWrites]
    BY <2>1 DEF Ended
  <2>3. IsSeq(<<>>)
    BY NothingNext
  <2>4. NewIds(r) = {}
    BY <2>2, <1>2 DEF NewIds, Range
  <2> QED BY <2>1, <2>2, <2>3, <2>4, <1>2 DEF TxFormed
<1> QED BY <1>3, <1>4

\* The statements of all transactions.
LEMMA StartTodos ==
    ASSUME NEW c \in Scenario, Start(c)
    PROVE  Todos
<1>1. ASSUME NEW r \in Session
      PROVE  /\ SuitedAt(r, tx[r].todo) /\ PreparedAt(r, tx[r].todo)
             /\ SettlingAt(tx[r].todo, tx[r].id) /\ OnceAt(r, tx[r].todo, tx[r].w)
             /\ WillReadAt(r, tx[r].todo)
  <2>1. tx[r].w = NoWrites /\ tx[r].id = 0
    BY StartTx
  <2>2. CASE tx[r].todo = Program(r)
    BY <2>1, <2>2, ProgramBegins DEF Begins, WillReadAt
  <2>3. CASE tx[r].todo = <<>> /\ tx[r].state # "open"
    <3>1. DOMAIN tx[r].todo = {}
      BY <2>3
    <3> QED BY <2>3, <3>1 DEF SuitedAt, PreparedAt, SettlingAt, OnceAt, WillReadAt
  <2> QED BY <2>2, <2>3, StartTx
<1> QED BY <1>1 DEF Todos, Suited, Prepared, Settling, Once, WillRead

\* The names and ids of a scenario.
LEMMA StartIds ==
    ASSUME NEW c \in Scenario, Start(c)
    PROVE  BucketIds
<1>1. /\ bucket = [n \in Names(c) |-> n] /\ bucketSeq = 1 + Max(Names(c) \cup {0})
      /\ object = [v \in DOMAIN c.stored |->
            [bucket |-> c.stored[v].bucket, key |-> c.stored[v].key, blob |-> {c.stored[v].body}]]
      /\ upload = c.pending
  BY DEF Start
<1>2. PICK N : N = Names(c) \cup {0}
  OBVIOUS
<1>3. Names(c) \subseteq Name /\ Names(c) \subseteq Nat \ {0} /\ N \subseteq Nat
  <2>1. Names(c) \subseteq Name
    BY ScenarioAssumption
  <2>2. Names(c) \subseteq Nat \ {0}
    BY <2>1, NameAssumption
  <2> QED BY <2>1, <2>2, <1>2
<1>4. \E n \in N : \A m \in N : n >= m
  <2>1. PICK n \in N : \A m \in Names(c) : m <= n
    BY <1>2, ScenarioAssumption
  <2> QED BY <2>1, <1>2, <1>3
<1>5. PICK top : top = Max(N)
  OBVIOUS
<1>6. top \in N /\ \A m \in N : top >= m
  BY <1>4, <1>5 DEF Max
<1>7. bucketSeq = 1 + top /\ top \in Nat /\ bucketSeq \in Nat \ {0} /\ Ids = 1 .. top
  BY <1>1, <1>2, <1>3, <1>5, <1>6 DEF Ids
<1>8. \A n \in Names(c) : n \in Ids
  BY <1>2, <1>3, <1>6, <1>7
<1>9. \A v \in DOMAIN c.stored : c.stored[v].bucket \in Names(c)
  BY DEF Names
<1>10. \A u \in DOMAIN c.pending : c.pending[u].bucket \in Names(c)
  BY DEF Names
<1>11. DOMAIN bucket = Names(c) /\ \A n \in Names(c) : bucket[n] = n
  BY <1>1
<1>12. DOMAIN object = DOMAIN c.stored /\ \A v \in DOMAIN object : object[v].bucket = c.stored[v].bucket
  BY <1>1
<1>13. bucket = [n \in DOMAIN bucket |-> bucket[n]]
  BY <1>1
<1>14. \A r \in Session : tx[r].id = 0 /\ tx[r].src = 0 /\ NewIds(r) = {}
  BY StartTx
<1> QED BY <1>1, <1>3, <1>7, <1>8, <1>9, <1>10, <1>11, <1>12, <1>13, <1>14 DEF BucketIds

\* The rows of a scenario: their order is the order of the version ids.
LEMMA StartRows ==
    ASSUME NEW c \in Scenario, Start(c)
    PROVE  VersionIds /\ Views
<1>1. /\ object = [v \in DOMAIN c.stored |->
            [bucket |-> c.stored[v].bucket, key |-> c.stored[v].key, blob |-> {c.stored[v].body}]]
      /\ latest = {v \in DOMAIN c.stored : \A w \in DOMAIN c.stored :
            c.stored[w].bucket = c.stored[v].bucket /\ c.stored[w].key = c.stored[v].key => w <= v}
      /\ versionSeq = 1 + Len(c.stored)
  BY DEF Start
<1>2. c.stored \in Seq(Range(c.stored))
  BY ScenarioAssumption
<1>3. PICK n : n = Len(c.stored)
  OBVIOUS
<1>4. n \in Nat /\ DOMAIN c.stored = 1 .. n /\ versionSeq = 1 + n
  BY <1>1, <1>2, <1>3
<1>5. /\ DOMAIN object = DOMAIN c.stored /\ object = [v \in DOMAIN object |-> object[v]]
      /\ \A v \in DOMAIN object : object[v].bucket = c.stored[v].bucket /\ object[v].key = c.stored[v].key
  BY <1>1
<1>6. latest \subseteq DOMAIN object
  BY <1>1, <1>5
<1>7. \A v \in DOMAIN object :
        v \in latest <=> \A w \in Versions(object, object[v].bucket, object[v].key) : w <= v
  BY <1>1, <1>5 DEF Versions
<1>8. NewestIn(object, latest)
  BY <1>6, <1>7 DEF NewestIn
<1>9. /\ DOMAIN NoWrites.rows = {} /\ NoWrites.rows = Empty /\ NoWrites.gone = {} /\ NoWrites.cleared = {}
      /\ NoWrites.made = {} /\ Changed(NoWrites) = {} /\ Empty = [x \in DOMAIN Empty |-> Empty[x]]
  BY NoWritesIs
<1>10. \A r \in Session : tx[r].w = NoWrites
  BY StartTx
<1>11. DOMAIN object \subseteq 1 .. versionSeq - 1 /\ versionSeq \in Nat \ {0}
  BY <1>4, <1>5
<1>12. VersionIds
  <2>1. \A r \in Session :
            /\ tx[r].w.rows = [v \in DOMAIN tx[r].w.rows |-> tx[r].w.rows[v]]
            /\ Changed(tx[r].w) \subseteq 1 .. versionSeq - 1
            /\ DOMAIN tx[r].w.rows \cap DOMAIN object = {}
            /\ \A q \in Session \ {r} : Changed(tx[r].w) \cap DOMAIN tx[q].w.rows = {}
    BY <1>9, <1>10
  <2> QED BY <2>1, <1>5, <1>6, <1>11 DEF VersionIds
<1>13. ASSUME NEW r \in Session PROVE Rows(r) = object /\ Flags(r) = latest
  <2>1. Rows(r) = Merge(Restrict(object, DOMAIN object), Empty)
    <3>1. tx[r].w.gone = {} /\ tx[r].w.rows = Empty
      BY <1>9, <1>10
    <3> QED BY <3>1 DEF Rows
  <2>2. Flags(r) = latest
    BY <1>9, <1>10 DEF Flags
  <2> QED BY <2>1, <2>2, <1>5, BareView
<1>14. Views
  BY <1>8, <1>13 DEF Views
<1> QED BY <1>12, <1>14

\* Finitely many rows.
LEMMA StartFinite ==
    ASSUME NEW c \in Scenario, Start(c)
    PROVE  Finite
<1>1. PICK B, P : /\ B = {c.stored[v].body : v \in DOMAIN c.stored}
                  /\ P = {c.pending[u].blob : u \in DOMAIN c.pending}
  OBVIOUS
<1>2. DOMAIN blob = B \cup UNION P
  BY <1>1 DEF Start
<1>3. c.stored \in Seq(Range(c.stored))
  BY ScenarioAssumption
<1>4. Len(c.stored) \in Nat /\ DOMAIN c.stored = 1 .. Len(c.stored)
  BY <1>3
<1>5. IsFiniteSet(DOMAIN c.stored)
  BY <1>4, FS_Interval
<1>6. IsFiniteSet(B)
  <2>1. PICK f : f = [v \in DOMAIN c.stored |-> c.stored[v].body]
    OBVIOUS
  <2>2. f \in Surjection(DOMAIN c.stored, B)
    BY <2>1, <1>1 DEF Surjection
  <2> QED BY <2>2, <1>5, FS_Surjection
<1>7. IsFiniteSet(DOMAIN c.pending) /\ \A u \in DOMAIN c.pending : IsFiniteSet(c.pending[u].blob)
  BY ScenarioAssumption
<1>8. IsFiniteSet(P)
  <2>1. PICK f : f = [u \in DOMAIN c.pending |-> c.pending[u].blob]
    OBVIOUS
  <2>2. f \in Surjection(DOMAIN c.pending, P)
    BY <2>1, <1>1 DEF Surjection
  <2> QED BY <2>2, <1>7, FS_Surjection
<1>9. IsFiniteSet(UNION P)
  BY <1>1, <1>7, <1>8, FS_UNION
<1>10. IsFiniteSet(DOMAIN blob)
  BY <1>2, <1>6, <1>9, FS_Union
<1>11. IsFiniteSet(DOMAIN upload)
  BY <1>7 DEF Start
<1>12. IsFiniteSet(NoWrites.born) /\ IsFiniteSet(DOMAIN NoWrites.staged)
  BY NoWritesIs, FS_EmptySet
<1>13. \A r \in Session : tx[r].w = NoWrites
  BY StartTx
<1> QED BY <1>10, <1>11, <1>12, <1>13 DEF Finite

\* The invariant holds when the sessions start.
LEMMA InitInv ==
    ASSUME Init
    PROVE  Inv
<1>1. PICK c \in Scenario : Start(c)
  BY DEF Init
<1>2. held = {} /\ upload = c.pending
  BY <1>1 DEF Start
<1>3. \A r \in Session : /\ tx[r].w = NoWrites /\ tx[r].id = 0 /\ tx[r].src = 0 /\ tx[r].shot = {}
                         /\ TxFormed(tx[r]) /\ NewIds(r) = {}
  BY <1>1, StartTx
<1>4. /\ DOMAIN NoWrites.rows = {} /\ NoWrites.rows = Empty /\ NoWrites.gone = {} /\ NoWrites.cleared = {}
      /\ NoWrites.made = {} /\ DOMAIN NoWrites.staged = {}
      /\ NoWrites.dropped = {} /\ DOMAIN NoWrites.named = {} /\ NoWrites.unnamed = {}
      /\ NoWrites.named = Empty /\ Empty = [x \in DOMAIN Empty |-> Empty[x]]
  BY NoWritesIs
<1>5. Formed
  <2>1. tx = [r \in Session |-> tx[r]]
    BY <1>1 DEF Start
  <2> QED BY <2>1, <1>3 DEF Formed
<1>6. LockSafe
  BY <1>2 DEF LockSafe
<1>7. Todos /\ BucketIds /\ VersionIds /\ Views /\ Finite
  BY <1>1, StartTodos, StartIds, StartRows, StartFinite
<1>8. Secret
  BY <1>3 DEF Secret
<1>9. OwnKeys /\ Fresh /\ ByCall
  BY <1>3, <1>4 DEF OwnKeys, OwnKeysAt, Fresh, FreshAt, ByCall, ByCallAt
<1>10. Forks
  BY <1>3, <1>4 DEF Forks, ForksAt
<1>11. Named
  BY <1>3, <1>4 DEF Named
<1>12. Uploads
  <2>1. upload = [u \in DOMAIN upload |-> upload[u]]
    BY <1>2, ScenarioAssumption
  <2>2. ASSUME NEW r \in Session PROVE UploadsAt(r)
    <3>1. Call[r].op = "begin_upload" => Call[r].upload \notin DOMAIN upload
      BY <1>2, UploadAssumption
    <3> QED BY <3>1, <1>3, <1>4 DEF UploadsAt
  <2> QED BY <2>1, <2>2, <1>2 DEF Uploads
<1> QED BY <1>5, <1>6, <1>7, <1>8, <1>9, <1>10, <1>11, <1>12 DEF Inv, Data

\* What the invariant says of the sessions holds in every reachable state, whatever
\* the sessions call and however their statements interleave.
THEOREM SessionsInvariant == Spec => []Inv
<1>1. Init => Inv
  BY InitInv
<1>2. Inv /\ [Next]_vars => Inv'
  BY NextStep
<1> QED BY <1>1, <1>2, PTL DEF Spec

\* The latest row of a key is its newest version in every reachable state: the
\* exclusive key lock of _lock_key keeps the order of the version ids that
\* transactions draw and the order of their commits together, for any calls.
THEOREM LatestAlwaysNewest == Spec => []LatestIsNewest
<1>1. Inv => LatestIsNewest
  BY DEF Inv, Data, Views, NewestIn, LatestIsNewest
<1> QED BY <1>1, SessionsInvariant, PTL

-----------------------------------------------------------------------------
(* What COMMIT shows.                                                      *)

\* The snapshot of a fork commits nothing and reads the latest rows of its source.
LEMMA SnapshotShows ==
    ASSUME Inv, NEW r \in Session, Snapshot(r)
    PROVE  /\ UNCHANGED <<bucket, object, latest>>
           /\ \A q \in Session \ {r} : tx'[q] = tx[q]
           /\ tx'[r].shot = {<<tx[r].src, {<<object[v].key, object[v].blob>> : v \in Forked(tx[r].src)}>>}
<1> DEFINE S == Forked(tx[r].src)
           B == (UNION {object[v].blob : v \in S}) \cap DOMAIN blob
           R == {<<object[v].key, object[v].blob>> : v \in S}
           New(s) == [v \in versionSeq .. versionSeq + Len(s) - 1 |->
                        LET row == object[s[v - versionSeq + 1]]
                        IN [bucket |-> tx[r].id, key |-> row.key, blob |-> row.blob]]
<1>1. PICK scan \in SetToSeqs(S), order \in SetToSeqs(B) :
        /\ tx' = [tx EXCEPT ![r].todo = [i \in DOMAIN order |-> Do("bump", {order[i]})] \o Tail(@),
                            ![r].shot = {<<tx[r].src, R>>},
                            ![r].w.rows = New(scan), ![r].w.made = DOMAIN New(scan)]
        /\ UNCHANGED tables
  BY DEF Snapshot
<1>2. PICK f, ls, h, m : /\ f = New(scan) /\ ls = [i \in DOMAIN order |-> Do("bump", {order[i]})]
                         /\ h = {<<tx[r].src, R>>} /\ m = DOMAIN New(scan)
  OBVIOUS
<1>3. tx' = [tx EXCEPT ![r].todo = ls \o Tail(@), ![r].shot = h, ![r].w.rows = f, ![r].w.made = m]
  BY <1>1, <1>2
<1>4. tx = [q \in Session |-> tx[q]]
      /\ tx[r] = [state |-> tx[r].state, todo |-> tx[r].todo, id |-> tx[r].id, src |-> tx[r].src,
                  shot |-> tx[r].shot, w |-> tx[r].w]
  BY DEF Inv, Formed, TxFormed
<1>5. tx'[r].shot = h /\ \A q \in Session \ {r} : tx'[q] = tx[q]
  BY <1>3, <1>4
<1> QED BY <1>1, <1>2, <1>5 DEF tables

\* Statements other than the snapshot of a fork commit nothing and read no source.
LEMMA RunShows ==
    ASSUME Inv, NEW r \in Session, Run(r)
    PROVE  /\ UNCHANGED <<bucket, object, latest>>
           /\ \A q \in Session \ {r} : tx'[q] = tx[q]
           /\ tx'[r].shot = tx[r].shot \/ Snapshot(r)
<1> USE DEF Quiet, tables, Goes
<1>1. tx = [q \in Session |-> tx[q]] /\ TxFormed(tx[r])
  BY DEF Inv, Formed
<1>2. tx[r] = [state |-> tx[r].state, todo |-> tx[r].todo, id |-> tx[r].id, src |-> tx[r].src,
               shot |-> tx[r].shot, w |-> tx[r].w]
  BY <1>1 DEF TxFormed
<1>3. /\ \A l, w : Goes(r, l, w) =>
            tx'[r].shot = tx[r].shot /\ \A q \in Session \ {r} : tx'[q] = tx[q]
      /\ \A l, i : tx' = [tx EXCEPT ![r].todo = l, ![r].id = i] =>
            tx'[r].shot = tx[r].shot /\ \A q \in Session \ {r} : tx'[q] = tx[q]
  BY <1>1, <1>2
<1> USE <1>1, <1>2
<1>4. CASE Lock(r) \/ LockEach(r)
  BY <1>4, ZenonT(40) DEF Lock, LockEach
<1>5. CASE Child(r) \/ Source(r)
  BY <1>5 DEF Child, Source
<1>6. CASE LockKeys(r)
  BY <1>6 DEF LockKeys
<1>7. CASE Check(r) \/ Read(r)
  BY <1>7 DEF Check, Read
<1>8. CASE InsertBlob(r) \/ PinBlob(r)
  BY <1>8 DEF InsertBlob, PinBlob
<1>9. CASE Publish(r)
  BY <1>9 DEF Publish
<1>10. CASE DeleteVersion(r)
  BY <1>10 DEF DeleteVersion
<1>11. CASE Snapshot(r)
  BY <1>11, SnapshotShows
<1>12. CASE Bump(r) \/ CheckEmpty(r)
  BY <1>12 DEF Bump, CheckEmpty
<1>18. CASE InsertBucket(r)
  <2>1. UNCHANGED <<bucket, object, latest>>
    BY <1>18 DEF InsertBucket
  <2>2. PICK l, i, a : tx' = [tx EXCEPT ![r].todo = l, ![r].id = i, ![r].w.named = a]
    BY <1>18 DEF InsertBucket
  <2>3. tx'[r].shot = tx[r].shot /\ \A q \in Session \ {r} : tx'[q] = tx[q]
    BY <2>2
  <2> QED BY <2>1, <2>3
<1>13. CASE DeleteUploads(r) \/ DeleteBucket(r) \/ InsertUpload(r)
  BY <1>13, ZenonT(40) DEF DeleteUploads, DeleteBucket, InsertUpload
<1>14. CASE LockUpload(r) \/ Stage(r)
  BY <1>14 DEF LockUpload, Stage
<1>15. CASE Assemble(r)
  BY <1>15 DEF Assemble
<1>16. CASE DeleteUpload(r) \/ Release(r)
  BY <1>16 DEF DeleteUpload, Release
<1>17. CASE Expire(r) \/ Collect(r)
  BY <1>17, ZenonT(40) DEF Expire, Collect
<1> QED BY <1>4, <1>5, <1>6, <1>7, <1>8, <1>9, <1>10, <1>11, <1>12, <1>13, <1>14, <1>15, <1>16, <1>17, <1>18 DEF Run

\* Errors, deadlocks and cancellations commit nothing.
LEMMA EndShows ==
    ASSUME NEW r \in Session, Raise(r) \/ DeadlockDetected(r) \/ Cancel(r)
    PROVE  \E why : why # "open" /\ Rollback(r, why)
<1>1. CASE Raise(r)
  BY <1>1 DEF Raise, Error
<1>2. CASE DeadlockDetected(r)
  BY <1>2 DEF DeadlockDetected
<1>3. CASE Cancel(r)
  BY <1>3 DEF Cancel
<1> QED BY <1>1, <1>2, <1>3

\* A new row is committed with the transaction that wrote it, and its create-only
\* call has no live object under it.
LEMMA CommitCovers ==
    ASSUME Inv, NEW q \in Session, Commit(q), NEW r \in Session,
           NEW v \in DOMAIN object' \ DOMAIN object, v \in DOMAIN tx[r].w.rows, CreateOnly(r)
    PROVE  LiveLatest(object'[v].bucket, object'[v].key) = {}
<1>1. CommitFrame(q)
  BY CommitIs
<1>2. UnderAs(object', object, tx[q].w)
  BY <1>1, CommitRows
<1>3. v \in DOMAIN tx[q].w.rows /\ object'[v] = tx[q].w.rows[v]
  BY <1>2 DEF UnderAs
<1>4. q = r
  BY <1>3 DEF Inv, Data, VersionIds, Changed
<1>5. Mine(r, tx[r].w.rows[v].bucket, tx[r].w.rows[v].key) /\ Checked(r, tx[r].w.rows[v].key)
  BY DEF Inv, Data, OwnKeys, OwnKeysAt, Fresh, FreshAt
<1>6. LiveLatest(tx[r].id, tx[r].w.rows[v].key) = {} /\ tx[r].w.rows[v].bucket = tx[r].id
  BY <1>5 DEF Checked, Mine
<1> QED BY <1>3, <1>4, <1>6

\* If-None-Match: * has one winner, for any calls and any interleaving: what
\* _check_write_preconditions has found stays true until the COMMIT, because the
\* key lock is held until then.
THEOREM CreateOnlyWins == Spec => CreateOnlyNeverCovers
<1> DEFINE Covers == \A r \in Session : \A v \in DOMAIN object' \ DOMAIN object :
                        v \in DOMAIN tx[r].w.rows /\ CreateOnly(r)
                            => LiveLatest(object'[v].bucket, object'[v].key) = {}
<1>1. Inv /\ [Next]_vars => [Covers]_vars
  <2>1. SUFFICES ASSUME Inv, Next PROVE Covers
    OBVIOUS
  <2>2. PICK r \in Session : Run(r) \/ Commit(r) \/ Raise(r) \/ DeadlockDetected(r) \/ Cancel(r)
    BY <2>1 DEF Next
  <2>3. CASE Commit(r)
    BY <2>1, <2>3, CommitCovers
  <2>4. CASE Run(r)
    <3>1. object' = object
      BY <2>1, <2>4, RunShows
    <3> QED BY <3>1
  <2>5. CASE Raise(r) \/ DeadlockDetected(r) \/ Cancel(r)
    <3>1. object' = object
      BY <2>5, EndShows DEF Rollback, tables
    <3> QED BY <3>1
  <2> QED BY <2>2, <2>3, <2>4, <2>5
<1> HIDE DEF Covers
<1>2. CreateOnlyNeverCovers <=> [][Covers]_vars
  BY DEF CreateOnlyNeverCovers, Covers
<1>3. Spec => [][Covers]_vars
  BY <1>1, SessionsInvariant, PTL DEF Spec
<1> QED BY <1>2, <1>3

-----------------------------------------------------------------------------
(* The transactions implement VersionedBuckets.                            *)

\* The abstract history, before and after a step.
LEMMA HistoryIs ==
    /\ DOMAIN History = DOMAIN object /\ DOMAIN History' = DOMAIN object'
    /\ \A v \in DOMAIN object : /\ History[v].bucket = object[v].bucket
                                 /\ History[v].key = object[v].key /\ History[v].entry = object[v].blob
    /\ \A v \in DOMAIN object' : /\ History'[v].bucket = object'[v].bucket
                                  /\ History'[v].key = object'[v].key /\ History'[v].entry = object'[v].blob
    /\ \A v \in DOMAIN object \cap DOMAIN object' : object'[v] = object[v] => History'[v] = History[v]
    /\ \A b, k : Abstract!Of(b, k) = Versions(object, b, k)
<1>1. DOMAIN History = DOMAIN object /\ DOMAIN History' = DOMAIN object'
  BY DEF History
<1>2. \A v \in DOMAIN object : /\ History[v].bucket = object[v].bucket
                               /\ History[v].key = object[v].key /\ History[v].entry = object[v].blob
  BY DEF History
<1>3. \A v \in DOMAIN object' : /\ History'[v].bucket = object'[v].bucket
                                /\ History'[v].key = object'[v].key /\ History'[v].entry = object'[v].blob
  BY DEF History
<1>4. \A v \in DOMAIN object \cap DOMAIN object' : object'[v] = object[v] => History'[v] = History[v]
  BY DEF History
<1>5. \A b, k : Abstract!Of(b, k) = Versions(object, b, k)
  BY <1>1, <1>2 DEF Abstract!Of, Versions
<1> QED BY <1>1, <1>2, <1>3, <1>4, <1>5

\* What a fork reads is what a reader of its source sees at that moment.
LEMMA ReadsNewest ==
    ASSUME Inv, NEW b
    PROVE  {<<object[v].key, object[v].blob>> : v \in Forked(b)} = Abstract!Newest(b)
<1>1. NewestIn(object, latest)
  BY DEF Inv, Data, Views
<1>2. PICK N : N = {w \in DOMAIN History :
                        /\ History[w].bucket = b
                        /\ \A x \in Abstract!Of(b, History[w].key) : x <= w}
  OBVIOUS
<1>3. \A w \in DOMAIN object : object[w].bucket = b =>
        (w \in latest <=> \A x \in Versions(object, b, object[w].key) : x <= w)
  BY <1>1 DEF NewestIn
<1>4. \A w : w \in N <=> w \in DOMAIN object /\ object[w].bucket = b
                           /\ \A x \in Versions(object, b, object[w].key) : x <= w
  BY <1>2, HistoryIs
<1>5. N = Forked(b)
  BY <1>1, <1>3, <1>4 DEF Forked, NewestIn
<1>6. Abstract!Newest(b) = {<<History[v].key, History[v].entry>> : v \in N}
  BY <1>2 DEF Abstract!Newest
<1>7. \A v \in N : History[v].key = object[v].key /\ History[v].entry = object[v].blob
  BY <1>4, HistoryIs
<1> QED BY <1>5, <1>6, <1>7

\* A statement shows at most a moment at which a fork has read its source.
LEMMA RunAbstract ==
    ASSUME Inv, NEW r \in Session, Run(r)
    PROVE  Abstract!Next
<1>1. /\ UNCHANGED <<bucket, object, latest>>
      /\ \A q \in Session \ {r} : tx'[q] = tx[q]
  BY RunShows
<1>2. UNCHANGED <<bucket, History>>
  BY <1>1 DEF History
<1>3. ASSUME NEW s \in Shots' \ Shots PROVE s[2] = Abstract!Newest(s[1])
  <2>1. PICK q \in Session : s \in tx'[q].shot
    BY DEF Shots
  <2>2. s \notin tx[q].shot
    BY DEF Shots
  <2>3. q = r
    BY <2>1, <2>2, <1>1
  <2>4. Snapshot(r)
    BY <2>1, <2>2, <2>3, RunShows
  <2>5. PICK R : R = {<<object[v].key, object[v].blob>> : v \in Forked(tx[r].src)}
    OBVIOUS
  <2>6. s = <<tx[r].src, R>>
    BY <2>1, <2>3, <2>4, <2>5, SnapshotShows
  <2> QED BY <2>5, <2>6, ReadsNewest
<1> QED BY <1>2, <1>3 DEF Abstract!Next

\* The end of a transaction shows no new moment.
LEMMA EndShots ==
    ASSUME NEW r \in Session, EndFrame(r)
    PROVE  Shots' \subseteq Shots
<1>1. tx'[r].shot = {}
  BY EndedIs
<1>2. \A q \in Session \ {r} : tx'[q].shot = tx[q].shot
  BY OthersAre
<1> QED BY <1>1, <1>2 DEF Shots

\* What COMMIT changes of the names and the history.
LEMMA CommitShows ==
    ASSUME Inv, NEW r \in Session, CommitFrame(r)
    PROVE  /\ DOMAIN object' = (DOMAIN object \ tx[r].w.gone) \cup DOMAIN tx[r].w.rows
           /\ Abstract!Added = DOMAIN tx[r].w.rows
           /\ Abstract!Unchanged(Abstract!Kept)
           /\ \A v \in DOMAIN tx[r].w.rows :
                /\ History'[v].bucket = tx[r].id /\ Ready(r)
                /\ History'[v].key = tx[r].w.rows[v].key /\ History'[v].entry = tx[r].w.rows[v].blob
                /\ Abstract!Above(v)
           /\ \A v \in DOMAIN History \ DOMAIN History' :
                v \in DOMAIN object /\ v \in tx[r].w.gone /\ History[v].bucket = tx[r].id /\ Ready(r)
<1>1. /\ DOMAIN object' = (DOMAIN object \ tx[r].w.gone) \cup DOMAIN tx[r].w.rows
      /\ \A v \in DOMAIN tx[r].w.rows : object'[v] = tx[r].w.rows[v]
      /\ \A v \in DOMAIN object \ tx[r].w.gone : object'[v] = object[v]
      /\ DOMAIN tx[r].w.rows \cap DOMAIN object = {}
      /\ \A v \in DOMAIN tx[r].w.rows : Mine(r, tx[r].w.rows[v].bucket, tx[r].w.rows[v].key)
  BY CommitRows DEF UnderAs
<1>2. Abstract!Added = DOMAIN tx[r].w.rows
  BY <1>1, HistoryIs DEF Abstract!Added
<1>3. Abstract!Unchanged(Abstract!Kept)
  <2>1. \A v \in Abstract!Kept : v \in DOMAIN object /\ v \in DOMAIN object'
    BY HistoryIs DEF Abstract!Kept
  <2>2. \A v \in Abstract!Kept : object'[v] = object[v]
    BY <2>1, <1>1
  <2> QED BY <2>1, <2>2, HistoryIs DEF Abstract!Unchanged
<1>4. ASSUME NEW v \in DOMAIN tx[r].w.rows
      PROVE  /\ History'[v].bucket = tx[r].id /\ Ready(r)
             /\ History'[v].key = tx[r].w.rows[v].key /\ History'[v].entry = tx[r].w.rows[v].blob
             /\ Abstract!Above(v)
  <2>1. tx[r].w.rows[v].bucket = tx[r].id /\ Ready(r)
    BY <1>1 DEF Mine
  <2>2. History'[v].bucket = tx[r].id
        /\ History'[v].key = tx[r].w.rows[v].key /\ History'[v].entry = tx[r].w.rows[v].blob
    BY <2>1, <1>1, HistoryIs
  <2>3. \A x \in Versions(object, tx[r].id, tx[r].w.rows[v].key) : x < v
    BY <2>1 DEF Inv, Data, Fresh, FreshAt
  <2>4. Abstract!Above(v)
    BY <2>2, <2>3, HistoryIs DEF Abstract!Above
  <2> QED BY <2>1, <2>2, <2>4
<1>5. ASSUME NEW v \in DOMAIN History \ DOMAIN History'
      PROVE  v \in DOMAIN object /\ v \in tx[r].w.gone /\ History[v].bucket = tx[r].id /\ Ready(r)
  <2>1. v \in DOMAIN object /\ v \in tx[r].w.gone
    BY <1>1, HistoryIs
  <2>2. Mine(r, object[v].bucket, object[v].key)
    BY <2>1 DEF Inv, Data, OwnKeys, OwnKeysAt
  <2> QED BY <2>1, <2>2, HistoryIs DEF Mine
<1> QED BY <1>1, <1>2, <1>3, <1>4, <1>5

\* A transaction that has no rows to insert or delete leaves the history as it is.
LEMMA HistoryStays ==
    ASSUME Inv, NEW r \in Session, CommitFrame(r), DOMAIN tx[r].w.rows = {},
           tx[r].w.gone \cap DOMAIN object = {}
    PROVE  UNCHANGED History
<1>1. DOMAIN object' = DOMAIN object
  BY CommitShows
<1>2. UnderAs(object', object, tx[r].w)
  BY CommitRows
<1>3. \A v \in DOMAIN object : object'[v] = object[v]
  BY <1>2 DEF UnderAs
<1> QED BY <1>1, <1>3 DEF History

\* The bucket of a transaction that neither creates nor drops one has a name.
LEMMA RootedName ==
    ASSUME Inv, NEW r \in Session, Ready(r), DOMAIN tx[r].w.named = {}
    PROVE  \E n \in DOMAIN bucket : n \in Name /\ bucket[n] = tx[r].id
<1>1. ~IsNew(r)
  BY DEF IsNew, NewIds, Range
<1> QED BY <1>1 DEF Ready, Rooted, Inv, Data, BucketIds

\* create_bucket and fork_bucket add one name for an id that nothing has.
LEMMA CommitCreates ==
    ASSUME Inv, NEW r \in Session, CommitFrame(r), NEW n \in DOMAIN tx[r].w.named
    PROVE  /\ Abstract!Create(n) /\ n \in Name /\ bucket'[n] = tx[r].id
           /\ Call[r].op \in Creating /\ tx[r].w.gone = {}
<1>1. Named
  BY DEF Inv
<1>2. /\ Call[r].op \in Creating /\ n = Call[r].bucket /\ n \notin DOMAIN bucket
      /\ tx[r].w.named[n] = tx[r].id
  BY <1>1 DEF Named
<1>3. DOMAIN tx[r].w.named = {n}
  BY <1>1, <1>2 DEF Named
<1>4. tx[r].w.unnamed = {}
  BY <1>1, <1>2 DEF Named, Creating
<1>5. /\ DOMAIN bucket' = DOMAIN bucket \cup {n} /\ bucket'[n] = tx[r].id
      /\ \A m \in DOMAIN bucket : bucket'[m] = bucket[m]
  BY <1>3, <1>4, CommitNames
<1>6. bucket'[n] \notin Abstract!Range(bucket)
  <2>1. tx[r].id \in NewIds(r)
    BY <1>2 DEF NewIds, Range
  <2>2. \A m \in DOMAIN bucket : bucket[m] # tx[r].id
    BY <2>1 DEF Inv, Data, Secret
  <2> QED BY <2>2, <1>5 DEF Abstract!Range
<1>7. n \in Name
  BY <1>2, CallAssumption DEF Creating
<1>8. tx[r].w.gone = {}
  BY <1>2 DEF Inv, Data, ByCall, ByCallAt, Creating
<1> QED BY <1>2, <1>5, <1>6, <1>7, <1>8 DEF Abstract!Create

\* COMMIT of create_bucket, and of a fork of an empty bucket.
LEMMA CreateAbstract ==
    ASSUME Inv, NEW r \in Session, CommitFrame(r), NEW n \in DOMAIN tx[r].w.named,
           DOMAIN tx[r].w.rows = {}
    PROVE  n \in Name /\ Abstract!CreateBucket(n)
<1>1. Abstract!Create(n) /\ n \in Name /\ tx[r].w.gone = {}
  BY CommitCreates
<1>2. UNCHANGED History
  BY <1>1, HistoryStays
<1> QED BY <1>1, <1>2 DEF Abstract!CreateBucket

\* COMMIT of a fork: the new bucket is its source as it was when it was read.
LEMMA ForkAbstract ==
    ASSUME Inv, NEW r \in Session, CommitFrame(r), NEW m \in DOMAIN tx[r].w.named,
           DOMAIN tx[r].w.rows # {}
    PROVE  m \in Name /\ \E n \in Name : Abstract!Fork(n, m)
<1>1. /\ Abstract!Create(m) /\ m \in Name /\ tx[r].w.gone = {} /\ bucket'[m] = tx[r].id
      /\ Call[r].op \in Creating
  BY CommitCreates
<1>2. Call[r].op = "fork_bucket"
  <2>1. Call[r].op \in Deleting \cup Attaching \cup {"fork_bucket"}
    BY DEF Inv, Data, ByCall, ByCallAt
  <2> QED BY <2>1, <1>1 DEF Creating, Deleting, Attaching
<1>3. /\ tx[r].shot = {<<tx[r].src, Copy(tx[r].w)>>} /\ HasSource(r)
      /\ \A v, x \in DOMAIN tx[r].w.rows : tx[r].w.rows[v].key = tx[r].w.rows[x].key => v = x
  <2>1. ForksAt(r)
    BY DEF Inv, Data, Forks, ForksAt
  <2>2. tx[r].w.rows # Empty
    BY NoWritesIs
  <2> QED BY <2>1, <2>2, <1>2 DEF ForksAt
<1>4. PICK n : n = Call[r].source
  OBVIOUS
<1>5. n \in DOMAIN bucket /\ bucket[n] = tx[r].src /\ n \in Name
  BY <1>2, <1>3, <1>4 DEF HasSource, Inv, Data, BucketIds
<1>6. /\ DOMAIN object' = (DOMAIN object \ tx[r].w.gone) \cup DOMAIN tx[r].w.rows
      /\ Abstract!Added = DOMAIN tx[r].w.rows
      /\ Abstract!Unchanged(Abstract!Kept)
      /\ \A v \in DOMAIN tx[r].w.rows :
            /\ History'[v].bucket = tx[r].id
            /\ History'[v].key = tx[r].w.rows[v].key /\ History'[v].entry = tx[r].w.rows[v].blob
  BY CommitShows
<1>7. DOMAIN History \subseteq DOMAIN History'
  BY <1>1, <1>6, HistoryIs
<1>8. \A v \in Abstract!Added : History'[v].bucket = bucket'[m]
  BY <1>1, <1>6
<1>9. \A v, w \in Abstract!Added : History'[v].key = History'[w].key => v = w
  BY <1>3, <1>6
<1>10. {<<History'[v].key, History'[v].entry>> : v \in Abstract!Added} = Copy(tx[r].w)
  BY <1>6 DEF Copy
<1>11. <<bucket[n], Copy(tx[r].w)>> \in Shots
  BY <1>3, <1>5 DEF Shots
<1>12. Abstract!Fork(n, m)
  BY <1>1, <1>5, <1>6, <1>7, <1>8, <1>9, <1>10, <1>11 DEF Abstract!Fork
<1> QED BY <1>1, <1>5, <1>12

\* COMMIT of delete_bucket: the bucket is empty then, too.
LEMMA DropAbstract ==
    ASSUME Inv, NEW r \in Session, CommitFrame(r), NEW n \in tx[r].w.unnamed
    PROVE  n \in Name /\ Abstract!DropBucket(n)
<1>1. Named
  BY DEF Inv
<1>2. Call[r].op = "delete_bucket" /\ n = Call[r].bucket /\ Emptied(r) /\ tx[r].w.unnamed = {n}
  BY <1>1 DEF Named
<1>3. DOMAIN tx[r].w.named = {}
  BY <1>1, <1>2 DEF Named, Creating
<1>4. n \in DOMAIN bucket /\ bucket[n] = tx[r].id /\ \A v \in DOMAIN object : object[v].bucket # tx[r].id
  BY <1>2 DEF Emptied
<1>5. DOMAIN tx[r].w.rows = {} /\ tx[r].w.gone = {}
  BY <1>2 DEF Inv, Data, ByCall, ByCallAt, Deleting, Attaching
<1>6. UNCHANGED History
  BY <1>5, HistoryStays
<1>7. \A v \in DOMAIN History : History[v].bucket # bucket[n]
  BY <1>4, HistoryIs
<1>8. /\ bucket' = [m \in DOMAIN bucket' |-> bucket'[m]]
      /\ DOMAIN bucket' = DOMAIN bucket \ {n}
      /\ \A m \in DOMAIN bucket \ {n} : bucket'[m] = bucket[m]
  BY <1>2, <1>3, CommitNames
<1>9. bucket' = Abstract!Restrict(bucket, DOMAIN bucket \ {n})
  BY <1>8 DEF Abstract!Restrict
<1>10. n \in Name
  BY <1>4 DEF Inv, Data, BucketIds
<1> QED BY <1>4, <1>6, <1>7, <1>9, <1>10 DEF Abstract!DropBucket

\* COMMIT of a call that keeps the names and changes versions.
LEMMA WriteAbstract ==
    ASSUME Inv, NEW r \in Session, CommitFrame(r), tx[r].w.unnamed = {}, DOMAIN tx[r].w.named = {},
           DOMAIN tx[r].w.rows # {} \/ tx[r].w.gone \cap DOMAIN object # {}
    PROVE  \E n \in Name : Abstract!Publish(n) \/ Abstract!DeleteVersions(n)
<1>1. UNCHANGED bucket
  <2>1. /\ bucket' = [m \in DOMAIN bucket' |-> bucket'[m]]
        /\ DOMAIN bucket' = DOMAIN bucket
        /\ \A m \in DOMAIN bucket : bucket'[m] = bucket[m]
    BY CommitNames
  <2>2. bucket = [m \in DOMAIN bucket |-> bucket[m]]
    BY DEF Inv, Data, BucketIds
  <2> QED BY <2>1, <2>2
<1>2. /\ DOMAIN object' = (DOMAIN object \ tx[r].w.gone) \cup DOMAIN tx[r].w.rows
      /\ Abstract!Added = DOMAIN tx[r].w.rows
      /\ Abstract!Unchanged(Abstract!Kept)
      /\ \A v \in DOMAIN tx[r].w.rows :
            /\ History'[v].bucket = tx[r].id /\ Ready(r)
            /\ History'[v].entry = tx[r].w.rows[v].blob
            /\ Abstract!Above(v)
      /\ \A v \in DOMAIN History \ DOMAIN History' :
            v \in DOMAIN object /\ v \in tx[r].w.gone /\ History[v].bucket = tx[r].id /\ Ready(r)
  BY CommitShows
<1>3. Ready(r)
  <2>1. CASE DOMAIN tx[r].w.rows # {}
    BY <2>1, <1>2
  <2>2. CASE tx[r].w.gone \cap DOMAIN object # {}
    <3>1. PICK v : v \in tx[r].w.gone \cap DOMAIN object
      BY <2>2
    <3>2. Mine(r, object[v].bucket, object[v].key)
      BY <3>1 DEF Inv, Data, OwnKeys, OwnKeysAt
    <3> QED BY <3>2 DEF Mine
  <2> QED BY <2>1, <2>2
<1>4. PICK n \in DOMAIN bucket : n \in Name /\ bucket[n] = tx[r].id
  BY <1>3, RootedName
<1>5. ~IsNew(r)
  BY DEF IsNew, NewIds, Range
<1>6. /\ \A v \in DOMAIN tx[r].w.rows :
            /\ Call[r].op \in Deleting \cup Attaching
            /\ Call[r].op \in Deleting => tx[r].w.rows[v].blob = {}
            /\ Call[r].op \in Attaching => tx[r].w.rows[v].blob # {} /\ DOMAIN tx[r].w.rows = {v}
      /\ tx[r].w.gone # {} => Call[r].op = "delete_many"
  BY <1>5 DEF Inv, Data, ByCall, ByCallAt
<1>7. CASE Call[r].op \in Attaching
  <2>1. tx[r].w.gone = {}
    BY <1>6, <1>7 DEF Attaching
  <2>2. PICK v : v \in DOMAIN tx[r].w.rows
    BY <2>1
  <2>3. Abstract!Added = {v} /\ History'[v].entry # {} /\ History'[v].bucket = bucket[n] /\ Abstract!Above(v)
    BY <2>2, <1>2, <1>4, <1>6, <1>7
  <2>4. DOMAIN History \subseteq DOMAIN History'
    BY <2>1, <1>2, HistoryIs
  <2>5. Abstract!Publish(n)
    BY <2>3, <2>4, <1>1, <1>2, <1>4 DEF Abstract!Publish, Abstract!Marker
  <2> QED BY <2>5, <1>4
<1>8. CASE Call[r].op \notin Attaching
  <2>1. \A v \in DOMAIN tx[r].w.rows : tx[r].w.rows[v].blob = {}
    BY <1>6, <1>8
  <2>2. \A v \in Abstract!Added :
            History'[v].bucket = bucket[n] /\ History'[v].entry = {} /\ Abstract!Above(v)
    BY <2>1, <1>2, <1>4
  <2>3. \A v \in DOMAIN History \ DOMAIN History' : History[v].bucket = bucket[n]
    BY <1>2, <1>4
  <2>4. Abstract!DeleteVersions(n)
    BY <2>2, <2>3, <1>1, <1>2, <1>4 DEF Abstract!DeleteVersions, Abstract!Marker
  <2> QED BY <2>4, <1>4
<1> QED BY <1>7, <1>8

\* COMMIT is one step of the abstract buckets.
LEMMA CommitAbstract ==
    ASSUME Inv, NEW r \in Session, Commit(r)
    PROVE  Abstract!Next
<1>1. CommitFrame(r)
  BY CommitIs
<1>2. \A s \in Shots' \ Shots : s[2] = Abstract!Newest(s[1])
  BY <1>1, EndShots DEF CommitFrame
<1>3. \/ \E n \in Name : \/ Abstract!CreateBucket(n) \/ Abstract!DropBucket(n)
                         \/ Abstract!Publish(n) \/ Abstract!DeleteVersions(n)
      \/ \E n, m \in Name : Abstract!Fork(n, m)
      \/ UNCHANGED <<bucket, History>>
  <2>1. CASE DOMAIN tx[r].w.named # {}
    <3>1. PICK n : n \in DOMAIN tx[r].w.named
      BY <2>1
    <3>2. CASE DOMAIN tx[r].w.rows = {}
      BY <1>1, <3>1, <3>2, CreateAbstract
    <3>3. CASE DOMAIN tx[r].w.rows # {}
      BY <1>1, <3>1, <3>3, ForkAbstract
    <3> QED BY <3>2, <3>3
  <2>2. CASE tx[r].w.unnamed # {}
    <3>1. PICK n : n \in tx[r].w.unnamed
      BY <2>2
    <3> QED BY <1>1, <3>1, DropAbstract
  <2>3. CASE DOMAIN tx[r].w.named = {} /\ tx[r].w.unnamed = {}
    <3>1. CASE DOMAIN tx[r].w.rows # {} \/ tx[r].w.gone \cap DOMAIN object # {}
      BY <1>1, <2>3, <3>1, WriteAbstract
    <3>2. CASE DOMAIN tx[r].w.rows = {} /\ tx[r].w.gone \cap DOMAIN object = {}
      <4>1. UNCHANGED History
        BY <1>1, <3>2, HistoryStays
      <4>2. /\ bucket' = [m \in DOMAIN bucket' |-> bucket'[m]]
            /\ DOMAIN bucket' = DOMAIN bucket
            /\ \A m \in DOMAIN bucket : bucket'[m] = bucket[m]
        BY <1>1, <2>3, CommitNames
      <4>3. bucket = [m \in DOMAIN bucket |-> bucket[m]]
        BY DEF Inv, Data, BucketIds
      <4>4. UNCHANGED bucket
        BY <4>2, <4>3
      <4> QED BY <4>1, <4>4
    <3> QED BY <3>1, <3>2
  <2> QED BY <2>1, <2>2, <2>3
<1> QED BY <1>2, <1>3 DEF Abstract!Next

\* ROLLBACK shows nothing.
LEMMA RollbackAbstract ==
    ASSUME Inv, NEW r \in Session, NEW why, Rollback(r, why)
    PROVE  Abstract!Next
<1>1. UNCHANGED <<bucket, object>> /\ tx' = [tx EXCEPT ![r] = Ended(why)]
  BY DEF Rollback, tables
<1>2. UNCHANGED <<bucket, History>>
  BY <1>1 DEF History
<1>3. tx = [q \in Session |-> tx[q]]
  BY DEF Inv, Formed
<1>4. tx'[r] = Ended(why) /\ \A q \in Session \ {r} : tx'[q] = tx[q]
  BY <1>1, <1>3
<1>5. tx'[r].shot = {}
  BY <1>4 DEF Ended
<1>6. Shots' \subseteq Shots
  BY <1>4, <1>5 DEF Shots
<1> QED BY <1>2, <1>6 DEF Abstract!Next

\* The transactions act atomically, for any calls, sessions and scenarios: every
\* interleaving of their statements, errors, deadlocks and cancellations is a
\* behaviour of VersionedBuckets, in which a call happens at its COMMIT, a version
\* is published above all others of its key, and a fork is its source as it was at
\* one moment.
THEOREM SessionsImplement == Spec => ActsAtomically
<1>1. Inv /\ [Next]_vars => [Abstract!Next]_(Abstract!vars)
  <2>1. CASE UNCHANGED vars
    <3>1. UNCHANGED <<bucket, object, tx>>
      BY <2>1 DEF vars, tables
    <3>2. UNCHANGED <<bucket, History, Shots>>
      BY <3>1 DEF History, Shots
    <3> QED BY <3>2 DEF Abstract!vars
  <2>2. ASSUME Inv, Next PROVE Abstract!Next
    <3>1. PICK r \in Session : Run(r) \/ Commit(r) \/ Raise(r) \/ DeadlockDetected(r) \/ Cancel(r)
      BY <2>2 DEF Next
    <3>2. CASE Run(r)
      BY <2>2, <3>2, RunAbstract
    <3>3. CASE Commit(r)
      BY <2>2, <3>3, CommitAbstract
    <3>4. CASE Raise(r) \/ DeadlockDetected(r) \/ Cancel(r)
      <4>1. PICK why : Rollback(r, why)
        BY <3>4, EndShows
      <4> QED BY <2>2, <4>1, RollbackAbstract
    <3> QED BY <3>1, <3>2, <3>3, <3>4
  <2> QED BY <2>1, <2>2
<1>2. Spec => [][Abstract!Next]_(Abstract!vars)
  BY <1>1, SessionsInvariant, PTL DEF Spec
<1> QED BY <1>2 DEF ActsAtomically, Abstract!Steps

=============================================================================
