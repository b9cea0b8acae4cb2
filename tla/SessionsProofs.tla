--------------------------- MODULE SessionsProofs ---------------------------
(***************************************************************************)
(* Proofs about module Sessions, for any calls, sessions and scenarios.    *)
(* What a transaction may rely on at a statement is a fact that an earlier *)
(* statement provides and that no other session can take away before       *)
(* COMMIT: the lifecycle lock with the bucket id found under it, a key     *)
(* lock, what was checked under it, the lock of an upload row, the source  *)
(* of a fork, an empty bucket.                                             *)
(***************************************************************************)
EXTENDS Sessions, LeastElements, FiniteSetTheorems

-----------------------------------------------------------------------------
(* Statements and the calls that run them.                                 *)

Deleting == {"delete", "delete_many"}
Attaching == {"put", "copy", "complete_upload"}
Creating == {"create_bucket", "fork_bucket"}

Allowed(op) ==
    CASE op = "create_bucket" -> {"exclusive", "insert bucket"}
      [] op = "delete_bucket" ->
            {"exclusive", "check empty", "delete uploads", "delete upload", "release",
             "delete bucket"}
      [] op = "put" -> {"child", "lock key", "check", "insert blob", "lock blob", "publish"}
      [] op = "delete" -> {"child", "lock key", "publish"}
      [] op = "delete_many" -> {"child", "lock each", "publish", "remove"}
      [] op = "copy" ->
            {"source", "child", "lock keys", "lock key", "lock source key", "read", "check",
             "share blob", "publish"}
      [] op = "fork_bucket" ->
            {"shared", "exclusive", "source", "insert bucket", "snapshot", "bump"}
      [] op = "begin_upload" -> {"child", "insert upload"}
      [] op = "put_chunk" -> {"lock upload", "insert blob", "lock blob", "stage"}
      [] op = "complete_upload" ->
            {"lock upload", "assemble", "insert blob", "lock blob", "child", "share blob",
             "lock key", "check", "publish", "delete upload", "release"}
      [] op = "abort_upload" -> {"lock upload", "delete upload", "release"}
      [] op = "gc_pending_uploads" -> {"expire", "release"}
      [] op = "gc_blobs" -> {"collect"}
      [] OTHER -> {}

\* A statement that the call of r may run, with its arguments.
Suits(r, s) ==
    /\ s = Do(s.verb, s.arg)
    /\ s.verb \in Allowed(Call[r].op)
    /\ s.verb \in {"insert bucket", "check empty", "delete bucket"} => s.arg = Call[r].bucket
    /\ s.verb = "source" => s.arg = Call[r].source
    /\ s.verb = "insert upload" => s.arg = Call[r].upload
    /\ s.verb \in {"lock upload", "assemble"} => s.arg = Call[r].upload
    /\ s.verb = "publish" => (s.arg.blob = {} <=> Call[r].op \in Deleting)

Ready0 == <<"ready", 0>>
Upload0 == <<"upload", 0>>
Source0 == <<"source", 0>>
Empty0 == <<"empty", 0>>

\* The facts that a statement relies on, and those it establishes.
Requires(r, s) ==
    CASE s.verb \in {"lock key", "lock each", "lock keys", "insert upload"} -> {Ready0}
      [] s.verb = "check" ->
            {Ready0, <<"key", s.arg>>}
                \cup (IF Call[r].op = "complete_upload" THEN {Upload0} ELSE {})
      [] s.verb = "publish" -> {Ready0, <<"key", s.arg.key>>, <<"checked", s.arg.key>>}
      [] s.verb = "remove" -> {Ready0, <<"key", s.arg.key>>}
      [] s.verb = "read" -> {Ready0, <<"key", Call[r].key>>}
      [] s.verb = "snapshot" -> {Ready0, Source0}
      [] s.verb \in {"insert bucket", "check empty"} -> {<<"exclusive", s.arg>>}
      [] s.verb = "delete bucket" -> {Empty0}
      [] s.verb = "source" /\ Call[r].op = "fork_bucket" -> {<<"shared", s.arg>>}
      [] s.verb \in {"assemble", "stage"} -> {Upload0}
      [] OTHER -> {}

Provides(r, s) ==
    CASE s.verb \in {"child", "insert bucket"} -> {Ready0}
      [] s.verb = "lock key" -> {<<"key", s.arg>>}
      [] s.verb = "lock each" -> {<<"key", k>> : k \in s.arg}
      [] s.verb = "lock keys" -> {<<"key", Call[r].key>>}
      [] s.verb = "check" -> {<<"checked", s.arg>>}
      [] s.verb = "lock upload" -> {Upload0}
      [] s.verb = "exclusive" -> {<<"exclusive", s.arg>>}
      [] s.verb = "shared" -> {<<"shared", s.arg>>}
      [] s.verb = "source" -> {Source0}
      [] s.verb = "check empty" -> {Empty0}
      [] OTHER -> {}

-----------------------------------------------------------------------------
(* Facts about a running transaction.                                      *)

Holding(r, resource, mode) == <<r, resource, mode>> \in held

\* The id was found under the lifecycle lock, or drawn by this transaction.
Rooted(r) ==
    \E n \in DOMAIN bucket : Holding(r, Lifecycle(n), "shared") /\ bucket[n] = tx[r].id
NewIds(r) == Range(tx[r].w.named)
IsNew(r) == tx[r].id \in NewIds(r)
Ready(r) == (Rooted(r) /\ Call[r].op # "fork_bucket") \/ IsNew(r)

HasKey(r, k) == tx[r].id # 0 /\ Holding(r, KeyLock(tx[r].id, k), "exclusive")
HasUpload(r) == Holding(r, UploadRow(Call[r].upload), "update")
Checked(r, k) ==
    /\ Call[r].op = "complete_upload" => HasUpload(r)
    /\ CreateOnly(r) => HasKey(r, k) /\ LiveLatest(tx[r].id, k) = {}
HasSource(r) ==
    Call[r].op = "fork_bucket" =>
        /\ Call[r].source \in DOMAIN bucket /\ bucket[Call[r].source] = tx[r].src
        /\ Holding(r, Lifecycle(Call[r].source), "shared")
Emptied(r) ==
    /\ Call[r].bucket \in DOMAIN bucket /\ bucket[Call[r].bucket] = tx[r].id
    /\ Holding(r, Lifecycle(Call[r].bucket), "exclusive")
    /\ \A v \in DOMAIN object : object[v].bucket # tx[r].id

Holds(r, f) ==
    \/ f[1] = "ready" /\ Ready(r)
    \/ f[1] = "key" /\ HasKey(r, f[2])
    \/ f[1] = "checked" /\ Checked(r, f[2])
    \/ f[1] = "upload" /\ HasUpload(r)
    \/ f[1] = "exclusive" /\ Holding(r, Lifecycle(f[2]), "exclusive")
    \/ f[1] = "shared" /\ Holding(r, Lifecycle(f[2]), "shared")
    \/ f[1] = "source" /\ HasSource(r)
    \/ f[1] = "empty" /\ Emptied(r)

\* A key that only r can change: locked, or in a bucket nobody else knows.
Mine(r, b, k) == b = tx[r].id /\ Ready(r) /\ (HasKey(r, k) \/ IsNew(r))

-----------------------------------------------------------------------------
(* The inductive invariant, part by part.                                  *)

IsSeq(s) == Len(s) \in Nat /\ s = [i \in 1 .. Len(s) |-> s[i]]

WritesFormed(w) ==
    w = [rows |-> w.rows, gone |-> w.gone, cleared |-> w.cleared, made |-> w.made,
         born |-> w.born, dead |-> w.dead, delta |-> w.delta,
         staged |-> w.staged, dropped |-> w.dropped, named |-> w.named, unnamed |-> w.unnamed]
TxFormed(t) ==
    /\ t = [state |-> t.state, todo |-> t.todo, id |-> t.id, src |-> t.src, shot |-> t.shot,
            w |-> t.w]
    /\ IsSeq(t.todo)
    /\ WritesFormed(t.w)
    /\ t.state # "open" => t = Ended(t.state)

Formed ==
    /\ tx = [r \in Session |-> tx[r]]
    /\ \A r \in Session : TxFormed(tx[r])

SuitedAt(r, t) == \A i \in DOMAIN t : Suits(r, t[i])
Suited == \A r \in Session : SuitedAt(r, tx[r].todo)

\* Whatever a statement relies on holds already or is established before it runs.
PreparedAt(r, t) ==
    \A i \in DOMAIN t : \A f \in Requires(r, t[i]) :
        Holds(r, f) \/ \E j \in DOMAIN t : j < i /\ f \in Provides(r, t[j])
Prepared == \A r \in Session : PreparedAt(r, tx[r].todo)

\* Statements that decide the bucket id, and those that write object rows.
Setter == {"assemble", "insert bucket", "check empty"}
Writer == {"publish", "read", "assemble", "snapshot"}

Sole(t, V, i) == \A j \in DOMAIN t : t[j].verb \in V => j = i
Clean(w) == w.rows = Empty /\ w.gone = {} /\ w.cleared = {} /\ w.made = {}

SettlingAt(t, id) ==
    \A i \in DOMAIN t : t[i].verb \in Setter => id = 0 /\ Sole(t, Setter \cup {"child"}, i)
Settling == \A r \in Session : SettlingAt(tx[r].todo, tx[r].id)

OnceAt(r, t, w) ==
    Call[r].op \notin Deleting =>
        \A i \in DOMAIN t : t[i].verb \in Writer => Clean(w) /\ Sole(t, Writer, i)
Once == \A r \in Session : OnceAt(r, tx[r].todo, tx[r].w)

\* Nobody holds a lock that conflicts with another one.
LockSafe ==
    \A g, h \in held :
        /\ g[1] \in Session /\ g = <<g[1], g[2], g[3]>>
        /\ g[2][1] = "key" => g[3] = "exclusive"
        /\ g[2][1] = "upload" => g[3] = "update"
        /\ g[1] # h[1] /\ g[2] = h[2] /\ g[2][1] # "blob" => <<g[3], h[3]>> \notin Conflicting

Ids == 1 .. bucketSeq - 1

BucketIds ==
    /\ bucketSeq \in Nat \ {0}
    /\ DOMAIN bucket \subseteq Name /\ \A n \in DOMAIN bucket : bucket[n] \in Ids
    /\ bucket = [n \in DOMAIN bucket |-> bucket[n]]
    /\ \A n, m \in DOMAIN bucket : bucket[n] = bucket[m] => n = m
    /\ \A v \in DOMAIN object : object[v].bucket \in Ids
    /\ \A u \in DOMAIN upload : upload[u].bucket \in Ids
    /\ \A r \in Session :
        /\ tx[r].id \in Ids \cup {0} /\ tx[r].src \in Ids \cup {0}
        /\ NewIds(r) \subseteq Ids \cap {tx[r].id}

\* A new bucket id is known to its transaction only.
Secret ==
    \A r \in Session : \A b \in NewIds(r) :
        /\ \A n \in DOMAIN bucket : bucket[n] # b
        /\ \A v \in DOMAIN object : object[v].bucket # b
        /\ \A u \in DOMAIN upload : upload[u].bucket # b
        /\ \A q \in Session \ {r} : tx[q].id # b

\* Names change under the exclusive lifecycle lock only.
Named ==
    \A r \in Session : LET w == tx[r].w IN
        /\ w.named = [n \in DOMAIN w.named |-> w.named[n]]
        /\ \A n \in DOMAIN w.named :
            /\ Call[r].op \in Creating /\ n = Call[r].bucket /\ n \notin DOMAIN bucket
            /\ w.named[n] = tx[r].id
            /\ Holding(r, Lifecycle(n), "exclusive")
        /\ \A n \in w.unnamed :
            Call[r].op = "delete_bucket" /\ n = Call[r].bucket /\ Emptied(r)

\* Upload rows change under their lock only, and the id of a new one is new.
UploadsAt(r) ==
    LET w == tx[r].w
    IN /\ \A u \in DOMAIN w.staged :
            /\ \/ Holding(r, UploadRow(u), "update")
               \/ Call[r].op = "begin_upload" /\ u = Call[r].upload
            /\ w.staged[u].bucket \in Ids
            /\ \A q \in Session \ {r} : w.staged[u].bucket \notin NewIds(q)
       /\ \A u \in w.dropped : Holding(r, UploadRow(u), "update")
       /\ Call[r].op = "begin_upload" /\ tx[r].state = "open"
            => Call[r].upload \notin DOMAIN upload
Uploads ==
    /\ upload = [u \in DOMAIN upload |-> upload[u]]
    /\ \A r \in Session : UploadsAt(r)
    /\ \A h \in held :
        h[2][1] = "upload" => h[2][2] \in DOMAIN upload /\ h[2] = UploadRow(h[2][2])

\* Statements that go through rows one by one come to an end.
Finite ==
    /\ IsFiniteSet(DOMAIN blob) /\ IsFiniteSet(DOMAIN upload)
    /\ \A r \in Session : IsFiniteSet(tx[r].w.born) /\ IsFiniteSet(DOMAIN tx[r].w.staged)

\* Version ids come from the sequence, and every one is drawn once.
Changed(w) == DOMAIN w.rows \cup w.gone \cup w.cleared \cup w.made
VersionIds ==
    /\ versionSeq \in Nat \ {0}
    /\ object = [v \in DOMAIN object |-> object[v]]
    /\ DOMAIN object \subseteq 1 .. versionSeq - 1
    /\ latest \subseteq DOMAIN object
    /\ \A r \in Session : LET w == tx[r].w IN
        /\ w.rows = [v \in DOMAIN w.rows |-> w.rows[v]]
        /\ Changed(w) \subseteq 1 .. versionSeq - 1
        /\ DOMAIN w.rows \cap DOMAIN object = {}
        /\ \A q \in Session \ {r} : Changed(w) \cap DOMAIN tx[q].w.rows = {}

\* A transaction writes its own keys only.
OwnKeysAt(r) ==
    LET w == tx[r].w
    IN /\ \A v \in DOMAIN w.rows : Mine(r, w.rows[v].bucket, w.rows[v].key)
       /\ \A v \in (w.gone \cup w.cleared \cup w.made) \cap DOMAIN object :
            Mine(r, object[v].bucket, object[v].key)
OwnKeys == \A r \in Session : OwnKeysAt(r)

\* The latest row of every key is its newest one.
NewestIn(o, l) ==
    /\ l \subseteq DOMAIN o
    /\ \A v \in DOMAIN o : v \in l <=> \A w \in Versions(o, o[v].bucket, o[v].key) : w <= v
Views == NewestIn(object, latest) /\ \A r \in Session : NewestIn(Rows(r), Flags(r))

\* What a transaction adds is newer than what is committed, and checked.
FreshAt(r) ==
    LET w == tx[r].w
    IN \A v \in DOMAIN w.rows :
            /\ \A x \in Versions(object, w.rows[v].bucket, w.rows[v].key) : x < v
            /\ Checked(r, w.rows[v].key)
Fresh == \A r \in Session : FreshAt(r)

\* What the rows of a transaction can be, call by call.
ByCallAt(r) ==
    LET w == tx[r].w
    IN /\ \A v \in DOMAIN w.rows :
            /\ Call[r].op \in Deleting \cup Attaching \cup {"fork_bucket"}
            /\ Call[r].op \in Deleting => w.rows[v].blob = {}
            /\ Call[r].op \in Attaching => w.rows[v].blob # {} /\ DOMAIN w.rows = {v}
            /\ Call[r].op = "fork_bucket" => IsNew(r)
       /\ w.gone # {} => Call[r].op = "delete_many"
ByCall == \A r \in Session : ByCallAt(r)

\* A fork is what it has read of its source.
Copy(w) == {<<w.rows[v].key, w.rows[v].blob>> : v \in DOMAIN w.rows}
ForksAt(r) ==
    LET w == tx[r].w
    IN  \/ tx[r].shot = {} /\ Call[r].op # "fork_bucket"
        \/ tx[r].shot = {} /\ w.rows = Empty
        \/ /\ tx[r].shot = {<<tx[r].src, Copy(w)>>} /\ HasSource(r) /\ Call[r].op = "fork_bucket"
           /\ \A v, x \in DOMAIN w.rows : w.rows[v].key = w.rows[x].key => v = x
Forks == \A r \in Session : ForksAt(r)

\* A fork that has not read its source is going to.
WillReadAt(r, t) ==
    Call[r].op = "fork_bucket" /\ tx[r].state = "open" /\ tx[r].shot = {} =>
        \E i \in DOMAIN t : t[i].verb = "snapshot"
WillRead == \A r \in Session : WillReadAt(r, tx[r].todo)

-----------------------------------------------------------------------------
(* Sequences of statements.                                                *)

\* t is ls followed by what comes after the first statement of s.
Continues(t, ls, s) ==
    /\ Len(ls) \in Nat /\ DOMAIN ls = 1 .. Len(ls) /\ DOMAIN s = 1 .. Len(s) /\ Len(s) \in Nat
    /\ Len(s) >= 1
    /\ DOMAIN t = 1 .. Len(ls) + Len(s) - 1
    /\ \A i \in 1 .. Len(ls) : t[i] = ls[i]
    /\ \A i \in 2 .. Len(s) : t[Len(ls) + i - 1] = s[i]

\* A sequence is a sequence over its own elements.
LEMMA SeqOver ==
    ASSUME NEW s, IsSeq(s)
    PROVE  s \in Seq(Range(s)) /\ DOMAIN s = 1 .. Len(s)
<1>1. DOMAIN s = 1 .. Len(s)
  BY DEF IsSeq
<1>2. \A i \in 1 .. Len(s) : s[i] \in Range(s)
  BY <1>1 DEF Range
<1>3. s \in [1 .. Len(s) -> Range(s)]
  BY <1>2 DEF IsSeq
<1> QED BY <1>1, <1>3 DEF IsSeq

\* Elements of a sequence over a set make it a sequence.
LEMMA OverIsSeq ==
    ASSUME NEW S, NEW s \in Seq(S)
    PROVE  IsSeq(s)
BY DEF IsSeq

\* The first statement exists.
LEMMA HeadFirst ==
    ASSUME NEW s, IsSeq(s), s # <<>>
    PROVE  Len(s) >= 1 /\ 1 \in DOMAIN s /\ Head(s) = s[1]
<1>1. s \in Seq(Range(s)) /\ DOMAIN s = 1 .. Len(s)
  BY SeqOver
<1> QED BY <1>1

\* What the next list of statements is made of.
LEMMA ContinuesTail ==
    ASSUME NEW ls, IsSeq(ls), NEW s, IsSeq(s), s # <<>>
    PROVE  IsSeq(ls \o Tail(s)) /\ Continues(ls \o Tail(s), ls, s)
<1> DEFINE S == Range(ls) \cup Range(s)
           t == ls \o Tail(s)
<1>1. ls \in Seq(Range(ls)) /\ s \in Seq(Range(s)) /\ DOMAIN s = 1 .. Len(s) /\ DOMAIN ls = 1 .. Len(ls)
  BY SeqOver
<1>2. ls \in Seq(S) /\ s \in Seq(S)
  BY <1>1
<1> HIDE DEF S
<1>3. Tail(s) \in Seq(S) /\ Len(Tail(s)) = Len(s) - 1 /\ Len(s) >= 1
      /\ \A i \in 1 .. Len(s) - 1 : Tail(s)[i] = s[i + 1]
  BY <1>2
<1>4. t \in Seq(S) /\ Len(t) = Len(ls) + Len(s) - 1
  BY <1>2, <1>3
<1>5. DOMAIN t = 1 .. Len(ls) + Len(s) - 1
  BY <1>4
<1>6. \A i \in 1 .. Len(ls) : t[i] = ls[i]
  BY <1>2, <1>3
<1>7. ASSUME NEW i \in 2 .. Len(s) PROVE t[Len(ls) + i - 1] = s[i]
  <2>1. t[Len(ls) + i - 1] = Tail(s)[i - 1]
    BY <1>2, <1>3
  <2> QED BY <2>1, <1>3
<1>8. IsSeq(t)
  BY <1>4, OverIsSeq
<1> QED BY <1>1, <1>3, <1>5, <1>6, <1>7, <1>8 DEF Continues, IsSeq

\* The rest of the statements.
LEMMA ContinuesNothing ==
    ASSUME NEW s, IsSeq(s), s # <<>>
    PROVE  Tail(s) = <<>> \o Tail(s) /\ IsSeq(Tail(s)) /\ IsSeq(<<>>) /\ Continues(Tail(s), <<>>, s)
<1>1. s \in Seq(Range(s))
  BY SeqOver
<1>2. Tail(s) = <<>> \o Tail(s)
  BY <1>1
<1>3. IsSeq(<<>>)
  BY DEF IsSeq
<1> QED BY <1>2, <1>3, ContinuesTail

\* A statement of the new list is one of ls or a later one of s, and back.
LEMMA ContinuesWhere ==
    ASSUME NEW t, NEW ls, NEW s, Continues(t, ls, s)
    PROVE  /\ \A i \in DOMAIN t :
                \/ i \in DOMAIN ls /\ t[i] = ls[i]
                \/ /\ i \notin DOMAIN ls
                   /\ i - Len(ls) + 1 \in DOMAIN s /\ i - Len(ls) + 1 > 1
                   /\ t[i] = s[i - Len(ls) + 1]
           /\ \A i \in DOMAIN ls : i \in DOMAIN t /\ t[i] = ls[i]
           /\ \A i \in DOMAIN s : i > 1 => Len(ls) + i - 1 \in DOMAIN t /\ t[Len(ls) + i - 1] = s[i]
<1> DEFINE n == Len(ls)
           m == Len(s)
<1>1. /\ n \in Nat /\ m \in Nat /\ m >= 1
      /\ DOMAIN ls = 1 .. n /\ DOMAIN s = 1 .. m
      /\ DOMAIN t = 1 .. n + m - 1
      /\ \A i \in 1 .. n : t[i] = ls[i]
      /\ \A i \in 2 .. m : t[n + i - 1] = s[i]
  BY DEF Continues
<1> HIDE DEF n, m
<1>2. ASSUME NEW i \in DOMAIN t
      PROVE  \/ i \in DOMAIN ls /\ t[i] = ls[i]
             \/ /\ i \notin DOMAIN ls /\ i - n + 1 \in DOMAIN s /\ i - n + 1 > 1
                /\ t[i] = s[i - n + 1]
  <2>1. CASE i <= n
    BY <1>1, <2>1
  <2>2. CASE ~(i <= n)
    <3> DEFINE j == i - n + 1
    <3>1. j \in 2 .. m /\ n + j - 1 = i
      BY <1>1, <2>2
    <3> QED BY <1>1, <2>2, <3>1
  <2> QED BY <2>1, <2>2
<1>3. \A i \in DOMAIN ls : i \in DOMAIN t /\ t[i] = ls[i]
  BY <1>1
<1>4. \A i \in DOMAIN s : i > 1 => n + i - 1 \in DOMAIN t /\ t[n + i - 1] = s[i]
  BY <1>1
<1> QED BY <1>2, <1>3, <1>4 DEF n

-----------------------------------------------------------------------------
(* Locks.                                                                  *)

\* The kinds of lock that a statement asks for.
LockKind(l) ==
    /\ l = <<l[1], l[2]>>
    /\ l[1][1] = "key" => l[2] = "exclusive"
    /\ l[1][1] = "upload" =>
        l[2] = "update" /\ l[1][2] \in DOMAIN upload /\ l[1] = UploadRow(l[1][2])

\* The locks of every statement, one by one.
LEMMA WantedIs ==
    ASSUME NEW r
    PROVE  /\ Verb(r) \in {"child", "shared"} => Wanted(r) = {<<Lifecycle(Arg(r)), "shared">>}
           /\ Verb(r) = "exclusive" => Wanted(r) = {<<Lifecycle(Arg(r)), "exclusive">>}
           /\ Verb(r) = "lock key" => Wanted(r) = {<<KeyLock(tx[r].id, Arg(r)), KeyMode>>}
           /\ Verb(r) = "lock source key" => Wanted(r) = {<<KeyLock(tx[r].src, Arg(r)), KeyMode>>}
           /\ Verb(r) = "lock each" => Wanted(r) = {<<KeyLock(tx[r].id, k), KeyMode>> : k \in Least(Arg(r))}
           /\ Verb(r) = "lock blob" => Wanted(r) = {<<BlobRow(c), "update">> : c \in Existing(r, {Arg(r)})}
           /\ Verb(r) = "share blob" => Wanted(r) = {<<BlobRow(c), "key share">> : c \in Existing(r, {Arg(r)})}
           /\ Verb(r) = "bump" => Wanted(r) = {<<BlobRow(c), "no key update">> : c \in Arg(r)}
           /\ Verb(r) = "publish" => Wanted(r) = {<<BlobRow(c), "no key update">> : c \in Arg(r).blob}
           /\ Verb(r) = "stage" => Wanted(r) = {<<BlobRow(c), "no key update">> : c \in {Arg(r)} \cup upload[Call[r].upload].blob}
           /\ Verb(r) = "release" => Wanted(r) = {<<BlobRow(c), "no key update">> : c \in StagedBlob(r, Arg(r))}
           /\ Verb(r) \in {"lock upload", "delete upload"} => Wanted(r) = {<<UploadRow(u), "update">> : u \in {Arg(r)} \cap DOMAIN upload}
           /\ Verb(r) = "remove" => \E C : Wanted(r) = {<<BlobRow(c), "no key update">> : c \in C}
           /\ Verb(r) \notin {"child", "shared", "exclusive", "lock key", "lock source key", "lock each",
                  "lock blob", "share blob", "bump", "publish", "remove", "stage", "release",
                  "lock upload", "delete upload"} => Wanted(r) = {}
<1>1. Verb(r) \in {"child", "shared"} => Wanted(r) = {<<Lifecycle(Arg(r)), "shared">>}
  BY DEF Wanted
<1>2. Verb(r) = "exclusive" => Wanted(r) = {<<Lifecycle(Arg(r)), "exclusive">>}
  BY DEF Wanted
<1>3. Verb(r) = "lock key" => Wanted(r) = {<<KeyLock(tx[r].id, Arg(r)), KeyMode>>}
  BY DEF Wanted
<1>4. Verb(r) = "lock source key" => Wanted(r) = {<<KeyLock(tx[r].src, Arg(r)), KeyMode>>}
  BY DEF Wanted
<1>5. Verb(r) = "lock each" => Wanted(r) = {<<KeyLock(tx[r].id, k), KeyMode>> : k \in Least(Arg(r))}
  BY DEF Wanted
<1>6. Verb(r) = "lock blob" => Wanted(r) = {<<BlobRow(c), "update">> : c \in Existing(r, {Arg(r)})}
  BY DEF Wanted
<1>7. Verb(r) = "share blob" => Wanted(r) = {<<BlobRow(c), "key share">> : c \in Existing(r, {Arg(r)})}
  BY DEF Wanted
<1>8. Verb(r) = "bump" => Wanted(r) = {<<BlobRow(c), "no key update">> : c \in Arg(r)}
  BY DEF Wanted
<1>9. Verb(r) = "publish" => Wanted(r) = {<<BlobRow(c), "no key update">> : c \in Arg(r).blob}
  BY DEF Wanted
<1>10. Verb(r) = "stage" => Wanted(r) = {<<BlobRow(c), "no key update">> : c \in {Arg(r)} \cup upload[Call[r].upload].blob}
  BY DEF Wanted
<1>11. Verb(r) = "release" => Wanted(r) = {<<BlobRow(c), "no key update">> : c \in StagedBlob(r, Arg(r))}
  BY DEF Wanted
<1>12. Verb(r) \in {"lock upload", "delete upload"} => Wanted(r) = {<<UploadRow(u), "update">> : u \in {Arg(r)} \cap DOMAIN upload}
  BY DEF Wanted
<1>13. Verb(r) = "remove" => \E C : Wanted(r) = {<<BlobRow(c), "no key update">> : c \in C}
  BY DEF Wanted
<1>14. Verb(r) \notin {"child", "shared", "exclusive", "lock key", "lock source key", "lock each",
                  "lock blob", "share blob", "bump", "publish", "remove", "stage", "release",
                  "lock upload", "delete upload"} => Wanted(r) = {}
  BY DEF Wanted
<1> QED BY <1>1, <1>2, <1>3, <1>4, <1>5, <1>6, <1>7, <1>8, <1>9, <1>10, <1>11, <1>12, <1>13, <1>14

\* Every lock a statement waits for is of such a kind.
LEMMA WantedKinds ==
    ASSUME NEW r, NEW l \in Wanted(r)
    PROVE  LockKind(l)
<1>1. ASSUME NEW C, NEW m, Wanted(r) = {<<BlobRow(c), m>> : c \in C} PROVE LockKind(l)
  BY <1>1 DEF LockKind, BlobRow
<1>2. ASSUME NEW n, NEW m, l = <<Lifecycle(n), m>> PROVE LockKind(l)
  BY <1>2 DEF LockKind, Lifecycle
<1>3. ASSUME NEW b, NEW k, l = <<KeyLock(b, k), KeyMode>> PROVE LockKind(l)
  BY <1>3 DEF LockKind, KeyLock, KeyMode
<1>4. ASSUME NEW u \in DOMAIN upload, l = <<UploadRow(u), "update">> PROVE LockKind(l)
  BY <1>4 DEF LockKind, UploadRow
<1>5. CASE Verb(r) \in {"child", "shared"}
  <2>1. Wanted(r) = {<<Lifecycle(Arg(r)), "shared">>}
    BY <1>5, WantedIs
  <2> QED BY <2>1, <1>2
<1>6. CASE Verb(r) \in {"exclusive"}
  <2>1. Wanted(r) = {<<Lifecycle(Arg(r)), "exclusive">>}
    BY <1>6, WantedIs
  <2> QED BY <2>1, <1>2
<1>7. CASE Verb(r) \in {"lock key"}
  <2>1. Wanted(r) = {<<KeyLock(tx[r].id, Arg(r)), KeyMode>>}
    BY <1>7, WantedIs
  <2> QED BY <2>1, <1>3
<1>8. CASE Verb(r) \in {"lock source key"}
  <2>1. Wanted(r) = {<<KeyLock(tx[r].src, Arg(r)), KeyMode>>}
    BY <1>8, WantedIs
  <2> QED BY <2>1, <1>3
<1>9. CASE Verb(r) \in {"lock each"}
  <2>1. Wanted(r) = {<<KeyLock(tx[r].id, k), KeyMode>> : k \in Least(Arg(r))}
    BY <1>9, WantedIs
  <2> QED BY <2>1, <1>3
<1>10. CASE Verb(r) \in {"lock blob"}
  <2>1. Wanted(r) = {<<BlobRow(c), "update">> : c \in Existing(r, {Arg(r)})}
    BY <1>10, WantedIs
  <2> QED BY <2>1, <1>1
<1>11. CASE Verb(r) \in {"share blob"}
  <2>1. Wanted(r) = {<<BlobRow(c), "key share">> : c \in Existing(r, {Arg(r)})}
    BY <1>11, WantedIs
  <2> QED BY <2>1, <1>1
<1>12. CASE Verb(r) \in {"bump"}
  <2>1. Wanted(r) = {<<BlobRow(c), "no key update">> : c \in Arg(r)}
    BY <1>12, WantedIs
  <2> QED BY <2>1, <1>1
<1>13. CASE Verb(r) \in {"publish"}
  <2>1. Wanted(r) = {<<BlobRow(c), "no key update">> : c \in Arg(r).blob}
    BY <1>13, WantedIs
  <2> QED BY <2>1, <1>1
<1>14. CASE Verb(r) \in {"remove"}
  <2>1. PICK C : Wanted(r) = {<<BlobRow(c), "no key update">> : c \in C}
    BY <1>14, WantedIs
  <2> QED BY <2>1, <1>1
<1>15. CASE Verb(r) \in {"stage"}
  <2>1. Wanted(r) = {<<BlobRow(c), "no key update">> : c \in {Arg(r)} \cup upload[Call[r].upload].blob}
    BY <1>15, WantedIs
  <2> QED BY <2>1, <1>1
<1>16. CASE Verb(r) \in {"release"}
  <2>1. Wanted(r) = {<<BlobRow(c), "no key update">> : c \in StagedBlob(r, Arg(r))}
    BY <1>16, WantedIs
  <2> QED BY <2>1, <1>1
<1>17. CASE Verb(r) \in {"lock upload", "delete upload"}
  <2>1. Wanted(r) = {<<UploadRow(u), "update">> : u \in {Arg(r)} \cap DOMAIN upload}
    BY <1>17, WantedIs
  <2> QED BY <2>1, <1>4
<1>18. CASE Verb(r) \notin {"child", "shared", "exclusive", "lock key", "lock source key", "lock each",
                  "lock blob", "share blob", "bump", "publish", "remove", "stage", "release",
                  "lock upload", "delete upload"}
  BY <1>18, WantedIs
<1> QED BY <1>5, <1>6, <1>7, <1>8, <1>9, <1>10, <1>11, <1>12, <1>13, <1>14, <1>15, <1>16, <1>17, <1>18

\* The locks that a statement takes besides, without waiting.
Granted(r, more) ==
    \A l \in more :
        /\ LockKind(l)
        /\ l[1][1] = "blob" \/ Blockers(r, l[1], l[2]) = {}

\* The locks of a session are conflict-free with those of the others.
LEMMA RunsLocks ==
    ASSUME LockSafe, NEW r \in Session, NEW verb, NEW more, Runs(r, verb, more), Granted(r, more),
           verb = "insert blob" => Wanted(r) = {}
    PROVE  /\ LockSafe' /\ held \subseteq held'
           /\ \A h \in held' : h \in held \/ (h[1] = r /\ LockKind(<<h[2], h[3]>>))
<1>1. /\ Open(r) /\ Verb(r) = verb /\ WaitsFor(r) = {}
      /\ held' = held \cup {<<r, l[1], l[2]>> : l \in Wanted(r) \cup more}
  BY DEF Runs
<1>2. \A l \in Wanted(r) : Blockers(r, l[1], l[2]) = {}
  <2>1. CASE verb = "insert blob"
    BY <2>1
  <2>2. CASE verb # "insert blob"
    <3>1. UNION {Blockers(r, l[1], l[2]) : l \in Wanted(r)} = {}
      BY <2>2, <1>1 DEF WaitsFor
    <3> QED BY <3>1
  <2> QED BY <2>1, <2>2
<1>3. \A l \in Wanted(r) \cup more :
        LockKind(l) /\ (l[1][1] = "blob" \/ Blockers(r, l[1], l[2]) = {})
  BY <1>2, WantedKinds DEF Granted
<1>4. \A l \in Wanted(r) \cup more : \A g \in held :
        g[1] # r /\ g[2] = l[1] /\ l[1][1] # "blob" =>
            <<g[3], l[2]>> \notin Conflicting
  BY <1>3 DEF Blockers
<1>5. \A a, b : <<a, b>> \in Conflicting <=> <<b, a>> \in Conflicting
  BY DEF Conflicting
<1>6. ASSUME NEW g \in held', NEW h \in held'
      PROVE  /\ g[1] \in Session /\ g = <<g[1], g[2], g[3]>>
             /\ g[2][1] = "key" => g[3] = "exclusive"
             /\ g[2][1] = "upload" => g[3] = "update"
             /\ g[1] # h[1] /\ g[2] = h[2] /\ g[2][1] # "blob" => <<g[3], h[3]>> \notin Conflicting
  <2>1. ASSUME NEW x \in held' \ held
        PROVE  \E l \in Wanted(r) \cup more : x = <<r, l[1], l[2]>> /\ LockKind(l)
    BY <1>1, <1>3
  <2>2. CASE g \in held /\ h \in held
    BY <2>2 DEF LockSafe
  <2>3. CASE g \in held /\ h \notin held
    <3>1. PICK l \in Wanted(r) \cup more : h = <<r, l[1], l[2]>>
      BY <2>3, <2>1
    <3>2. h[1] = r /\ h[2] = l[1] /\ h[3] = l[2]
      BY <3>1
    <3>3. g[1] # r /\ g[2] = l[1] /\ l[1][1] # "blob" => <<g[3], l[2]>> \notin Conflicting
      BY <2>3, <1>4
    <3>4. /\ g[1] \in Session /\ g = <<g[1], g[2], g[3]>>
          /\ g[2][1] = "key" => g[3] = "exclusive"
          /\ g[2][1] = "upload" => g[3] = "update"
      BY <2>3 DEF LockSafe
    <3> QED BY <3>2, <3>3, <3>4
  <2>4. CASE g \notin held
    <3>1. PICK l \in Wanted(r) \cup more : g = <<r, l[1], l[2]>> /\ LockKind(l)
      BY <2>4, <2>1
    <3>2. CASE h \in held
      BY <3>1, <3>2, <1>4, <1>5 DEF LockKind
    <3>3. CASE h \notin held
      <4>1. h[1] = r
        <5>1. PICK k \in Wanted(r) \cup more : h = <<r, k[1], k[2]>>
          BY <3>3, <2>1
        <5> QED BY <5>1
      <4>2. g[1] = r /\ g[2] = l[1] /\ g[3] = l[2]
        BY <3>1
      <4> QED BY <3>1, <4>1, <4>2 DEF LockKind
    <3> QED BY <3>2, <3>3
  <2> QED BY <2>2, <2>3, <2>4
<1>7. LockSafe'
  BY <1>6 DEF LockSafe
<1>8. \A h \in held' : h \in held \/ (h[1] = r /\ LockKind(<<h[2], h[3]>>))
  <2> TAKE h \in held'
  <2>1. CASE h \in held
    BY <2>1
  <2>2. CASE h \notin held
    <3>1. PICK l \in Wanted(r) \cup more : h = <<r, l[1], l[2]>>
      BY <2>2, <1>1
    <3>2. LockKind(l) /\ h[1] = r /\ h[2] = l[1] /\ h[3] = l[2]
      BY <3>1, <1>3
    <3>3. l = <<h[2], h[3]>>
      BY <3>2 DEF LockKind
    <3> QED BY <3>2, <3>3
  <2> QED BY <2>1, <2>2
<1> QED BY <1>1, <1>7, <1>8

-----------------------------------------------------------------------------
(* Facts stay while a transaction runs.                                    *)

\* A step takes no fact away from r.
Keeps(r) == \A f : Holds(r, f) => Holds(r, f)'

\* Each statement of ls can rely on what holds now or on one before it.
PreparedNext(r, t) ==
    \A i \in DOMAIN t : \A f \in Requires(r, t[i]) :
        Holds(r, f)' \/ \E j \in DOMAIN t : j < i /\ f \in Provides(r, t[j])

\* A statement is replaced by ls, and the rest still finds what it relies on.
LEMMA PreparedOn ==
    ASSUME NEW r, NEW t, NEW ls, NEW s, Continues(t, ls, s), PreparedAt(r, s), Keeps(r),
           PreparedNext(r, ls),
           \A f \in Provides(r, s[1]) :
                Holds(r, f)' \/ \E j \in DOMAIN ls : f \in Provides(r, ls[j])
    PROVE  PreparedNext(r, t)
<1> SUFFICES ASSUME NEW i \in DOMAIN t, NEW f \in Requires(r, t[i])
             PROVE  Holds(r, f)' \/ \E j \in DOMAIN t : j < i /\ f \in Provides(r, t[j])
  BY DEF PreparedNext
<1> DEFINE n == Len(ls)
<1>1. /\ \/ i \in DOMAIN ls /\ t[i] = ls[i]
         \/ /\ i \notin DOMAIN ls /\ i - n + 1 \in DOMAIN s /\ i - n + 1 > 1
            /\ t[i] = s[i - n + 1]
      /\ \A j \in DOMAIN ls : j \in DOMAIN t /\ t[j] = ls[j]
      /\ \A j \in DOMAIN s : j > 1 => n + j - 1 \in DOMAIN t /\ t[n + j - 1] = s[j]
  BY ContinuesWhere
<1>2. /\ n \in Nat /\ DOMAIN ls = 1 .. n /\ DOMAIN s \subseteq Nat \ {0} /\ DOMAIN t \subseteq Nat \ {0}
      /\ 1 \in DOMAIN s
  BY DEF Continues
<1> HIDE DEF n
<1>3. CASE i \in DOMAIN ls
  <2>1. Holds(r, f)' \/ \E j \in DOMAIN ls : j < i /\ f \in Provides(r, ls[j])
    BY <1>3, <1>1 DEF PreparedNext
  <2> QED BY <2>1, <1>1
<1>4. CASE i \notin DOMAIN ls
  <2>1. i - n + 1 \in DOMAIN s /\ t[i] = s[i - n + 1]
    BY <1>4, <1>1
  <2>2. Holds(r, f) \/ \E j \in DOMAIN s : j < i - n + 1 /\ f \in Provides(r, s[j])
    BY <2>1 DEF PreparedAt
  <2>3. CASE Holds(r, f)
    BY <2>3 DEF Keeps
  <2>4. ASSUME NEW j \in DOMAIN s, j < i - n + 1, f \in Provides(r, s[j])
        PROVE  Holds(r, f)' \/ \E k \in DOMAIN t : k < i /\ f \in Provides(r, t[k])
    <3>1. CASE j = 1
      <4>1. Holds(r, f)' \/ \E k \in DOMAIN ls : f \in Provides(r, ls[k])
        BY <2>4, <3>1
      <4>2. \A k \in DOMAIN ls : k < i
        BY <1>2, <1>4
      <4> QED BY <4>1, <4>2, <1>1
    <3>2. CASE j # 1
      <4> DEFINE k == n + j - 1
      <4>1. k \in DOMAIN t /\ t[k] = s[j]
        BY <1>1, <1>2, <3>2
      <4>2. k < i
        BY <1>2, <2>4
      <4> QED BY <4>1, <4>2, <2>4
    <3> QED BY <3>1, <3>2
  <2> QED BY <2>2, <2>3, <2>4
<1> QED BY <1>3, <1>4

\* Facts depend on the tables, the own locks and what the transaction has found.
LEMMA KeepsSame ==
    ASSUME NEW r, UNCHANGED tables, \A h \in held : h[1] = r => h \in held',
           tx'[r].id = tx[r].id, tx'[r].src = tx[r].src, tx'[r].w.named = tx[r].w.named
    PROVE  Keeps(r)
<1>1. UNCHANGED <<bucket, object, latest, blob, upload>>
  BY DEF tables
<1>2. \A a, b : Holding(r, a, b) => Holding(r, a, b)'
  BY DEF Holding
<1>3. Ready(r) => Ready(r)'
  BY <1>1, <1>2 DEF Ready, Rooted, IsNew, NewIds
<1>4. \A k : HasKey(r, k) => HasKey(r, k)'
  BY <1>2 DEF HasKey
<1>5. HasUpload(r) => HasUpload(r)'
  BY <1>2 DEF HasUpload
<1>6. CreateOnly(r)' = CreateOnly(r)
  BY <1>1 DEF CreateOnly
<1>7. \A b, k : LiveLatest(b, k)' = LiveLatest(b, k)
  BY <1>1 DEF LiveLatest, Versions
<1>8. \A k : Checked(r, k) => Checked(r, k)'
  BY <1>4, <1>5, <1>6, <1>7 DEF Checked
<1>9. HasSource(r) => HasSource(r)'
  BY <1>1, <1>2 DEF HasSource
<1>10. Emptied(r) => Emptied(r)'
  BY <1>1, <1>2 DEF Emptied
<1>11. ASSUME NEW f, Holds(r, f) PROVE Holds(r, f)'
  BY <1>11, <1>2, <1>3, <1>4, <1>5, <1>8, <1>9, <1>10 DEF Holds
<1> QED BY <1>11 DEF Keeps

\* An id is found only once: before that nothing depends on it.
LEMMA KeepsFinding ==
    ASSUME NEW r \in Session, UNCHANGED tables, BucketIds, \A h \in held : h[1] = r => h \in held',
           tx[r].id = 0, tx'[r].src = tx[r].src
    PROVE  Keeps(r)
<1>1. UNCHANGED <<bucket, object, latest, blob, upload>>
  BY DEF tables
<1>2. \A a, b : Holding(r, a, b) => Holding(r, a, b)'
  BY DEF Holding
<1>3. 0 \notin Ids
  BY DEF Ids
<1>4. ~Ready(r) /\ \A k : ~HasKey(r, k)
  BY <1>3 DEF BucketIds, Ready, Rooted, IsNew, HasKey
<1>5. HasUpload(r) => HasUpload(r)'
  BY <1>2 DEF HasUpload
<1>6. CreateOnly(r)' = CreateOnly(r)
  BY <1>1 DEF CreateOnly
<1>7. \A k : Checked(r, k) => Checked(r, k)'
  BY <1>4, <1>5, <1>6 DEF Checked
<1>8. HasSource(r) => HasSource(r)'
  BY <1>1, <1>2 DEF HasSource
<1>9. ~Emptied(r)
  BY <1>3 DEF Emptied, BucketIds
<1>10. ASSUME NEW f, Holds(r, f) PROVE Holds(r, f)'
  BY <1>10, <1>2, <1>4, <1>5, <1>7, <1>8, <1>9 DEF Holds
<1> QED BY <1>10 DEF Keeps

-----------------------------------------------------------------------------
(* What a statement does to its transaction.                               *)

\* r has run its first statement, ls comes next; i, s, h and w are what it knows now.
Advanced(r, ls, i, s, h, w) ==
    /\ Formed'
    /\ \A q \in Session \ {r} : tx'[q] = tx[q]
    /\ Continues(tx'[r].todo, ls, tx[r].todo)
    /\ tx'[r].state = "open" /\ tx'[r].id = i /\ tx'[r].src = s /\ tx'[r].shot = h /\ tx'[r].w = w

\* The new transaction record is what the rest of the proofs look at.
LEMMA AdvancedIf ==
    ASSUME Formed, NEW r \in Session, Open(r), NEW ls, IsSeq(ls), NEW i, NEW s, NEW h, NEW w,
           WritesFormed(w),
           tx' = [q \in Session |-> tx'[q]], \A q \in Session \ {r} : tx'[q] = tx[q],
           tx'[r] = [state |-> "open", todo |-> ls \o Tail(tx[r].todo),
                     id |-> i, src |-> s, shot |-> h, w |-> w]
    PROVE  Advanced(r, ls, i, s, h, w)
<1> DEFINE t == ls \o Tail(tx[r].todo)
           new == [state |-> "open", todo |-> t, id |-> i, src |-> s, shot |-> h, w |-> w]
<1>1. IsSeq(tx[r].todo) /\ tx[r].todo # <<>>
  BY DEF Formed, TxFormed, Open
<1>2. IsSeq(t) /\ Continues(t, ls, tx[r].todo)
  BY <1>1, ContinuesTail
<1> HIDE DEF t
<1>4. new.state = "open" /\ new.todo = t /\ new.id = i /\ new.src = s /\ new.shot = h /\ new.w = w
  OBVIOUS
<1>5. TxFormed(new)
  BY <1>2, <1>4 DEF TxFormed
<1>6. tx'[r] = new
  BY DEF t
<1> HIDE DEF new
<1>7. \A q \in Session : TxFormed(tx'[q])
  BY <1>5, <1>6 DEF Formed
<1>8. Formed'
  BY <1>6, <1>7 DEF Formed, TxFormed, WritesFormed, IsSeq, Ended, NoWrites
<1> QED BY <1>2, <1>4, <1>6, <1>8 DEF Advanced

\* Goes: the rest is unchanged.
LEMMA GoesAdvances ==
    ASSUME Formed, NEW r \in Session, Open(r), NEW ls, IsSeq(ls), NEW w, WritesFormed(w),
           Goes(r, ls, w)
    PROVE  Advanced(r, ls, tx[r].id, tx[r].src, tx[r].shot, w)
<1>1. tx[r] = [state |-> tx[r].state, todo |-> tx[r].todo, id |-> tx[r].id, src |-> tx[r].src,
               shot |-> tx[r].shot, w |-> tx[r].w]
      /\ tx[r].state = "open" /\ WritesFormed(tx[r].w) /\ IsSeq(tx[r].todo) /\ tx[r].todo # <<>>
  BY DEF Formed, TxFormed, Open
<1>2. tx = [q \in Session |-> tx[q]]
  BY DEF Formed
<1>3. tx' = [tx EXCEPT ![r].todo = ls \o Tail(@), ![r].w = w]
  BY DEF Goes
<1>4. tx'[r] = [state |-> "open", todo |-> ls \o Tail(tx[r].todo),
                id |-> tx[r].id, src |-> tx[r].src, shot |-> tx[r].shot, w |-> w]
  BY <1>1, <1>2, <1>3
<1>5. tx' = [q \in Session |-> tx'[q]] /\ \A q \in Session \ {r} : tx'[q] = tx[q]
  BY <1>2, <1>3
<1>6. Tail(tx[r].todo) = <<>> \o Tail(tx[r].todo) /\ IsSeq(<<>>)
  BY <1>1, ContinuesNothing
<1> QED BY <1>1, <1>4, <1>5, <1>6, AdvancedIf

\* A statement that finds a bucket id.
LEMMA FindsAdvances ==
    ASSUME Formed, NEW r \in Session, Open(r), NEW i,
           tx' = [tx EXCEPT ![r].todo = Tail(@), ![r].id = i]
    PROVE  Advanced(r, <<>>, i, tx[r].src, tx[r].shot, tx[r].w)
<1>1. tx[r] = [state |-> tx[r].state, todo |-> tx[r].todo, id |-> tx[r].id, src |-> tx[r].src,
               shot |-> tx[r].shot, w |-> tx[r].w]
      /\ tx[r].state = "open" /\ WritesFormed(tx[r].w) /\ IsSeq(tx[r].todo) /\ tx[r].todo # <<>>
  BY DEF Formed, TxFormed, Open
<1>2. tx = [q \in Session |-> tx[q]]
  BY DEF Formed
<1>3. tx' = [tx EXCEPT ![r].todo = Tail(@), ![r].id = i]
  OBVIOUS
<1>4. tx'[r] = [state |-> "open", todo |-> Tail(tx[r].todo),
                id |-> i, src |-> tx[r].src, shot |-> tx[r].shot, w |-> tx[r].w]
  BY <1>1, <1>2, <1>3
<1>5. tx' = [q \in Session |-> tx'[q]] /\ \A q \in Session \ {r} : tx'[q] = tx[q]
  BY <1>2, <1>3
<1>6. Tail(tx[r].todo) = <<>> \o Tail(tx[r].todo) /\ IsSeq(<<>>)
  BY <1>1, ContinuesNothing
<1> QED BY <1>1, <1>4, <1>5, <1>6, AdvancedIf

\* A statement that finds the source.
LEMMA SourceAdvances ==
    ASSUME Formed, NEW r \in Session, Open(r), NEW i,
           tx' = [tx EXCEPT ![r].todo = Tail(@), ![r].src = i]
    PROVE  Advanced(r, <<>>, tx[r].id, i, tx[r].shot, tx[r].w)
<1>1. tx[r] = [state |-> tx[r].state, todo |-> tx[r].todo, id |-> tx[r].id, src |-> tx[r].src,
               shot |-> tx[r].shot, w |-> tx[r].w]
      /\ tx[r].state = "open" /\ WritesFormed(tx[r].w) /\ IsSeq(tx[r].todo) /\ tx[r].todo # <<>>
  BY DEF Formed, TxFormed, Open
<1>2. tx = [q \in Session |-> tx[q]]
  BY DEF Formed
<1>3. tx' = [tx EXCEPT ![r].todo = Tail(@), ![r].src = i]
  OBVIOUS
<1>4. tx'[r] = [state |-> "open", todo |-> Tail(tx[r].todo),
                id |-> tx[r].id, src |-> i, shot |-> tx[r].shot, w |-> tx[r].w]
  BY <1>1, <1>2, <1>3
<1>5. tx' = [q \in Session |-> tx'[q]] /\ \A q \in Session \ {r} : tx'[q] = tx[q]
  BY <1>2, <1>3
<1>6. Tail(tx[r].todo) = <<>> \o Tail(tx[r].todo) /\ IsSeq(<<>>)
  BY <1>1, ContinuesNothing
<1> QED BY <1>1, <1>4, <1>5, <1>6, AdvancedIf

\* A statement that finds a bucket id and decides how to go on.
LEMMA AssembleAdvances ==
    ASSUME Formed, NEW r \in Session, Open(r), NEW i, NEW ls, IsSeq(ls),
           tx' = [tx EXCEPT ![r].id = i, ![r].todo = ls \o Tail(@)]
    PROVE  Advanced(r, ls, i, tx[r].src, tx[r].shot, tx[r].w)
<1>1. tx[r] = [state |-> tx[r].state, todo |-> tx[r].todo, id |-> tx[r].id, src |-> tx[r].src,
               shot |-> tx[r].shot, w |-> tx[r].w]
      /\ tx[r].state = "open" /\ WritesFormed(tx[r].w) /\ IsSeq(tx[r].todo) /\ tx[r].todo # <<>>
  BY DEF Formed, TxFormed, Open
<1>2. tx = [q \in Session |-> tx[q]]
  BY DEF Formed
<1>3. tx' = [tx EXCEPT ![r].id = i, ![r].todo = ls \o Tail(@)]
  OBVIOUS
<1>4. tx'[r] = [state |-> "open", todo |-> ls \o Tail(tx[r].todo),
                id |-> i, src |-> tx[r].src, shot |-> tx[r].shot, w |-> tx[r].w]
  BY <1>1, <1>2, <1>3
<1>5. tx' = [q \in Session |-> tx'[q]] /\ \A q \in Session \ {r} : tx'[q] = tx[q]
  BY <1>2, <1>3
<1>6. Tail(tx[r].todo) = <<>> \o Tail(tx[r].todo) /\ IsSeq(<<>>)
  BY <1>1, ContinuesNothing
<1> QED BY <1>1, <1>4, <1>5, <1>6, AdvancedIf

\* No statement of ls is one of V.
Lacks(ls, V) == \A i \in DOMAIN ls : ls[i].verb \notin V

\* A continuation holds no more statements of a kind than what it is made of.
LEMMA SoleOn ==
    ASSUME NEW t, NEW ls, NEW s, Continues(t, ls, s), NEW V, Lacks(ls, V),
           NEW i \in DOMAIN t, t[i].verb \in V
    PROVE  \E j \in DOMAIN s : j > 1 /\ s[j].verb \in V /\ (Sole(s, V, j) => Sole(t, V, i))
<1> DEFINE n == Len(ls)
           j == i - n + 1
<1>1. /\ \A k \in DOMAIN t :
            \/ k \in DOMAIN ls /\ t[k] = ls[k]
            \/ /\ k \notin DOMAIN ls /\ k - n + 1 \in DOMAIN s /\ k - n + 1 > 1
               /\ t[k] = s[k - n + 1]
  BY ContinuesWhere
<1>2. n \in Nat /\ DOMAIN t \subseteq Nat /\ DOMAIN s \subseteq Nat
  BY DEF Continues
<1> HIDE DEF n
<1>3. \A k \in DOMAIN t : t[k].verb \in V =>
            k - n + 1 \in DOMAIN s /\ k - n + 1 > 1 /\ s[k - n + 1].verb \in V
  BY <1>1 DEF Lacks
<1>4. j \in DOMAIN s /\ j > 1 /\ s[j].verb \in V
  BY <1>3
<1>5. ASSUME Sole(s, V, j), NEW k \in DOMAIN t, t[k].verb \in V PROVE k = i
  <2>1. k - n + 1 = j
    BY <1>3, <1>5 DEF Sole
  <2> QED BY <2>1, <1>2
<1>6. Sole(s, V, j) => Sole(t, V, i)
  BY <1>5 DEF Sole
<1> QED BY <1>4, <1>6

\* The statements that decide the bucket id.
LEMMA SettlingOn ==
    ASSUME NEW t, NEW ls, NEW s, Continues(t, ls, s), NEW i, NEW id, SettlingAt(s, id),
           Lacks(ls, Setter),
           s[1].verb \notin Setter \cup {"child"} => i = id /\ Lacks(ls, {"child"})
    PROVE  SettlingAt(t, i)
<1> DEFINE V == Setter \cup {"child"}
<1> SUFFICES ASSUME NEW k \in DOMAIN t, t[k].verb \in Setter
             PROVE  i = 0 /\ Sole(t, V, k)
  BY DEF SettlingAt
<1>1. PICK j \in DOMAIN s : j > 1 /\ s[j].verb \in Setter
  BY SoleOn
<1>2. id = 0 /\ Sole(s, V, j) /\ 1 \in DOMAIN s
  <2>1. 1 \in DOMAIN s
    BY DEF Continues
  <2> QED BY <2>1, <1>1 DEF SettlingAt
<1>3. s[1].verb \notin V
  BY <1>1, <1>2 DEF Sole
<1>4. i = id /\ Lacks(ls, V)
  BY <1>3 DEF Lacks
<1>5. PICK m \in DOMAIN s : s[m].verb \in V /\ (Sole(s, V, m) => Sole(t, V, k))
  BY <1>4, SoleOn
<1>6. m = j
  BY <1>2, <1>5 DEF Sole
<1> QED BY <1>2, <1>4, <1>5, <1>6

\* The statements that write object rows.
LEMMA OnceOn ==
    ASSUME NEW r, NEW t, NEW ls, NEW s, Continues(t, ls, s), NEW x, NEW w, OnceAt(r, s, w),
           \/ Lacks(ls, Writer) /\ (s[1].verb \in Writer \/ (Clean(w) => Clean(x)))
           \/ s[1].verb \in Writer /\ x = w /\ \E k \in DOMAIN ls : Sole(ls, Writer, k)
    PROVE  OnceAt(r, t, x)
<1> SUFFICES ASSUME Call[r].op \notin Deleting, NEW k \in DOMAIN t, t[k].verb \in Writer
             PROVE  Clean(x) /\ Sole(t, Writer, k)
  BY DEF OnceAt
<1>1. 1 \in DOMAIN s
  BY DEF Continues
<1>2. CASE Lacks(ls, Writer) /\ (s[1].verb \in Writer \/ (Clean(w) => Clean(x)))
  <2>1. PICK j \in DOMAIN s : j > 1 /\ s[j].verb \in Writer /\ (Sole(s, Writer, j) => Sole(t, Writer, k))
    BY <1>2, SoleOn
  <2>2. Clean(w) /\ Sole(s, Writer, j)
    BY <2>1 DEF OnceAt
  <2>3. s[1].verb \notin Writer
    BY <1>1, <2>1, <2>2 DEF Sole
  <2> QED BY <1>2, <2>1, <2>2, <2>3
<1>3. CASE s[1].verb \in Writer /\ x = w /\ \E m \in DOMAIN ls : Sole(ls, Writer, m)
  <2>1. Clean(w) /\ Sole(s, Writer, 1)
    BY <1>1, <1>3 DEF OnceAt
  <2>2. PICK m \in DOMAIN ls : Sole(ls, Writer, m)
    BY <1>3
  <2>3. ASSUME NEW j \in DOMAIN t, t[j].verb \in Writer PROVE j = m
    <3>1. \/ j \in DOMAIN ls /\ t[j] = ls[j]
          \/ j - Len(ls) + 1 \in DOMAIN s /\ j - Len(ls) + 1 > 1 /\ t[j] = s[j - Len(ls) + 1]
      BY ContinuesWhere
    <3>2. CASE j \in DOMAIN ls /\ t[j] = ls[j]
      BY <3>2, <2>2, <2>3 DEF Sole
    <3>3. CASE j - Len(ls) + 1 \in DOMAIN s /\ j - Len(ls) + 1 > 1 /\ t[j] = s[j - Len(ls) + 1]
      BY <3>3, <2>1, <2>3 DEF Sole
    <3> QED BY <3>1, <3>2, <3>3
  <2>4. Sole(t, Writer, k)
    BY <2>3 DEF Sole
  <2> QED BY <1>3, <2>1, <2>4
<1> QED BY <1>2, <1>3

\* Every statement still suits the call.
LEMMA SuitedOn ==
    ASSUME NEW r, NEW t, NEW ls, NEW s, Continues(t, ls, s), SuitedAt(r, s), SuitedAt(r, ls)
    PROVE  SuitedAt(r, t)
<1> SUFFICES ASSUME NEW i \in DOMAIN t PROVE Suits(r, t[i])
  BY DEF SuitedAt
<1>1. \/ i \in DOMAIN ls /\ t[i] = ls[i]
      \/ i - Len(ls) + 1 \in DOMAIN s /\ t[i] = s[i - Len(ls) + 1]
  BY ContinuesWhere
<1> QED BY <1>1 DEF SuitedAt

\* The snapshot of a fork is not lost.
LEMMA SnapshotStays ==
    ASSUME NEW t, NEW ls, NEW s, Continues(t, ls, s), s[1].verb # "snapshot",
           \E i \in DOMAIN s : s[i].verb = "snapshot"
    PROVE  \E i \in DOMAIN t : t[i].verb = "snapshot"
<1>1. PICK i \in DOMAIN s : s[i].verb = "snapshot"
  OBVIOUS
<1>2. i > 1
  BY <1>1 DEF Continues
<1>3. Len(ls) + i - 1 \in DOMAIN t /\ t[Len(ls) + i - 1] = s[i]
  BY <1>2, ContinuesWhere
<1> QED BY <1>1, <1>3

-----------------------------------------------------------------------------
(* The frame of a statement: it commits nothing, and the others do not     *)
(* notice it.                                                              *)

Todos == Suited /\ Prepared /\ Settling /\ Once /\ WillRead
Data == BucketIds /\ Secret /\ VersionIds /\ OwnKeys /\ Views /\ Fresh /\ ByCall /\ Forks
Inv == Formed /\ LockSafe /\ Todos /\ Data /\ Named /\ Uploads /\ Finite

RunFrame(r) ==
    /\ UNCHANGED tables /\ held \subseteq held' /\ LockSafe'
    /\ \A h \in held' : h \in held \/ (h[1] = r /\ LockKind(<<h[2], h[3]>>))
    /\ Formed' /\ \A q \in Session \ {r} : tx'[q] = tx[q]

\* What concerns object rows and bucket ids is as it was.
SameData(r) ==
    /\ tx'[r].id = tx[r].id /\ tx'[r].src = tx[r].src /\ tx'[r].shot = tx[r].shot
    /\ tx'[r].w.rows = tx[r].w.rows /\ tx'[r].w.gone = tx[r].w.gone
    /\ tx'[r].w.cleared = tx[r].w.cleared /\ tx'[r].w.made = tx[r].w.made
    /\ tx'[r].w.named = tx[r].w.named
    /\ UNCHANGED <<versionSeq, bucketSeq>>

\* The upload rows and names that it changes are as they were.
SameSides(r) ==
    /\ tx'[r].w.staged = tx[r].w.staged /\ tx'[r].w.dropped = tx[r].w.dropped
    /\ tx'[r].w.unnamed = tx[r].w.unnamed /\ tx'[r].state = tx[r].state

\* The other sessions keep their facts.
LEMMA FrameKeeps ==
    ASSUME NEW r, RunFrame(r), NEW q \in Session \ {r}
    PROVE  Keeps(q)
BY KeepsSame DEF RunFrame

\* So does the session itself if it finds nothing new.
LEMMA SameKeeps ==
    ASSUME NEW r \in Session, RunFrame(r), SameData(r), NEW q \in Session
    PROVE  Keeps(q)
<1>1. CASE q # r
  BY <1>1, FrameKeeps
<1>2. CASE q = r
  BY <1>2, KeepsSame DEF RunFrame, SameData
<1> QED BY <1>1, <1>2

\* The fields of every transaction that Data reads.
LEMMA SameFields ==
    ASSUME NEW r \in Session, RunFrame(r), SameData(r)
    PROVE  /\ UNCHANGED <<bucket, object, latest, upload, versionSeq, bucketSeq>>
           /\ \A q \in Session :
                /\ tx'[q].id = tx[q].id /\ tx'[q].src = tx[q].src /\ tx'[q].shot = tx[q].shot
                /\ tx'[q].w.rows = tx[q].w.rows /\ tx'[q].w.gone = tx[q].w.gone
                /\ tx'[q].w.cleared = tx[q].w.cleared /\ tx'[q].w.made = tx[q].w.made
                /\ tx'[q].w.named = tx[q].w.named
BY DEF RunFrame, SameData, tables

\* What a session may call its own stays its own.
LEMMA KeepsMine ==
    ASSUME NEW r, Keeps(r), tx'[r].id = tx[r].id, tx'[r].w.named = tx[r].w.named,
           NEW b, NEW k, Mine(r, b, k)
    PROVE  Mine(r, b, k)'
<1>1. HasKey(r, k) => Holds(r, <<"key", k>>)
  BY DEF Holds
<1>2. Holds(r, <<"key", k>>)' => HasKey(r, k)'
  BY DEF Holds
<1>3. IsNew(r) => IsNew(r)'
  BY DEF IsNew, NewIds
<1>4. Ready(r) => Holds(r, <<"ready", 0>>)
  BY DEF Holds
<1>5. Holds(r, <<"ready", 0>>)' => Ready(r)'
  BY DEF Holds
<1> QED BY <1>1, <1>2, <1>3, <1>4, <1>5 DEF Keeps, Mine

\* What was checked stays checked, and the source stays the source.
LEMMA KeepsChecked ==
    ASSUME NEW r, Keeps(r)
    PROVE  /\ \A k : Checked(r, k) => Checked(r, k)'
           /\ HasSource(r) => HasSource(r)'
           /\ Emptied(r) => Emptied(r)'
           /\ Ready(r) => Ready(r)'
           /\ \A k : HasKey(r, k) => HasKey(r, k)'
           /\ HasUpload(r) => HasUpload(r)'
<1>1. ASSUME NEW k, Checked(r, k) PROVE Checked(r, k)'
  <2>1. Holds(r, <<"checked", k>>)'
    BY <1>1 DEF Keeps, Holds
  <2> QED BY <2>1 DEF Holds
<1>2. ASSUME HasSource(r) PROVE HasSource(r)'
  <2>1. Holds(r, <<"source", 0>>)'
    BY <1>2 DEF Keeps, Holds
  <2> QED BY <2>1 DEF Holds
<1>3. ASSUME Emptied(r) PROVE Emptied(r)'
  <2>1. Holds(r, <<"empty", 0>>)'
    BY <1>3 DEF Keeps, Holds
  <2> QED BY <2>1 DEF Holds
<1>4. ASSUME Ready(r) PROVE Ready(r)'
  <2>1. Holds(r, <<"ready", 0>>)'
    BY <1>4 DEF Keeps, Holds
  <2> QED BY <2>1 DEF Holds
<1>5. ASSUME NEW k, HasKey(r, k) PROVE HasKey(r, k)'
  <2>1. Holds(r, <<"key", k>>)'
    BY <1>5 DEF Keeps, Holds
  <2> QED BY <2>1 DEF Holds
<1>6. ASSUME HasUpload(r) PROVE HasUpload(r)'
  <2>1. Holds(r, <<"upload", 0>>)'
    BY <1>6 DEF Keeps, Holds
  <2> QED BY <2>1 DEF Holds
<1> QED BY <1>1, <1>2, <1>3, <1>4, <1>5, <1>6

\* A statement that writes no object row and finds no id leaves Data as it was.
LEMMA DataSame ==
    ASSUME Inv, NEW r \in Session, RunFrame(r), SameData(r)
    PROVE  Data'
<1>1. /\ UNCHANGED <<bucket, object, latest, upload, versionSeq, bucketSeq>>
      /\ \A q \in Session :
           /\ tx'[q].id = tx[q].id /\ tx'[q].src = tx[q].src /\ tx'[q].shot = tx[q].shot
           /\ tx'[q].w.rows = tx[q].w.rows /\ tx'[q].w.gone = tx[q].w.gone
           /\ tx'[q].w.cleared = tx[q].w.cleared /\ tx'[q].w.made = tx[q].w.made
           /\ tx'[q].w.named = tx[q].w.named
  BY SameFields
<1>2. \A q \in Session : Keeps(q)
  BY SameKeeps
<1>3. \A q \in Session : NewIds(q)' = NewIds(q)
  BY <1>1 DEF NewIds
<1>4. \A q \in Session : Rows(q)' = Rows(q) /\ Flags(q)' = Flags(q)
  BY <1>1 DEF Rows, Flags
<1>5. \A q \in Session : \A b, k : Mine(q, b, k) => Mine(q, b, k)'
  BY <1>1, <1>2, KeepsMine
<1>6. \A q \in Session : (\A k : Checked(q, k) => Checked(q, k)') /\ (HasSource(q) => HasSource(q)')
  BY <1>2, KeepsChecked
<1>7. \A q \in Session : IsNew(q)' <=> IsNew(q)
  BY <1>1, <1>3 DEF IsNew
<1> USE DEF Inv, Data
<1>8. BucketIds'
  BY <1>1, <1>3 DEF BucketIds, Ids
<1>9. Secret'
  BY <1>1, <1>3 DEF Secret
<1>10. VersionIds'
  BY <1>1 DEF VersionIds, Changed
<1>11. OwnKeys'
  BY <1>1, <1>5 DEF OwnKeys, OwnKeysAt
<1>12. Views'
  <2>1. Views
    OBVIOUS
  <2>2. NewestIn(object, latest)'
    BY <2>1, <1>1 DEF Views, NewestIn, Versions
  <2>3. ASSUME NEW q \in Session PROVE NewestIn(Rows(q), Flags(q))'
    <3>1. NewestIn(Rows(q), Flags(q)) /\ Rows(q)' = Rows(q) /\ Flags(q)' = Flags(q)
      BY <2>1, <1>4 DEF Views
    <3> QED BY <3>1 DEF NewestIn, Versions
  <2> QED BY <2>2, <2>3 DEF Views
<1>13. Fresh'
  BY <1>1, <1>6 DEF Fresh, FreshAt, Versions
<1>14. ByCall'
  BY <1>1, <1>7 DEF ByCall, ByCallAt
<1>15. Forks'
  <2>1. \A q \in Session : Copy(tx'[q].w) = Copy(tx[q].w)
    BY <1>1 DEF Copy
  <2>2. \A q \in Session : Copy(tx[q].w)' = Copy(tx[q].w)
    BY <2>1 DEF Copy
  <2>3. Forks
    OBVIOUS
  <2> QED BY <2>2, <2>3, <1>1, <1>6 DEF Forks, ForksAt
<1> QED BY <1>8, <1>9, <1>10, <1>11, <1>12, <1>13, <1>14, <1>15

\* A statement that changes no name.
LEMMA NamedSame ==
    ASSUME Inv, NEW r \in Session, RunFrame(r), SameData(r), tx'[r].w.unnamed = tx[r].w.unnamed
    PROVE  Named'
<1>1. /\ UNCHANGED bucket
      /\ \A q \in Session :
           /\ tx'[q].id = tx[q].id /\ tx'[q].w.named = tx[q].w.named
           /\ tx'[q].w.unnamed = tx[q].w.unnamed
  BY SameFields DEF RunFrame
<1>2. \A q \in Session : Emptied(q) => Emptied(q)'
  BY SameKeeps, KeepsChecked
<1>3. \A q, a, b : Holding(q, a, b) => Holding(q, a, b)'
  BY DEF Holding, RunFrame
<1> QED BY <1>1, <1>2, <1>3 DEF Inv, Named

\* A statement that changes at most the upload rows of its own session.
LEMMA UploadsFrame ==
    ASSUME Inv, NEW r \in Session, RunFrame(r), Ids \subseteq Ids',
           \A b \in NewIds(r)' : b \in NewIds(r) \/ b \notin Ids,
           UploadsAt(r)'
    PROVE  Uploads'
<1>1. Uploads /\ UNCHANGED upload
  BY DEF Inv, RunFrame, tables
<1>2. \A q, a, b : Holding(q, a, b) => Holding(q, a, b)'
  BY DEF Holding, RunFrame
<1>3. \A q \in Session : q # r => tx'[q] = tx[q] /\ NewIds(q)' = NewIds(q)
  BY DEF RunFrame, NewIds
<1>4. \A q \in Session : UploadsAt(q)
  BY <1>1 DEF Uploads, UploadsAt
<1>5. ASSUME NEW q \in Session, q # r PROVE UploadsAt(q)'
  <2>1. tx'[q].w = tx[q].w /\ tx'[q].state = tx[q].state
    BY <1>3, <1>5
  <2>2. ASSUME NEW u \in DOMAIN tx[q].w.staged
        PROVE  /\ tx[q].w.staged[u].bucket \in Ids'
               /\ \A p \in Session \ {q} : tx[q].w.staged[u].bucket \notin NewIds(p)'
    <3>1. /\ tx[q].w.staged[u].bucket \in Ids
          /\ \A p \in Session \ {q} : tx[q].w.staged[u].bucket \notin NewIds(p)
      BY <1>4 DEF UploadsAt
    <3> QED BY <3>1, <1>3
  <2> QED BY <2>1, <2>2, <1>1, <1>2, <1>4 DEF UploadsAt
<1>6. \A q \in Session : UploadsAt(q)'
  BY <1>5
<1>7. ASSUME NEW h \in held', h[2][1] = "upload"
      PROVE  h[2][2] \in DOMAIN upload' /\ h[2] = UploadRow(h[2][2])
  BY <1>7, <1>1 DEF RunFrame, Uploads, LockKind
<1>8. upload' = [u \in DOMAIN upload' |-> upload'[u]]
  BY <1>1 DEF Uploads
<1> QED BY <1>6, <1>7, <1>8 DEF Uploads, UploadsAt

\* Finitely many rows stay finitely many.
LEMMA FiniteFrame ==
    ASSUME Inv, NEW r \in Session, RunFrame(r),
           IsFiniteSet(tx'[r].w.born), IsFiniteSet(DOMAIN tx'[r].w.staged)
    PROVE  Finite'
<1>1. UNCHANGED <<blob, upload>> /\ \A q \in Session \ {r} : tx'[q] = tx[q]
  BY DEF RunFrame, tables
<1> QED BY <1>1 DEF Inv, Finite

\* A statement that changes no upload row.
LEMMA UploadsSame ==
    ASSUME Inv, NEW r \in Session, RunFrame(r), SameData(r), SameSides(r)
    PROVE  Uploads'
<1>1. UNCHANGED <<upload, bucketSeq>> /\ \A q \in Session : NewIds(q)' = NewIds(q)
  BY SameFields DEF NewIds
<1>2. \A q, a, b : Holding(q, a, b) => Holding(q, a, b)'
  BY DEF Holding, RunFrame
<1>3. Ids' = Ids
  BY <1>1 DEF Ids
<1>4. UploadsAt(r)
  BY DEF Inv, Uploads, UploadsAt
<1>5. UploadsAt(r)'
  BY <1>1, <1>2, <1>3, <1>4 DEF UploadsAt, SameSides
<1> QED BY <1>1, <1>3, <1>5, UploadsFrame

\* The others go on with their statements as before.
LEMMA TodosOthers ==
    ASSUME Inv, NEW r \in Session, RunFrame(r),
           SuitedAt(r, tx[r].todo)', PreparedAt(r, tx[r].todo)', SettlingAt(tx[r].todo, tx[r].id)',
           OnceAt(r, tx[r].todo, tx[r].w)', WillReadAt(r, tx[r].todo)'
    PROVE  Todos'
<1>1. \A q \in Session \ {r} : tx'[q] = tx[q] /\ Keeps(q)
  BY FrameKeeps DEF RunFrame
<1>2. Suited'
  BY <1>1 DEF Inv, Todos, Suited, SuitedAt
<1>3. Prepared'
  <2>1. ASSUME NEW q \in Session \ {r} PROVE PreparedAt(q, tx[q].todo)'
    BY <1>1 DEF Inv, Todos, Prepared, PreparedAt, Keeps
  <2> QED BY <2>1 DEF Prepared
<1>4. Settling'
  <2>1. ASSUME NEW q \in Session \ {r} PROVE SettlingAt(tx[q].todo, tx[q].id)'
    BY <1>1 DEF Inv, Todos, Settling, SettlingAt, Sole
  <2> QED BY <2>1 DEF Settling
<1>5. Once'
  <2>1. ASSUME NEW q \in Session \ {r} PROVE OnceAt(q, tx[q].todo, tx[q].w)'
    BY <1>1 DEF Inv, Todos, Once, OnceAt, Clean, Sole
  <2> QED BY <2>1 DEF Once
<1>6. WillRead'
  BY <1>1 DEF Inv, Todos, WillRead, WillReadAt
<1> QED BY <1>2, <1>3, <1>4, <1>5, <1>6 DEF Todos

-----------------------------------------------------------------------------
(* Statements that write no object row and find no id.                     *)

\* What is common to all statements.
LEMMA FrameOf ==
    ASSUME Inv, NEW r \in Session, NEW verb, NEW more, Runs(r, verb, more), Granted(r, more),
           verb = "insert blob" => Wanted(r) = {},
           UNCHANGED tables, NEW ls, NEW i, NEW s, NEW h, NEW w, Advanced(r, ls, i, s, h, w)
    PROVE  RunFrame(r)
<1>1. /\ LockSafe' /\ held \subseteq held'
      /\ \A g \in held' : g \in held \/ (g[1] = r /\ LockKind(<<g[2], g[3]>>))
  BY RunsLocks DEF Inv
<1> QED BY <1>1 DEF RunFrame, Advanced

\* A statement that takes no locks besides.
LEMMA NothingMore ==
    ASSUME NEW r, NEW verb, Runs(r, verb, {}) PROVE Granted(r, {}) /\ (verb = "insert blob" => Wanted(r) = {})
<1>1. Verb(r) = verb
  BY DEF Runs
<1>2. Verb(r) = "insert blob" => Wanted(r) = {}
  BY WantedIs
<1> QED BY <1>1, <1>2 DEF Granted

\* The first statement of an open transaction.
LEMMA FirstStatement ==
    ASSUME Inv, NEW r \in Session, Open(r)
    PROVE  /\ 1 \in DOMAIN tx[r].todo /\ Verb(r) = tx[r].todo[1].verb /\ Arg(r) = tx[r].todo[1].arg
           /\ Suits(r, tx[r].todo[1])
           /\ \A f \in Requires(r, tx[r].todo[1]) : Holds(r, f)
           /\ IsSeq(tx[r].todo) /\ tx[r].todo # <<>> /\ WritesFormed(tx[r].w) /\ tx[r].state = "open"
<1>1. IsSeq(tx[r].todo) /\ tx[r].todo # <<>> /\ WritesFormed(tx[r].w) /\ tx[r].state = "open"
  BY DEF Inv, Formed, TxFormed, Open
<1>2. 1 \in DOMAIN tx[r].todo /\ Head(tx[r].todo) = tx[r].todo[1]
  BY <1>1, HeadFirst
<1>3. Verb(r) = tx[r].todo[1].verb /\ Arg(r) = tx[r].todo[1].arg
  BY <1>2 DEF Verb, Arg
<1>4. Suits(r, tx[r].todo[1])
  BY <1>2 DEF Inv, Todos, Suited, SuitedAt
<1>5. DOMAIN tx[r].todo \subseteq Nat \ {0}
  BY <1>1 DEF IsSeq
<1>6. ASSUME NEW f \in Requires(r, tx[r].todo[1]) PROVE Holds(r, f)
  <2>1. Holds(r, f) \/ \E j \in DOMAIN tx[r].todo : j < 1
    BY <1>2 DEF Inv, Todos, Prepared, PreparedAt
  <2> QED BY <2>1, <1>5
<1> QED BY <1>1, <1>2, <1>3, <1>4, <1>6

\* How a transaction goes on.
LEMMA GoesOn ==
    ASSUME Inv, NEW r \in Session, Open(r), RunFrame(r), Keeps(r),
           NEW ls, NEW i, NEW s, NEW h, NEW w, Advanced(r, ls, i, s, h, w),
           SuitedAt(r, ls), PreparedNext(r, ls),
           \A f \in Provides(r, tx[r].todo[1]) :
                Holds(r, f)' \/ \E j \in DOMAIN ls : f \in Provides(r, ls[j]),
           Lacks(ls, Setter),
           Verb(r) \notin Setter \cup {"child"} => i = tx[r].id /\ Lacks(ls, {"child"}),
           \/ Lacks(ls, Writer) /\ (Verb(r) \in Writer \/ (Clean(tx[r].w) => Clean(w)))
           \/ Verb(r) \in Writer /\ w = tx[r].w /\ \E k \in DOMAIN ls : Sole(ls, Writer, k)
           \/ Call[r].op \in Deleting,
           WillReadAt(r, tx[r].todo)'
    PROVE  Todos'
<1>1. /\ Verb(r) = tx[r].todo[1].verb
      /\ Continues(tx'[r].todo, ls, tx[r].todo) /\ tx'[r].id = i /\ tx'[r].w = w
  BY FirstStatement DEF Advanced
<1>2. /\ SuitedAt(r, tx[r].todo) /\ PreparedAt(r, tx[r].todo) /\ SettlingAt(tx[r].todo, tx[r].id)
      /\ OnceAt(r, tx[r].todo, tx[r].w)
  BY DEF Inv, Todos, Suited, Prepared, Settling, Once
<1>3. SuitedAt(r, tx'[r].todo)
  BY <1>1, <1>2, SuitedOn
<1>4. PreparedNext(r, tx'[r].todo)
  BY <1>1, <1>2, PreparedOn
<1>5. SettlingAt(tx'[r].todo, i)
  BY <1>1, <1>2, SettlingOn
<1>6. OnceAt(r, tx'[r].todo, w)
  <2>1. CASE Call[r].op \in Deleting
    BY <2>1 DEF OnceAt
  <2>2. CASE Lacks(ls, Writer) /\ (Verb(r) \in Writer \/ (Clean(tx[r].w) => Clean(w)))
    <3>1. tx[r].todo[1].verb \in Writer \/ (Clean(tx[r].w) => Clean(w))
      BY <2>2, <1>1
    <3> QED BY <3>1, <2>2, <1>1, <1>2, OnceOn, ZenonT(40)
  <2>3. CASE Verb(r) \in Writer /\ w = tx[r].w /\ \E k \in DOMAIN ls : Sole(ls, Writer, k)
    BY <2>3, <1>1, <1>2, OnceOn
  <2> QED BY <2>1, <2>2, <2>3
<1>7. SuitedAt(r, tx[r].todo)'
  BY <1>3 DEF SuitedAt
<1>8. PreparedAt(r, tx[r].todo)'
  BY <1>4 DEF PreparedAt, PreparedNext
<1>9. SettlingAt(tx[r].todo, tx[r].id)'
  BY <1>1, <1>5 DEF SettlingAt, Sole
<1>10. OnceAt(r, tx[r].todo, tx[r].w)'
  BY <1>1, <1>6 DEF OnceAt, Sole, Clean
<1> QED BY <1>7, <1>8, <1>9, <1>10, TodosOthers

\* A fork that still has to read its source.
LEMMA StillReads ==
    ASSUME Inv, NEW r \in Session, Open(r), Verb(r) # "snapshot",
           NEW ls, NEW i, NEW s, NEW w, Advanced(r, ls, i, s, tx[r].shot, w)
    PROVE  WillReadAt(r, tx[r].todo)'
<1>1. /\ Verb(r) = tx[r].todo[1].verb /\ tx[r].state = "open"
      /\ Continues(tx'[r].todo, ls, tx[r].todo) /\ tx'[r].shot = tx[r].shot
  BY FirstStatement DEF Advanced
<1>2. WillReadAt(r, tx[r].todo)
  BY DEF Inv, Todos, WillRead
<1>3. ASSUME \E k \in DOMAIN tx[r].todo : tx[r].todo[k].verb = "snapshot"
      PROVE  \E k \in DOMAIN tx'[r].todo : tx'[r].todo[k].verb = "snapshot"
  BY <1>1, <1>3, SnapshotStays
<1> QED BY <1>1, <1>2, <1>3 DEF WillReadAt

\* Statements of no interest to object rows and bucket ids.
Plain(V) == V \cap (Setter \cup Writer \cup {"child"}) = {}

\* Such a statement leads to more of them.
LEMMA SameStep ==
    ASSUME Inv, NEW r \in Session, Open(r), RunFrame(r), SameData(r), Plain({Verb(r)}),
           NEW ls, NEW w, Advanced(r, ls, tx[r].id, tx[r].src, tx[r].shot, w),
           Lacks(ls, Setter \cup Writer \cup {"child"}), SuitedAt(r, ls), PreparedNext(r, ls),
           \A f \in Provides(r, tx[r].todo[1]) :
                Holds(r, f)' \/ \E j \in DOMAIN ls : f \in Provides(r, ls[j])
    PROVE  Todos' /\ Data'
<1>1. Keeps(r) /\ Data'
  BY SameKeeps, DataSame
<1>2. Lacks(ls, Setter) /\ Lacks(ls, Writer) /\ Lacks(ls, {"child"})
  BY DEF Lacks
<1>3. Verb(r) \notin Setter /\ Verb(r) \notin Writer /\ Verb(r) # "child" /\ Verb(r) # "snapshot"
  BY DEF Plain, Writer
<1>4. tx'[r].w = w
  BY DEF Advanced
<1>5. w.named = tx[r].w.named /\ (Clean(tx[r].w) => Clean(w))
  BY <1>4 DEF SameData, Clean
<1>6. WillReadAt(r, tx[r].todo)'
  BY <1>3, <1>5, StillReads
<1>7. Verb(r) \notin Setter \cup {"child"} => tx[r].id = tx[r].id /\ Lacks(ls, {"child"})
  BY <1>2
<1> QED BY <1>1, <1>2, <1>3, <1>5, <1>6, <1>7, GoesOn

\* A ready transaction has an id.
LEMMA ReadyId ==
    ASSUME Inv, NEW r \in Session, Holds(r, Ready0)
    PROVE  tx[r].id \in Ids /\ tx[r].id # 0 /\ Ready(r)
<1>1. Ready(r)
  BY DEF Holds, Ready0
<1>2. tx[r].id \in Ids
  BY <1>1 DEF Ready, Rooted, IsNew, Inv, Data, BucketIds
<1> QED BY <1>1, <1>2 DEF Ids

\* Nothing comes before the rest.
LEMMA NothingNext ==
    ASSUME NEW r
    PROVE  /\ \A V : Lacks(<<>>, V)
           /\ SuitedAt(r, <<>>) /\ PreparedNext(r, <<>>) /\ IsSeq(<<>>)
<1>1. DOMAIN <<>> = {}
  OBVIOUS
<1> QED BY <1>1 DEF Lacks, SuitedAt, PreparedNext, IsSeq

\* Writes that agree on object rows and names of new buckets, and on the rest.
SameWrites(w, x) ==
    /\ x.rows = w.rows /\ x.gone = w.gone /\ x.cleared = w.cleared /\ x.made = w.made
    /\ x.named = w.named
SameAside(w, x) ==
    /\ x.staged = w.staged /\ x.dropped = w.dropped /\ x.unnamed = w.unnamed
    /\ IsFiniteSet(w.born) => IsFiniteSet(x.born)

\* A statement of that sort, up to what it does to uploads and names.
LEMMA PlainStep ==
    ASSUME Inv, NEW r \in Session, NEW verb, NEW more, Runs(r, verb, more), Granted(r, more),
           verb = "insert blob" => Wanted(r) = {},
           NEW ls, IsSeq(ls), NEW w, WritesFormed(w), SameWrites(tx[r].w, w),
           Goes(r, ls, w), Quiet, Plain({verb})
    PROVE  /\ RunFrame(r) /\ SameData(r) /\ Open(r) /\ Verb(r) = verb
           /\ Advanced(r, ls, tx[r].id, tx[r].src, tx[r].shot, w)
           /\ tx'[r].w = w /\ tx'[r].state = tx[r].state
<1>1. Open(r) /\ Verb(r) = verb /\ Formed /\ tx[r].state = "open"
  BY DEF Runs, Inv, Open
<1>2. Advanced(r, ls, tx[r].id, tx[r].src, tx[r].shot, w)
  BY <1>1, GoesAdvances
<1>3. UNCHANGED tables /\ UNCHANGED <<versionSeq, bucketSeq>>
  BY DEF Quiet, sequences
<1>4. RunFrame(r)
  BY <1>2, <1>3, FrameOf
<1>5. SameData(r)
  BY <1>2, <1>3 DEF SameData, Advanced, SameWrites
<1> QED BY <1>1, <1>2, <1>4, <1>5 DEF Advanced

\* A statement that only takes locks, and what it goes on with.
LEMMA LockingStep ==
    ASSUME Inv, NEW r \in Session, NEW verb, NEW more, Runs(r, verb, more), Granted(r, more),
           verb = "insert blob" => Wanted(r) = {},
           NEW ls, IsSeq(ls), NEW w, WritesFormed(w), SameWrites(tx[r].w, w), SameAside(tx[r].w, w),
           Goes(r, ls, w), Quiet, Plain({verb}),
           Lacks(ls, Setter \cup Writer \cup {"child"}), SuitedAt(r, ls), PreparedNext(r, ls),
           \A f \in Provides(r, tx[r].todo[1]) :
                Holds(r, f)' \/ \E j \in DOMAIN ls : f \in Provides(r, ls[j])
    PROVE  Inv'
<1>1. /\ RunFrame(r) /\ SameData(r) /\ Open(r) /\ Verb(r) = verb
      /\ Advanced(r, ls, tx[r].id, tx[r].src, tx[r].shot, w)
      /\ tx'[r].w = w /\ tx'[r].state = tx[r].state
  BY PlainStep
<1>2. Todos' /\ Data'
  BY <1>1, SameStep
<1>3. SameSides(r)
  BY <1>1 DEF SameSides, SameAside
<1>4. Named' /\ Uploads'
  BY <1>1, <1>3, NamedSame, UploadsSame DEF SameSides
<1>5. Formed' /\ LockSafe'
  BY <1>1 DEF RunFrame
<1>6. IsFiniteSet(tx[r].w.born) /\ IsFiniteSet(DOMAIN tx[r].w.staged)
  BY DEF Inv, Finite
<1>7. Finite'
  BY <1>1, <1>6, FiniteFrame DEF SameAside
<1> QED BY <1>2, <1>4, <1>5, <1>7 DEF Inv

\* The locks that a statement has asked for are held once it has run.
LEMMA RunsHolds ==
    ASSUME NEW r, NEW verb, NEW more, Runs(r, verb, more), NEW a, NEW m,
           <<a, m>> \in Wanted(r) \cup more
    PROVE  <<r, a, m>> \in held'
<1>1. held' = held \cup {<<r, l[1], l[2]>> : l \in Wanted(r) \cup more}
  BY DEF Runs
<1>2. <<r, a, m>> = <<r, <<a, m>>[1], <<a, m>>[2]>>
  OBVIOUS
<1> QED BY <1>1, <1>2

\* Advisory locks.
LEMMA LockStep ==
    ASSUME Inv, NEW r \in Session, Lock(r)
    PROVE  Inv'
<1>1. PICK verb \in {"shared", "exclusive", "lock key", "lock source key"} : Runs(r, verb, {})
  BY DEF Lock
<1>2. Goes(r, <<>>, tx[r].w) /\ Quiet
  BY DEF Lock
<1>3. Open(r) /\ Verb(r) = verb
  BY <1>1 DEF Runs
<1>4. /\ Verb(r) = tx[r].todo[1].verb /\ Arg(r) = tx[r].todo[1].arg /\ WritesFormed(tx[r].w)
      /\ \A f \in Requires(r, tx[r].todo[1]) : Holds(r, f)
  BY <1>3, FirstStatement
<1>5. Granted(r, {}) /\ (verb = "insert blob" => Wanted(r) = {})
  BY <1>1, NothingMore
<1>6. SameWrites(tx[r].w, tx[r].w) /\ SameAside(tx[r].w, tx[r].w) /\ Plain({verb})
  BY DEF SameWrites, SameAside, Plain, Setter, Writer
<1>7. tx'[r].id = tx[r].id
  BY <1>1, <1>2, <1>4, <1>5, <1>6, NothingNext, PlainStep DEF Advanced
<1>8. ASSUME NEW f \in Provides(r, tx[r].todo[1]) PROVE Holds(r, f)'
  <2>1. CASE verb = "shared"
    <3>1. f = <<"shared", Arg(r)>>
      BY <1>3, <1>4, <2>1 DEF Provides
    <3> Verb(r) = "shared"
      BY <1>3, <2>1
    <3>2. Wanted(r) = {<<Lifecycle(Arg(r)), "shared">>}
      BY WantedIs
    <3>3. <<r, Lifecycle(Arg(r)), "shared">> \in held'
      BY <1>1, <3>2, RunsHolds
    <3> QED BY <3>1, <3>3 DEF Holds, Holding
  <2>2. CASE verb = "exclusive"
    <3>1. f = <<"exclusive", Arg(r)>>
      BY <1>3, <1>4, <2>2 DEF Provides
    <3> Verb(r) = "exclusive"
      BY <1>3, <2>2
    <3>2. Wanted(r) = {<<Lifecycle(Arg(r)), "exclusive">>}
      BY WantedIs
    <3>3. <<r, Lifecycle(Arg(r)), "exclusive">> \in held'
      BY <1>1, <3>2, RunsHolds
    <3> QED BY <3>1, <3>3 DEF Holds, Holding
  <2>3. CASE verb = "lock key"
    <3>1. f = <<"key", Arg(r)>> /\ Ready0 \in Requires(r, tx[r].todo[1])
      BY <1>3, <1>4, <2>3 DEF Provides, Requires
    <3> Verb(r) = "lock key"
      BY <1>3, <2>3
    <3>2. Wanted(r) = {<<KeyLock(tx[r].id, Arg(r)), KeyMode>>}
      BY WantedIs
    <3>3. <<r, KeyLock(tx[r].id, Arg(r)), "exclusive">> \in held'
      BY <1>1, <3>2, RunsHolds DEF KeyMode
    <3>4. tx[r].id # 0
      BY <3>1, <1>4, ReadyId
    <3> QED BY <3>1, <3>3, <3>4, <1>7 DEF Holds, HasKey, Holding
  <2>4. CASE verb = "lock source key"
    BY <1>3, <1>4, <2>4 DEF Provides
  <2> QED BY <2>1, <2>2, <2>3, <2>4
<1> QED BY <1>1, <1>2, <1>4, <1>5, <1>6, <1>8, NothingNext, LockingStep

\* A statement after which the rest follows.
LEMMA PlainNothing ==
    ASSUME Inv, NEW r \in Session, NEW verb, NEW more, Runs(r, verb, more), Granted(r, more),
           verb = "insert blob" => Wanted(r) = {},
           NEW w, WritesFormed(w), SameWrites(tx[r].w, w), SameAside(tx[r].w, w),
           Goes(r, <<>>, w), Quiet, Plain({verb}),
           \A f \in Provides(r, tx[r].todo[1]) : Holds(r, f)'
    PROVE  Inv'
BY NothingNext, LockingStep

\* What the first statement is.
LEMMA RunsFirst ==
    ASSUME Inv, NEW r \in Session, NEW verb, NEW more, Runs(r, verb, more)
    PROVE  /\ Open(r) /\ Verb(r) = verb /\ tx[r].todo[1].verb = verb /\ Arg(r) = tx[r].todo[1].arg
           /\ WritesFormed(tx[r].w) /\ Suits(r, tx[r].todo[1])
           /\ \A f \in Requires(r, tx[r].todo[1]) : Holds(r, f)
<1>1. Open(r) /\ Verb(r) = verb
  BY DEF Runs
<1> QED BY <1>1, FirstStatement

\* If-None-Match: * was checked under the key lock.
LEMMA CheckStep ==
    ASSUME Inv, NEW r \in Session, Check(r)
    PROVE  Inv'
<1>1. Runs(r, "check", {}) /\ LiveLatest(tx[r].id, Arg(r)) = {} /\ Goes(r, <<>>, tx[r].w) /\ Quiet
  BY DEF Check
<1>2. /\ tx[r].todo[1].verb = "check" /\ Arg(r) = tx[r].todo[1].arg /\ WritesFormed(tx[r].w)
      /\ \A f \in Requires(r, tx[r].todo[1]) : Holds(r, f)
  BY <1>1, RunsFirst
<1>3. Granted(r, {}) /\ ("check" = "insert blob" => Wanted(r) = {})
  BY <1>1, NothingMore
<1>4. SameWrites(tx[r].w, tx[r].w) /\ SameAside(tx[r].w, tx[r].w) /\ Plain({"check"})
  BY DEF SameWrites, SameAside, Plain, Setter, Writer
<1>5. RunFrame(r) /\ SameData(r)
  BY <1>1, <1>2, <1>3, <1>4, NothingNext, PlainStep
<1>6. Holds(r, <<"key", Arg(r)>>) /\ (Call[r].op = "complete_upload" => Holds(r, Upload0))
  BY <1>2 DEF Requires
<1>7. HasKey(r, Arg(r))
  BY <1>6 DEF Holds
<1>8. Call[r].op = "complete_upload" => HasUpload(r)
  BY <1>6 DEF Holds, Upload0
<1>9. Checked(r, Arg(r))
  BY <1>1, <1>7, <1>8 DEF Checked
<1>10. Keeps(r)
  BY <1>5, SameKeeps
<1>11. Provides(r, tx[r].todo[1]) = {<<"checked", Arg(r)>>}
  BY <1>2 DEF Provides
<1>12. Holds(r, <<"checked", Arg(r)>>)
  BY <1>9 DEF Holds
<1>13. \A f \in Provides(r, tx[r].todo[1]) : Holds(r, f)'
  BY <1>10, <1>11, <1>12 DEF Keeps
<1> QED BY <1>1, <1>2, <1>3, <1>4, <1>13, PlainNothing

\* An inserted blob row is locked at once.
LEMMA InsertBlobStep ==
    ASSUME Inv, NEW r \in Session, InsertBlob(r)
    PROVE  Inv'
<1>1. PICK more, w :
        /\ more = (IF Arg(r) \in DOMAIN blob THEN {} ELSE {<<BlobRow(Arg(r)), "update">>})
        /\ Runs(r, "insert blob", more)
        /\ w = [tx[r].w EXCEPT !.born = @ \cup ({Arg(r)} \ DOMAIN blob)]
        /\ Goes(r, <<>>, w) /\ Quiet
  BY DEF InsertBlob
<1>2. tx[r].todo[1].verb = "insert blob" /\ Verb(r) = "insert blob" /\ WritesFormed(tx[r].w)
  BY <1>1, RunsFirst
<1>3. Wanted(r) = {}
  BY <1>2, WantedIs
<1>4. Granted(r, more)
  <2>1. LockKind(<<BlobRow(Arg(r)), "update">>) /\ <<BlobRow(Arg(r)), "update">>[1][1] = "blob"
    BY DEF LockKind, BlobRow
  <2>2. more \subseteq {<<BlobRow(Arg(r)), "update">>}
    BY <1>1
  <2> QED BY <2>1, <2>2 DEF Granted
<1>5. WritesFormed(w) /\ SameWrites(tx[r].w, w) /\ SameAside(tx[r].w, w)
  <2>1. WritesFormed(w) /\ SameWrites(tx[r].w, w)
    BY <1>1, <1>2 DEF WritesFormed, SameWrites
  <2>2. /\ w.staged = tx[r].w.staged /\ w.dropped = tx[r].w.dropped /\ w.unnamed = tx[r].w.unnamed
        /\ w.born = tx[r].w.born \cup ({Arg(r)} \ DOMAIN blob)
    BY <1>1, <1>2 DEF WritesFormed
  <2>3. IsFiniteSet({Arg(r)} \ DOMAIN blob)
    BY FS_Singleton, FS_Subset
  <2>4. ASSUME IsFiniteSet(tx[r].w.born) PROVE IsFiniteSet(w.born)
    <3>1. IsFiniteSet(tx[r].w.born \cup ({Arg(r)} \ DOMAIN blob))
      BY <2>3, <2>4, FS_Union, Zenon
    <3> QED BY <3>1, <2>2
  <2> QED BY <2>1, <2>2, <2>4 DEF SameAside
<1>6. Plain({"insert blob"}) /\ Provides(r, tx[r].todo[1]) = {}
  BY <1>2 DEF Plain, Setter, Writer, Provides
<1> QED BY <1>1, <1>3, <1>4, <1>5, <1>6, PlainNothing

\* A blob row is locked.
LEMMA PinBlobStep ==
    ASSUME Inv, NEW r \in Session, PinBlob(r)
    PROVE  Inv'
<1>1. PICK verb \in {"lock blob", "share blob"} : Runs(r, verb, {})
  BY DEF PinBlob
<1>2. Goes(r, <<>>, tx[r].w) /\ Quiet
  BY DEF PinBlob
<1>3. tx[r].todo[1].verb = verb /\ WritesFormed(tx[r].w)
  BY <1>1, RunsFirst
<1>4. Granted(r, {}) /\ (verb = "insert blob" => Wanted(r) = {})
  BY <1>1, NothingMore
<1>5. SameWrites(tx[r].w, tx[r].w) /\ SameAside(tx[r].w, tx[r].w) /\ Plain({verb})
  BY DEF SameWrites, SameAside, Plain, Setter, Writer
<1>6. Provides(r, tx[r].todo[1]) = {}
  BY <1>3 DEF Provides
<1> QED BY <1>1, <1>2, <1>3, <1>4, <1>5, <1>6, PlainNothing

\* The count of a blob is raised by a fork.
LEMMA BumpStep ==
    ASSUME Inv, NEW r \in Session, Bump(r)
    PROVE  Inv'
<1>1. PICK d, w :
        /\ Runs(r, "bump", {})
        /\ w = [tx[r].w EXCEPT !.delta = d]
        /\ Goes(r, <<>>, w) /\ Quiet
  BY DEF Bump
<1>2. tx[r].todo[1].verb = "bump" /\ WritesFormed(tx[r].w)
  BY <1>1, RunsFirst
<1>3. Granted(r, {}) /\ ("bump" = "insert blob" => Wanted(r) = {})
  BY <1>1, NothingMore
<1>4. WritesFormed(w) /\ SameWrites(tx[r].w, w) /\ SameAside(tx[r].w, w)
  BY <1>1, <1>2 DEF WritesFormed, SameWrites, SameAside
<1>5. Plain({"bump"}) /\ Provides(r, tx[r].todo[1]) = {}
  BY <1>2 DEF Plain, Setter, Writer, Provides
<1> QED BY <1>1, <1>2, <1>3, <1>4, <1>5, PlainNothing

\* The count of a blob is lowered with a chunk row.
LEMMA ReleaseStep ==
    ASSUME Inv, NEW r \in Session, Release(r)
    PROVE  Inv'
<1>1. PICK d, w :
        /\ Runs(r, "release", {})
        /\ w = [tx[r].w EXCEPT !.delta = d]
        /\ Goes(r, <<>>, w) /\ Quiet
  BY DEF Release
<1>2. tx[r].todo[1].verb = "release" /\ WritesFormed(tx[r].w)
  BY <1>1, RunsFirst
<1>3. Granted(r, {}) /\ ("release" = "insert blob" => Wanted(r) = {})
  BY <1>1, NothingMore
<1>4. WritesFormed(w) /\ SameWrites(tx[r].w, w) /\ SameAside(tx[r].w, w)
  BY <1>1, <1>2 DEF WritesFormed, SameWrites, SameAside
<1>5. Plain({"release"}) /\ Provides(r, tx[r].todo[1]) = {}
  BY <1>2 DEF Plain, Setter, Writer, Provides
<1> QED BY <1>1, <1>2, <1>3, <1>4, <1>5, PlainNothing

\* The upload row is locked.
LEMMA LockUploadStep ==
    ASSUME Inv, NEW r \in Session, LockUpload(r)
    PROVE  Inv'
<1>1. Runs(r, "lock upload", {}) /\ Arg(r) \in DOMAIN upload /\ Goes(r, <<>>, tx[r].w) /\ Quiet
  BY DEF LockUpload
<1>2. /\ tx[r].todo[1].verb = "lock upload" /\ Arg(r) = tx[r].todo[1].arg /\ WritesFormed(tx[r].w)
      /\ Suits(r, tx[r].todo[1]) /\ Verb(r) = "lock upload"
  BY <1>1, RunsFirst
<1>3. Granted(r, {}) /\ ("lock upload" = "insert blob" => Wanted(r) = {})
  BY <1>1, NothingMore
<1>4. SameWrites(tx[r].w, tx[r].w) /\ SameAside(tx[r].w, tx[r].w) /\ Plain({"lock upload"})
  BY DEF SameWrites, SameAside, Plain, Setter, Writer
<1>5. Arg(r) = Call[r].upload
  BY <1>2 DEF Suits
<1>6. Wanted(r) = {<<UploadRow(u), "update">> : u \in {Arg(r)} \cap DOMAIN upload}
  BY <1>2, WantedIs
<1>7. <<UploadRow(Call[r].upload), "update">> \in Wanted(r)
  BY <1>1, <1>5, <1>6
<1>8. <<r, UploadRow(Call[r].upload), "update">> \in held'
  BY <1>1, <1>7, RunsHolds
<1>9. Provides(r, tx[r].todo[1]) = {Upload0}
  BY <1>2 DEF Provides
<1>10. Holds(r, Upload0)'
  BY <1>8 DEF Holds, Upload0, HasUpload, Holding
<1> QED BY <1>1, <1>2, <1>3, <1>4, <1>9, <1>10, PlainNothing

\* Statements that only one kind of call runs.
LEMMA AllowedOnly ==
    ASSUME NEW op
    PROVE  /\ "lock keys" \in Allowed(op) \/ "read" \in Allowed(op) => op = "copy"
           /\ "assemble" \in Allowed(op) => op = "complete_upload"
           /\ "snapshot" \in Allowed(op) \/ "bump" \in Allowed(op) => op = "fork_bucket"
           /\ "insert bucket" \in Allowed(op) => op \in Creating
           /\ "check empty" \in Allowed(op) \/ "delete bucket" \in Allowed(op)
                \/ "delete uploads" \in Allowed(op) => op = "delete_bucket"
           /\ "remove" \in Allowed(op) \/ "lock each" \in Allowed(op) => op = "delete_many"
           /\ "publish" \in Allowed(op) => op \in Deleting \cup Attaching
           /\ "collect" \in Allowed(op) => op = "gc_blobs"
           /\ "expire" \in Allowed(op) => op = "gc_pending_uploads"
           /\ "stage" \in Allowed(op) => op = "put_chunk"
           /\ "insert upload" \in Allowed(op) => op = "begin_upload"
           /\ "source" \in Allowed(op) => op \in {"copy", "fork_bucket"}
           /\ "child" \in Allowed(op) => op # "fork_bucket"
<1>1. CASE op \notin Function
  <2>1. Allowed(op) = {}
    BY <1>1 DEF Allowed, Function
  <2> QED BY <2>1
<1>2. CASE op \in {"create_bucket", "delete_bucket", "put"}
  BY <1>2 DEF Allowed, Creating, Attaching, Deleting
<1>3. CASE op \in {"delete", "delete_many", "copy"}
  BY <1>3 DEF Allowed, Creating, Attaching, Deleting
<1>4. CASE op \in {"fork_bucket", "begin_upload", "put_chunk"}
  BY <1>4 DEF Allowed, Creating, Attaching, Deleting
<1>5. CASE op \in {"complete_upload", "abort_upload"}
  BY <1>5 DEF Allowed, Creating, Attaching, Deleting
<1>6. CASE op \in {"gc_pending_uploads", "gc_blobs"}
  BY <1>6 DEF Allowed, Creating, Attaching, Deleting
<1> QED BY <1>1, <1>2, <1>3, <1>4, <1>5, <1>6 DEF Function

\* Lists of one, two and three statements.
LEMMA ShortLists ==
    /\ \A a : IsSeq(<<a>>) /\ DOMAIN <<a>> = {1} /\ <<a>>[1] = a
    /\ \A a, b : IsSeq(<<a, b>>) /\ DOMAIN <<a, b>> = {1, 2} /\ <<a, b>>[1] = a /\ <<a, b>>[2] = b
<1>1. \A a : DOMAIN <<a>> = 1 .. 1 /\ Len(<<a>>) = 1 /\ <<a>>[1] = a
  OBVIOUS
<1>2. \A a, b : DOMAIN <<a, b>> = 1 .. 2 /\ Len(<<a, b>>) = 2 /\ <<a, b>>[1] = a /\ <<a, b>>[2] = b
  OBVIOUS
<1>3. 1 .. 1 = {1} /\ 1 .. 2 = {1, 2}
  OBVIOUS
<1> QED BY <1>1, <1>2, <1>3 DEF IsSeq

\* delete_many locks one key after the other.
LEMMA LockEachStep ==
    ASSUME Inv, NEW r \in Session, LockEach(r)
    PROVE  Inv'
<1>1. PICK rest, ls :
        /\ rest = Arg(r) \ Least(Arg(r))
        /\ Runs(r, "lock each", {})
        /\ ls = (IF rest = {} THEN <<>> ELSE <<Do("lock each", rest)>>)
        /\ Goes(r, ls, tx[r].w) /\ Quiet
  BY DEF LockEach
<1>2. /\ tx[r].todo[1].verb = "lock each" /\ Arg(r) = tx[r].todo[1].arg /\ WritesFormed(tx[r].w)
      /\ Suits(r, tx[r].todo[1]) /\ Verb(r) = "lock each"
      /\ \A f \in Requires(r, tx[r].todo[1]) : Holds(r, f)
  BY <1>1, RunsFirst
<1>3. Granted(r, {}) /\ ("lock each" = "insert blob" => Wanted(r) = {})
  BY <1>1, NothingMore
<1>4. SameWrites(tx[r].w, tx[r].w) /\ SameAside(tx[r].w, tx[r].w) /\ Plain({"lock each"})
  BY DEF SameWrites, SameAside, Plain, Setter, Writer
<1>5. /\ IsSeq(ls) /\ \A i \in DOMAIN ls : ls[i] = Do("lock each", rest)
      /\ rest # {} => 1 \in DOMAIN ls
  <2>1. CASE rest = {}
    <3>1. ls = <<>>
      BY <1>1, <2>1
    <3>2. IsSeq(<<>>)
      BY NothingNext
    <3>3. DOMAIN <<>> = {}
      OBVIOUS
    <3> QED BY <2>1, <3>1, <3>2, <3>3
  <2>2. CASE rest # {}
    <3> DEFINE a == Do("lock each", rest)
    <3>1. ls = <<a>>
      BY <1>1, <2>2
    <3> HIDE DEF a
    <3>2. IsSeq(<<a>>) /\ DOMAIN <<a>> = {1} /\ <<a>>[1] = a
      BY ShortLists
    <3>3. IsSeq(ls) /\ (\A i \in DOMAIN ls : ls[i] = a) /\ 1 \in DOMAIN ls
      BY <3>1, <3>2
    <3> QED BY <3>3 DEF a
  <2> QED BY <2>1, <2>2
<1>6. RunFrame(r) /\ SameData(r) /\ tx'[r].id = tx[r].id
  BY <1>1, <1>2, <1>3, <1>4, <1>5, PlainStep DEF SameData
<1>7. Holds(r, Ready0)
  BY <1>2 DEF Requires
<1>8. Holds(r, Ready0)' /\ tx[r].id # 0
  BY <1>6, <1>7, SameKeeps, ReadyId DEF Keeps
<1>9. Lacks(ls, Setter \cup Writer \cup {"child"})
  <2>1. Do("lock each", rest).verb = "lock each"
    BY DEF Do
  <2> QED BY <2>1, <1>5 DEF Lacks, Setter, Writer
<1>10. SuitedAt(r, ls)
  <2>1. Suits(r, Do("lock each", rest))
    BY <1>2 DEF Suits, Do
  <2> QED BY <2>1, <1>5 DEF SuitedAt
<1>11. PreparedNext(r, ls)
  <2>1. Requires(r, Do("lock each", rest)) = {Ready0}
    BY DEF Requires, Do
  <2> QED BY <2>1, <1>5, <1>8 DEF PreparedNext
<1>12. ASSUME NEW f \in Provides(r, tx[r].todo[1])
       PROVE  Holds(r, f)' \/ \E j \in DOMAIN ls : f \in Provides(r, ls[j])
  <2>1. Provides(r, tx[r].todo[1]) = {<<"key", k>> : k \in Arg(r)}
    BY <1>2 DEF Provides
  <2>2. PICK k \in Arg(r) : f = <<"key", k>>
    BY <2>1
  <2>3. CASE k \in rest
    <3>1. Provides(r, Do("lock each", rest)) = {<<"key", x>> : x \in rest}
      BY DEF Provides, Do
    <3> QED BY <2>2, <2>3, <3>1, <1>5
  <2>4. CASE k \notin rest
    <3>1. k \in Least(Arg(r))
      BY <1>1, <2>4
    <3>2. Wanted(r) = {<<KeyLock(tx[r].id, x), KeyMode>> : x \in Least(Arg(r))}
      BY <1>2, WantedIs
    <3>3. <<KeyLock(tx[r].id, k), KeyMode>> \in Wanted(r)
      BY <3>1, <3>2
    <3>4. <<r, KeyLock(tx[r].id, k), "exclusive">> \in held'
      BY <1>1, <3>3, RunsHolds DEF KeyMode
    <3> QED BY <2>2, <3>4, <1>6, <1>8 DEF Holds, HasKey, Holding
  <2> QED BY <2>3, <2>4
<1> QED BY <1>1, <1>2, <1>3, <1>4, <1>5, <1>9, <1>10, <1>11, <1>12, LockingStep

\* copy locks its two keys in order.
LEMMA LockKeysStep ==
    ASSUME Inv, NEW r \in Session, LockKeys(r)
    PROVE  Inv'
<1> DEFINE own == Do("lock key", Call[r].key)
           other == Do("lock source key", Call[r].sourceKey)
<1>1. PICK ls :
        /\ Runs(r, "lock keys", {}) /\ ls \in {<<own>>, <<other, own>>, <<own, other>>}
        /\ Goes(r, ls, tx[r].w) /\ Quiet
  BY DEF LockKeys
<1>2. /\ tx[r].todo[1].verb = "lock keys" /\ WritesFormed(tx[r].w)
      /\ Suits(r, tx[r].todo[1])
      /\ \A f \in Requires(r, tx[r].todo[1]) : Holds(r, f)
  BY <1>1, RunsFirst
<1>3. Granted(r, {}) /\ ("lock keys" = "insert blob" => Wanted(r) = {})
  BY <1>1, NothingMore
<1>4. SameWrites(tx[r].w, tx[r].w) /\ SameAside(tx[r].w, tx[r].w) /\ Plain({"lock keys"})
  BY DEF SameWrites, SameAside, Plain, Setter, Writer
<1>5. IsSeq(ls) /\ (\A i \in DOMAIN ls : ls[i] \in {own, other}) /\ \E i \in DOMAIN ls : ls[i] = own
  <2> HIDE DEF own, other
  <2>1. CASE ls = <<own>>
    <3>1. IsSeq(<<own>>) /\ DOMAIN <<own>> = {1} /\ <<own>>[1] = own
      BY ShortLists
    <3> QED BY <2>1, <3>1
  <2>2. CASE ls = <<other, own>>
    <3>1. /\ IsSeq(<<other, own>>) /\ DOMAIN <<other, own>> = {1, 2}
          /\ <<other, own>>[1] = other /\ <<other, own>>[2] = own
      BY ShortLists
    <3> QED BY <2>2, <3>1
  <2>3. CASE ls = <<own, other>>
    <3>1. /\ IsSeq(<<own, other>>) /\ DOMAIN <<own, other>> = {1, 2}
          /\ <<own, other>>[1] = own /\ <<own, other>>[2] = other
      BY ShortLists
    <3> QED BY <2>3, <3>1
  <2> QED BY <1>1, <2>1, <2>2, <2>3
<1>6. RunFrame(r) /\ SameData(r)
  BY <1>1, <1>2, <1>3, <1>4, <1>5, PlainStep
<1>7. Holds(r, Ready0)
  BY <1>2 DEF Requires
<1>8. Holds(r, Ready0)'
  BY <1>6, <1>7, SameKeeps DEF Keeps
<1>9. own.verb = "lock key" /\ own.arg = Call[r].key /\ other.verb = "lock source key"
      /\ own = Do(own.verb, own.arg) /\ other = Do(other.verb, other.arg)
  BY DEF Do
<1>10. Call[r].op = "copy"
  BY <1>2, AllowedOnly DEF Suits
<1>11. Suits(r, own) /\ Suits(r, other)
  BY <1>9, <1>10 DEF Suits, Allowed
<1>12. Requires(r, own) = {Ready0} /\ Requires(r, other) = {} /\ Provides(r, own) = {<<"key", Call[r].key>>}
  BY <1>9 DEF Requires, Provides
<1>13. Provides(r, tx[r].todo[1]) = {<<"key", Call[r].key>>}
  BY <1>2 DEF Provides
<1> HIDE DEF own, other
<1>14. Lacks(ls, Setter \cup Writer \cup {"child"}) /\ SuitedAt(r, ls)
  BY <1>5, <1>9, <1>11 DEF Lacks, Setter, Writer, SuitedAt
<1>15. PreparedNext(r, ls)
  BY <1>5, <1>8, <1>12 DEF PreparedNext
<1>16. \A f \in Provides(r, tx[r].todo[1]) :
                Holds(r, f)' \/ \E j \in DOMAIN ls : f \in Provides(r, ls[j])
  BY <1>5, <1>12, <1>13
<1> QED BY <1>1, <1>2, <1>3, <1>4, <1>5, <1>14, <1>15, <1>16, LockingStep

\* One statement for every element of a finite set, in any order.
LEMMA EachListed ==
    ASSUME NEW S, IsFiniteSet(S), NEW us \in SetToSeqs(S), NEW verb
    PROVE  /\ IsSeq(Each(verb, us)) /\ DOMAIN us = 1 .. Cardinality(S) /\ IsSeq(us)
           /\ \A i \in DOMAIN Each(verb, us) : us[i] \in S /\ Each(verb, us)[i] = Do(verb, us[i])
<1>1. Cardinality(S) \in Nat
  BY FS_CardinalityType
<1>2. us \in [1 .. Cardinality(S) -> S]
  BY DEF SetToSeqs
<1>3. us \in Seq(S) /\ DOMAIN us = 1 .. Cardinality(S) /\ Len(us) = Cardinality(S)
  BY <1>1, <1>2
<1> DEFINE e == Each(verb, us)
<1>4. e = [i \in 1 .. Cardinality(S) |-> Do(verb, us[i])]
  BY <1>3 DEF Each
<1>5. DOMAIN e = 1 .. Cardinality(S) /\ \A i \in 1 .. Cardinality(S) : e[i] = Do(verb, us[i]) /\ us[i] \in S
  BY <1>2, <1>4
<1> HIDE DEF e
<1>6. Len(e) = Cardinality(S)
  BY <1>1, <1>5
<1>7. IsSeq(e)
  BY <1>1, <1>4, <1>5, <1>6 DEF IsSeq
<1>8. IsSeq(us)
  BY <1>3, OverIsSeq
<1> QED BY <1>3, <1>5, <1>7, <1>8 DEF e

\* Two lists one after the other.
LEMMA Joined ==
    ASSUME NEW a, NEW b, IsSeq(a), IsSeq(b)
    PROVE  /\ IsSeq(a \o b) /\ Len(a \o b) = Len(a) + Len(b) /\ DOMAIN (a \o b) = 1 .. Len(a) + Len(b)
           /\ DOMAIN a = 1 .. Len(a) /\ DOMAIN b = 1 .. Len(b) /\ Len(a) \in Nat /\ Len(b) \in Nat
           /\ \A i \in 1 .. Len(a) : (a \o b)[i] = a[i]
           /\ \A i \in 1 .. Len(b) : (a \o b)[Len(a) + i] = b[i]
           /\ \A i \in DOMAIN (a \o b) :
                \/ i \in DOMAIN a /\ (a \o b)[i] = a[i]
                \/ i - Len(a) \in DOMAIN b /\ (a \o b)[i] = b[i - Len(a)]
<1> DEFINE S == Range(a) \cup Range(b)
<1>1. a \in Seq(Range(a)) /\ b \in Seq(Range(b)) /\ DOMAIN a = 1 .. Len(a) /\ DOMAIN b = 1 .. Len(b)
  BY SeqOver
<1>2. a \in Seq(S) /\ b \in Seq(S)
  BY <1>1
<1> HIDE DEF S
<1>3. a \o b \in Seq(S) /\ Len(a \o b) = Len(a) + Len(b) /\ Len(a) \in Nat /\ Len(b) \in Nat
  BY <1>2
<1>4. DOMAIN (a \o b) = 1 .. Len(a) + Len(b)
  BY <1>3
<1>5. \A i \in 1 .. Len(a) : (a \o b)[i] = a[i]
  BY <1>2
<1>6. \A i \in 1 .. Len(b) : (a \o b)[Len(a) + i] = b[i]
  BY <1>2
<1>7. IsSeq(a \o b)
  BY <1>3, OverIsSeq
<1>8. ASSUME NEW i \in DOMAIN (a \o b)
      PROVE  \/ i \in DOMAIN a /\ (a \o b)[i] = a[i]
             \/ i - Len(a) \in DOMAIN b /\ (a \o b)[i] = b[i - Len(a)]
  <2>1. i \in 1 .. Len(a) + Len(b)
    BY <1>4
  <2>2. CASE i <= Len(a)
    BY <2>1, <2>2, <1>1, <1>3, <1>5
  <2>3. CASE ~(i <= Len(a))
    <3> DEFINE k == i - Len(a)
    <3>1. k \in 1 .. Len(b) /\ Len(a) + k = i
      BY <2>1, <2>3, <1>3
    <3>2. (a \o b)[Len(a) + k] = b[k]
      BY <3>1, <1>6
    <3> QED BY <3>1, <3>2, <1>1
  <2> QED BY <2>2, <2>3
<1> QED BY <1>1, <1>3, <1>4, <1>5, <1>6, <1>7, <1>8

\* Statements that neither rely on a fact nor concern object rows or ids.
Idle(r, ls) ==
    \A i \in DOMAIN ls :
        /\ ls[i].verb \in {"delete upload", "release", "bump"}
        /\ ls[i] = Do(ls[i].verb, ls[i].arg) /\ ls[i].verb \in Allowed(Call[r].op)

\* They can be put anywhere.
LEMMA IdleLists ==
    ASSUME NEW r, NEW ls, Idle(r, ls)
    PROVE  /\ Lacks(ls, Setter \cup Writer \cup {"child"}) /\ SuitedAt(r, ls)
           /\ PreparedNext(r, ls)
<1>1. \A i \in DOMAIN ls : Requires(r, ls[i]) = {}
  BY DEF Idle, Requires
<1>2. SuitedAt(r, ls)
  BY DEF SuitedAt, Suits, Idle
<1>3. Lacks(ls, Setter \cup Writer \cup {"child"})
  BY DEF Lacks, Setter, Writer, Idle
<1> QED BY <1>1, <1>2, <1>3 DEF PreparedNext

\* Nothing is a list of them.
LEMMA IdleNothing ==
    ASSUME NEW r
    PROVE  IsSeq(<<>>) /\ Idle(r, <<>>)
<1>1. DOMAIN <<>> = {}
  OBVIOUS
<1>2. Idle(r, <<>>)
  BY <1>1 DEF Idle
<1>3. IsSeq(<<>>)
  BY NothingNext
<1> QED BY <1>2, <1>3

\* delete_bucket goes through its uploads.
LEMMA DeleteUploadsStep ==
    ASSUME Inv, NEW r \in Session, DeleteUploads(r)
    PROVE  Inv'
<1> DEFINE U == {u \in DOMAIN upload : upload[u].bucket = tx[r].id}
<1>1. Runs(r, "delete uploads", {}) /\ Quiet
  BY DEF DeleteUploads
<1>2. PICK us \in SetToSeqs(U) : Goes(r, Each("delete upload", us) \o Each("release", us), tx[r].w)
  BY DEF DeleteUploads
<1>3. /\ tx[r].todo[1].verb = "delete uploads" /\ WritesFormed(tx[r].w)
      /\ Suits(r, tx[r].todo[1])
  BY <1>1, RunsFirst
<1>4. Granted(r, {}) /\ ("delete uploads" = "insert blob" => Wanted(r) = {})
  BY <1>1, NothingMore
<1>5. SameWrites(tx[r].w, tx[r].w) /\ SameAside(tx[r].w, tx[r].w) /\ Plain({"delete uploads"})
  BY DEF SameWrites, SameAside, Plain, Setter, Writer
<1>6. IsFiniteSet(U)
  BY FS_Subset DEF Inv, Finite
<1> HIDE DEF U
<1> DEFINE a == Each("delete upload", us)
           b == Each("release", us)
<1>7. IsSeq(a) /\ \A i \in DOMAIN a : a[i] = Do("delete upload", us[i])
  BY <1>6, EachListed
<1>8. IsSeq(b) /\ \A i \in DOMAIN b : b[i] = Do("release", us[i])
  BY <1>6, EachListed
<1>9. Call[r].op = "delete_bucket"
  BY <1>3, AllowedOnly DEF Suits
<1>10. Allowed(Call[r].op) = {"exclusive", "check empty", "delete uploads", "delete upload", "release",
                              "delete bucket"}
  BY <1>9 DEF Allowed
<1> HIDE DEF a, b
<1> DEFINE ls == a \o b
<1>11. /\ IsSeq(ls)
       /\ \A i \in DOMAIN ls : \/ i \in DOMAIN a /\ ls[i] = a[i]
                               \/ i - Len(a) \in DOMAIN b /\ ls[i] = b[i - Len(a)]
  BY <1>7, <1>8, Joined
<1> HIDE DEF ls
<1>12. Idle(r, ls)
  <2>1. \A x : Do("delete upload", x).verb = "delete upload" /\ Do("release", x).verb = "release"
               /\ Do("delete upload", x).arg = x /\ Do("release", x).arg = x
    BY DEF Do
  <2>2. ASSUME NEW i \in DOMAIN ls
        PROVE  \E x : ls[i] = Do("delete upload", x) \/ ls[i] = Do("release", x)
    BY <1>7, <1>8, <1>11
  <2>3. {"delete upload", "release"} \subseteq Allowed(Call[r].op)
    BY <1>10
  <2>4. ASSUME NEW i \in DOMAIN ls
        PROVE  /\ ls[i].verb \in {"delete upload", "release"}
               /\ ls[i] = Do(ls[i].verb, ls[i].arg)
    <3>1. PICK x : ls[i] = Do("delete upload", x) \/ ls[i] = Do("release", x)
      BY <2>2
    <3>2. CASE ls[i] = Do("delete upload", x)
      BY <3>2, <2>1
    <3>3. CASE ls[i] = Do("release", x)
      BY <3>3, <2>1
    <3> QED BY <3>1, <3>2, <3>3
  <2> QED BY <2>3, <2>4 DEF Idle
<1>13. Provides(r, tx[r].todo[1]) = {}
  BY <1>3 DEF Provides
<1>14. Goes(r, ls, tx[r].w)
  BY <1>2 DEF ls, a, b
<1> QED BY <1>1, <1>3, <1>4, <1>5, <1>11, <1>12, <1>13, <1>14, IdleLists, LockingStep

\* A statement that changes the names or the upload rows of its session.
LEMMA SideStep ==
    ASSUME Inv, NEW r \in Session, NEW verb, NEW more, Runs(r, verb, more), Granted(r, more),
           verb = "insert blob" => Wanted(r) = {},
           NEW ls, IsSeq(ls), NEW w, WritesFormed(w), SameWrites(tx[r].w, w),
           w.born = tx[r].w.born, IsFiniteSet(DOMAIN w.staged),
           Goes(r, ls, w), Quiet, Plain({verb}), Idle(r, ls), Provides(r, tx[r].todo[1]) = {},
           Named', UploadsAt(r)'
    PROVE  Inv'
<1>1. /\ RunFrame(r) /\ SameData(r) /\ Open(r) /\ Verb(r) = verb
      /\ Advanced(r, ls, tx[r].id, tx[r].src, tx[r].shot, w)
      /\ tx'[r].w = w
  BY PlainStep
<1>2. Lacks(ls, Setter \cup Writer \cup {"child"}) /\ SuitedAt(r, ls) /\ PreparedNext(r, ls)
  BY IdleLists
<1>3. Todos' /\ Data'
  BY <1>1, <1>2, SameStep
<1>4. Ids' = Ids /\ NewIds(r)' = NewIds(r)
  BY <1>1 DEF SameData, Ids, NewIds
<1>5. Uploads'
  BY <1>1, <1>4, UploadsFrame
<1>6. IsFiniteSet(tx[r].w.born)
  BY DEF Inv, Finite
<1>7. Finite'
  BY <1>1, <1>6, FiniteFrame
<1>8. Formed' /\ LockSafe'
  BY <1>1 DEF RunFrame
<1> QED BY <1>3, <1>5, <1>7, <1>8 DEF Inv

\* It is a step of r alone that ends with the writes w.
SideFramed(r, w) ==
    /\ RunFrame(r) /\ SameData(r) /\ tx'[r].w = w /\ tx'[r].state = tx[r].state
    /\ UNCHANGED <<bucket, upload>> /\ Ids' = Ids
    /\ \A q \in Session : NewIds(q)' = NewIds(q)
    /\ \A q, a, b : Holding(q, a, b) => Holding(q, a, b)'

\* The frame of such a statement, before the names and uploads are looked at.
LEMMA SideFrame ==
    ASSUME Inv, NEW r \in Session, NEW verb, NEW more, Runs(r, verb, more), Granted(r, more),
           verb = "insert blob" => Wanted(r) = {},
           NEW ls, IsSeq(ls), NEW w, WritesFormed(w), SameWrites(tx[r].w, w),
           Goes(r, ls, w), Quiet, Plain({verb})
    PROVE  SideFramed(r, w)
<1>1. RunFrame(r) /\ SameData(r) /\ tx'[r].w = w /\ tx'[r].state = tx[r].state
  BY PlainStep
<1>2. UNCHANGED <<bucket, upload, bucketSeq>> /\ \A q \in Session : NewIds(q)' = NewIds(q)
  BY <1>1, SameFields DEF NewIds
<1>3. \A q, a, b : Holding(q, a, b) => Holding(q, a, b)'
  BY <1>1 DEF Holding, RunFrame
<1>4. UNCHANGED <<bucket, upload>> /\ Ids' = Ids
  BY <1>2 DEF Ids
<1> QED BY <1>1, <1>2, <1>3, <1>4 DEF SideFramed

\* An empty bucket is deleted.
LEMMA DeleteBucketStep ==
    ASSUME Inv, NEW r \in Session, DeleteBucket(r)
    PROVE  Inv'
<1>1. PICK w :
        /\ Runs(r, "delete bucket", {}) /\ w = [tx[r].w EXCEPT !.unnamed = {Arg(r)}]
        /\ Goes(r, <<>>, w) /\ Quiet
  BY DEF DeleteBucket
<1>2. /\ tx[r].todo[1].verb = "delete bucket" /\ Arg(r) = tx[r].todo[1].arg
      /\ WritesFormed(tx[r].w) /\ Suits(r, tx[r].todo[1])
      /\ \A f \in Requires(r, tx[r].todo[1]) : Holds(r, f)
  BY <1>1, RunsFirst
<1>3. Granted(r, {}) /\ ("delete bucket" = "insert blob" => Wanted(r) = {})
  BY <1>1, NothingMore
<1>4. /\ WritesFormed(w) /\ SameWrites(tx[r].w, w)
      /\ w.born = tx[r].w.born /\ w.staged = tx[r].w.staged /\ w.dropped = tx[r].w.dropped
      /\ w.unnamed = {Arg(r)} /\ w.named = tx[r].w.named
  BY <1>1, <1>2 DEF WritesFormed, SameWrites
<1>5. Plain({"delete bucket"}) /\ Provides(r, tx[r].todo[1]) = {} /\ IsSeq(<<>>) /\ Idle(r, <<>>)
  <2>1. Plain({"delete bucket"})
    BY DEF Plain, Setter, Writer
  <2>2. Provides(r, tx[r].todo[1]) = {}
    BY <1>2 DEF Provides
  <2> QED BY <2>1, <2>2, IdleNothing
<1>6. /\ RunFrame(r) /\ SameData(r) /\ tx'[r].w = w /\ tx'[r].state = tx[r].state
      /\ UNCHANGED <<bucket, upload>> /\ Ids' = Ids
      /\ \A q \in Session : NewIds(q)' = NewIds(q)
      /\ \A q, a, b : Holding(q, a, b) => Holding(q, a, b)'
  <2>1. SideFramed(r, w)
    BY <1>1, <1>3, <1>4, <1>5, SideFrame
  <2> QED BY <2>1 DEF SideFramed
<1>7. Arg(r) = Call[r].bucket /\ Call[r].op = "delete_bucket"
  BY <1>2, AllowedOnly DEF Suits
<1>8. Emptied(r)
  <2>1. Holds(r, Empty0)
    BY <1>2 DEF Requires
  <2> QED BY <2>1 DEF Holds, Empty0
<1>9. \A q \in Session : Emptied(q) => Emptied(q)'
  BY <1>6, SameKeeps, KeepsChecked
<1>10. Named'
  <2>1. \A q \in Session : /\ tx'[q].id = tx[q].id /\ tx'[q].w.named = tx[q].w.named
                           /\ q # r => tx'[q].w.unnamed = tx[q].w.unnamed
    BY <1>4, <1>6 DEF SameData, RunFrame
  <2>2. Named
    BY DEF Inv
  <2>3. ASSUME NEW q \in Session, NEW n \in tx'[q].w.unnamed
        PROVE  Call[q].op = "delete_bucket" /\ n = Call[q].bucket /\ Emptied(q)'
    <3>1. CASE q = r
      BY <3>1, <1>4, <1>6, <1>7, <1>8, <1>9
    <3>2. CASE q # r
      BY <3>2, <2>1, <2>2, <1>9 DEF Named
    <3> QED BY <3>1, <3>2
  <2> QED BY <2>1, <2>2, <2>3, <1>6 DEF Named
<1>11. UploadsAt(r) /\ IsFiniteSet(DOMAIN tx[r].w.staged)
  BY DEF Inv, Uploads, UploadsAt, Finite
<1>12. UploadsAt(r)'
  BY <1>4, <1>6, <1>11 DEF UploadsAt
<1> QED BY <1>1, <1>3, <1>4, <1>5, <1>10, <1>11, <1>12, SideStep

\* An upload begins under a new id.
LEMMA InsertUploadStep ==
    ASSUME Inv, NEW r \in Session, InsertUpload(r)
    PROVE  Inv'
<1> DEFINE row == [bucket |-> tx[r].id, key |-> Call[r].key, blob |-> {},
                   createOnly |-> Call[r].createOnly]
<1>1. PICK w :
        /\ Runs(r, "insert upload", {}) /\ w = [tx[r].w EXCEPT !.staged = [u \in {Arg(r)} |-> row]]
        /\ Goes(r, <<>>, w) /\ Quiet
  BY DEF InsertUpload
<1>2. /\ tx[r].todo[1].verb = "insert upload" /\ Arg(r) = tx[r].todo[1].arg
      /\ WritesFormed(tx[r].w) /\ Suits(r, tx[r].todo[1])
      /\ \A f \in Requires(r, tx[r].todo[1]) : Holds(r, f)
  BY <1>1, RunsFirst
<1>3. Granted(r, {}) /\ ("insert upload" = "insert blob" => Wanted(r) = {})
  BY <1>1, NothingMore
<1>4. /\ WritesFormed(w) /\ SameWrites(tx[r].w, w)
      /\ w.born = tx[r].w.born /\ w.staged = [u \in {Arg(r)} |-> row] /\ w.dropped = tx[r].w.dropped
      /\ w.unnamed = tx[r].w.unnamed
  <2> HIDE DEF row
  <2> QED BY <1>1, <1>2 DEF WritesFormed, SameWrites
<1>5. Plain({"insert upload"}) /\ Provides(r, tx[r].todo[1]) = {} /\ IsSeq(<<>>) /\ Idle(r, <<>>)
  <2>1. Plain({"insert upload"})
    BY DEF Plain, Setter, Writer
  <2>2. Provides(r, tx[r].todo[1]) = {}
    BY <1>2 DEF Provides
  <2> QED BY <2>1, <2>2, IdleNothing
<1>6. /\ RunFrame(r) /\ SameData(r) /\ tx'[r].w = w /\ tx'[r].state = tx[r].state
      /\ UNCHANGED <<bucket, upload>> /\ Ids' = Ids
      /\ \A q \in Session : NewIds(q)' = NewIds(q)
      /\ \A q, a, b : Holding(q, a, b) => Holding(q, a, b)'
  <2>1. SideFramed(r, w)
    BY <1>1, <1>3, <1>4, <1>5, SideFrame
  <2> QED BY <2>1 DEF SideFramed
<1>7. Arg(r) = Call[r].upload /\ Call[r].op = "begin_upload"
  BY <1>2, AllowedOnly DEF Suits
<1>8. Named'
  BY <1>4, <1>6, NamedSame
<1>9. tx[r].id \in Ids
  <2>1. Holds(r, Ready0)
    BY <1>2 DEF Requires
  <2> QED BY <2>1, ReadyId
<1>10. \A q \in Session \ {r} : tx[r].id \notin NewIds(q)
  BY DEF Inv, Data, Secret
<1>11. UploadsAt(r)
  BY DEF Inv, Uploads, UploadsAt
<1>12. DOMAIN w.staged = {Arg(r)} /\ w.staged[Arg(r)].bucket = tx[r].id
  BY <1>4
<1>13. UploadsAt(r)'
  BY <1>4, <1>6, <1>7, <1>9, <1>10, <1>11, <1>12 DEF UploadsAt
<1>14. IsFiniteSet(DOMAIN w.staged)
  BY <1>12, FS_Singleton
<1> QED BY <1>1, <1>3, <1>4, <1>5, <1>8, <1>13, <1>14, SideStep

\* A chunk is staged under the lock of its upload row.
LEMMA StageStep ==
    ASSUME Inv, NEW r \in Session, Stage(r)
    PROVE  Inv'
<1>1. PICK w, d, new :
        /\ new = [bucket |-> upload[Call[r].upload].bucket, key |-> upload[Call[r].upload].key,
                  blob |-> {Arg(r)}, createOnly |-> upload[Call[r].upload].createOnly]
        /\ Runs(r, "stage", {})
        /\ w = [tx[r].w EXCEPT !.staged = [x \in {Call[r].upload} |-> new], !.delta = d]
        /\ Goes(r, <<>>, w) /\ Quiet
  BY DEF Stage
<1>2. /\ tx[r].todo[1].verb = "stage" /\ WritesFormed(tx[r].w)
      /\ \A f \in Requires(r, tx[r].todo[1]) : Holds(r, f)
  BY <1>1, RunsFirst
<1>3. Granted(r, {}) /\ ("stage" = "insert blob" => Wanted(r) = {})
  BY <1>1, NothingMore
<1>4. /\ WritesFormed(w) /\ SameWrites(tx[r].w, w)
      /\ w.born = tx[r].w.born /\ w.dropped = tx[r].w.dropped
      /\ w.staged = [x \in {Call[r].upload} |-> new] /\ w.unnamed = tx[r].w.unnamed
  BY <1>1, <1>2 DEF WritesFormed, SameWrites
<1>5. Plain({"stage"}) /\ Provides(r, tx[r].todo[1]) = {} /\ IsSeq(<<>>) /\ Idle(r, <<>>)
  <2>1. Plain({"stage"})
    BY DEF Plain, Setter, Writer
  <2>2. Provides(r, tx[r].todo[1]) = {}
    BY <1>2 DEF Provides
  <2> QED BY <2>1, <2>2, IdleNothing
<1>6. /\ RunFrame(r) /\ SameData(r) /\ tx'[r].w = w /\ tx'[r].state = tx[r].state
      /\ UNCHANGED <<bucket, upload>> /\ Ids' = Ids
      /\ \A q \in Session : NewIds(q)' = NewIds(q)
      /\ \A q, a, b : Holding(q, a, b) => Holding(q, a, b)'
  <2>1. SideFramed(r, w)
    BY <1>1, <1>3, <1>4, <1>5, SideFrame
  <2> QED BY <2>1 DEF SideFramed
<1>7. Holding(r, UploadRow(Call[r].upload), "update")
  <2>1. Holds(r, Upload0)
    BY <1>2 DEF Requires
  <2> QED BY <2>1 DEF Holds, Upload0, HasUpload
<1>8. Named'
  BY <1>4, <1>6, NamedSame
<1>9. Call[r].upload \in DOMAIN upload
  BY <1>7 DEF Holding, UploadRow, Inv, Uploads
<1>10. /\ upload[Call[r].upload].bucket \in Ids
       /\ \A q \in Session \ {r} : upload[Call[r].upload].bucket \notin NewIds(q)
  BY <1>9 DEF Inv, Data, Secret, BucketIds
<1>11. UploadsAt(r)
  BY DEF Inv, Uploads, UploadsAt
<1>12. DOMAIN w.staged = {Call[r].upload} /\ w.staged[Call[r].upload].bucket = upload[Call[r].upload].bucket
  BY <1>1, <1>4
<1>13. UploadsAt(r)'
  BY <1>4, <1>6, <1>7, <1>10, <1>11, <1>12 DEF UploadsAt
<1>14. IsFiniteSet(DOMAIN w.staged)
  BY <1>12, FS_Singleton
<1> QED BY <1>1, <1>3, <1>4, <1>5, <1>8, <1>13, <1>14, SideStep

\* An upload row is deleted under its lock.
LEMMA DeleteUploadStep ==
    ASSUME Inv, NEW r \in Session, DeleteUpload(r)
    PROVE  Inv'
<1>1. PICK w :
        /\ Runs(r, "delete upload", {})
        /\ w = [tx[r].w EXCEPT !.dropped = @ \cup ({Arg(r)} \cap DOMAIN upload)]
        /\ Goes(r, <<>>, w) /\ Quiet
  BY DEF DeleteUpload
<1>2. tx[r].todo[1].verb = "delete upload" /\ WritesFormed(tx[r].w) /\ Verb(r) = "delete upload"
  BY <1>1, RunsFirst
<1>3. Granted(r, {}) /\ ("delete upload" = "insert blob" => Wanted(r) = {})
  BY <1>1, NothingMore
<1>4. /\ WritesFormed(w) /\ SameWrites(tx[r].w, w)
      /\ w.born = tx[r].w.born /\ w.dropped = tx[r].w.dropped \cup ({Arg(r)} \cap DOMAIN upload)
      /\ w.staged = tx[r].w.staged /\ w.unnamed = tx[r].w.unnamed
  BY <1>1, <1>2 DEF WritesFormed, SameWrites
<1>5. Plain({"delete upload"}) /\ Provides(r, tx[r].todo[1]) = {} /\ IsSeq(<<>>) /\ Idle(r, <<>>)
  <2>1. Plain({"delete upload"})
    BY DEF Plain, Setter, Writer
  <2>2. Provides(r, tx[r].todo[1]) = {}
    BY <1>2 DEF Provides
  <2> QED BY <2>1, <2>2, IdleNothing
<1>6. /\ RunFrame(r) /\ SameData(r) /\ tx'[r].w = w /\ tx'[r].state = tx[r].state
      /\ UNCHANGED <<bucket, upload>> /\ Ids' = Ids
      /\ \A q \in Session : NewIds(q)' = NewIds(q)
      /\ \A q, a, b : Holding(q, a, b) => Holding(q, a, b)'
  <2>1. SideFramed(r, w)
    BY <1>1, <1>3, <1>4, <1>5, SideFrame
  <2> QED BY <2>1 DEF SideFramed
<1>7. Wanted(r) = {<<UploadRow(u), "update">> : u \in {Arg(r)} \cap DOMAIN upload}
  BY <1>2, WantedIs
<1>8. \A u \in {Arg(r)} \cap DOMAIN upload : <<r, UploadRow(u), "update">> \in held'
  BY <1>1, <1>7, RunsHolds
<1>9. Named'
  BY <1>4, <1>6, NamedSame
<1>10. UploadsAt(r) /\ IsFiniteSet(DOMAIN tx[r].w.staged)
  BY DEF Inv, Uploads, UploadsAt, Finite
<1>11. ASSUME NEW u \in w.dropped PROVE <<r, UploadRow(u), "update">> \in held'
  <2>1. CASE u \in tx[r].w.dropped
    BY <2>1, <1>6, <1>10 DEF UploadsAt, Holding
  <2> QED BY <2>1, <1>4, <1>8
<1>12. UploadsAt(r)'
  BY <1>4, <1>6, <1>10, <1>11 DEF UploadsAt, Holding
<1> QED BY <1>1, <1>3, <1>4, <1>5, <1>9, <1>10, <1>12, SideStep

\* Expired uploads are deleted under their locks.
LEMMA ExpireStep ==
    ASSUME Inv, NEW r \in Session, Expire(r)
    PROVE  Inv'
<1>1. PICK U \in SUBSET {u \in DOMAIN upload : Blockers(r, UploadRow(u), "update") = {}} :
        /\ Runs(r, "expire", {<<UploadRow(u), "update">> : u \in U})
        /\ \E us \in SetToSeqs(U) :
            Goes(r, Each("release", us), [tx[r].w EXCEPT !.dropped = U])
        /\ Quiet
  BY DEF Expire
<1>2. PICK us, w, ls :
        /\ us \in SetToSeqs(U)
        /\ ls = Each("release", us) /\ w = [tx[r].w EXCEPT !.dropped = U] /\ Goes(r, ls, w)
  BY <1>1
<1> DEFINE more == {<<UploadRow(u), "update">> : u \in U}
<1>3. tx[r].todo[1].verb = "expire" /\ WritesFormed(tx[r].w) /\ Suits(r, tx[r].todo[1])
  BY <1>1, RunsFirst
<1>4. Granted(r, more)
  <2>1. ASSUME NEW u \in U
        PROVE  LockKind(<<UploadRow(u), "update">>) /\ Blockers(r, UploadRow(u), "update") = {}
    BY <1>1 DEF LockKind, UploadRow
  <2> QED BY <2>1 DEF Granted
<1>5. /\ WritesFormed(w) /\ SameWrites(tx[r].w, w)
      /\ w.born = tx[r].w.born /\ w.dropped = U
      /\ w.staged = tx[r].w.staged /\ w.unnamed = tx[r].w.unnamed
  BY <1>2, <1>3 DEF WritesFormed, SameWrites
<1>6. IsFiniteSet(U)
  BY <1>1, FS_Subset DEF Inv, Finite
<1>7. IsSeq(ls) /\ \A i \in DOMAIN ls : ls[i] = Do("release", us[i])
  BY <1>2, <1>6, EachListed
<1>8. Call[r].op = "gc_pending_uploads"
  BY <1>3, AllowedOnly DEF Suits
<1>9. Idle(r, ls)
  <2>1. \A x : Do("release", x).verb = "release" /\ Do("release", x).arg = x
    BY DEF Do
  <2>2. "release" \in Allowed(Call[r].op)
    BY <1>8 DEF Allowed
  <2> QED BY <2>1, <2>2, <1>7 DEF Idle
<1>10. Plain({"expire"}) /\ Provides(r, tx[r].todo[1]) = {}
  BY <1>3 DEF Plain, Setter, Writer, Provides
<1>11. Runs(r, "expire", more)
  BY <1>1
<1> HIDE DEF more
<1>12. /\ RunFrame(r) /\ SameData(r) /\ tx'[r].w = w /\ tx'[r].state = tx[r].state
       /\ UNCHANGED <<bucket, upload>> /\ Ids' = Ids
       /\ \A q \in Session : NewIds(q)' = NewIds(q)
       /\ \A q, a, b : Holding(q, a, b) => Holding(q, a, b)'
  <2>1. SideFramed(r, w)
    BY <1>1, <1>2, <1>4, <1>5, <1>7, <1>10, <1>11, SideFrame
  <2> QED BY <2>1 DEF SideFramed
<1>13. \A u \in U : <<r, UploadRow(u), "update">> \in held'
  <2>1. \A u \in U : <<UploadRow(u), "update">> \in Wanted(r) \cup more
    BY DEF more
  <2> QED BY <2>1, <1>11, RunsHolds
<1>14. Named'
  BY <1>5, <1>12, NamedSame
<1>15. UploadsAt(r) /\ IsFiniteSet(DOMAIN tx[r].w.staged)
  BY DEF Inv, Uploads, UploadsAt, Finite
<1>16. UploadsAt(r)'
  BY <1>5, <1>12, <1>13, <1>15 DEF UploadsAt, Holding
<1> QED BY <1>1, <1>2, <1>4, <1>5, <1>7, <1>9, <1>10, <1>11, <1>14, <1>15, <1>16, SideStep

\* A zero-count blob is collected, or the collection ends.
LEMMA CollectStep ==
    ASSUME Inv, NEW r \in Session, Collect(r)
    PROVE  Inv'
<1>1. CASE \E c \in Collectable(r) :
            /\ Runs(r, "collect", {<<BlobRow(c), "update">>})
            /\ Goes(r, <<>>, [tx[r].w EXCEPT !.dead = @ \cup {c}])
  <2>1. PICK c, w, more :
            /\ more = {<<BlobRow(c), "update">>} /\ Runs(r, "collect", more)
            /\ w = [tx[r].w EXCEPT !.dead = @ \cup {c}] /\ Goes(r, <<>>, w)
    BY <1>1
  <2>2. tx[r].todo[1].verb = "collect" /\ WritesFormed(tx[r].w)
    BY <2>1, RunsFirst
  <2>3. Granted(r, more)
    BY <2>1 DEF Granted, LockKind, BlobRow
  <2>4. WritesFormed(w) /\ SameWrites(tx[r].w, w) /\ SameAside(tx[r].w, w)
    BY <2>1, <2>2 DEF WritesFormed, SameWrites, SameAside
  <2>5. Plain({"collect"}) /\ Provides(r, tx[r].todo[1]) = {}
    BY <2>2 DEF Plain, Setter, Writer, Provides
  <2>6. Quiet
    BY DEF Collect
  <2> QED BY <2>1, <2>3, <2>4, <2>5, <2>6, PlainNothing
<1>2. CASE Runs(r, "collect", {}) /\ tx' = [tx EXCEPT ![r].todo = <<>>]
  <2>1. /\ Open(r) /\ tx[r].todo[1].verb = "collect" /\ WritesFormed(tx[r].w) /\ Suits(r, tx[r].todo[1])
    BY <1>2, RunsFirst
  <2>2. Granted(r, {}) /\ ("collect" = "insert blob" => Wanted(r) = {})
    BY <1>2, NothingMore
  <2>3. /\ LockSafe' /\ held \subseteq held'
        /\ \A g \in held' : g \in held \/ (g[1] = r /\ LockKind(<<g[2], g[3]>>))
    BY <1>2, <2>2, RunsLocks DEF Inv
  <2>4. tx[r] = [state |-> tx[r].state, todo |-> tx[r].todo, id |-> tx[r].id, src |-> tx[r].src,
                 shot |-> tx[r].shot, w |-> tx[r].w] /\ tx[r].state = "open"
        /\ tx = [q \in Session |-> tx[q]]
    BY <2>1 DEF Inv, Formed, TxFormed, Open
  <2>5. tx'[r] = [state |-> "open", todo |-> <<>>, id |-> tx[r].id, src |-> tx[r].src,
                  shot |-> tx[r].shot, w |-> tx[r].w]
    BY <1>2, <2>4
  <2>6. tx' = [q \in Session |-> tx'[q]] /\ \A q \in Session \ {r} : tx'[q] = tx[q]
    BY <1>2, <2>4
  <2>7. /\ tx'[r].state = "open" /\ tx'[r].todo = <<>> /\ tx'[r].id = tx[r].id /\ tx'[r].src = tx[r].src
        /\ tx'[r].shot = tx[r].shot /\ tx'[r].w = tx[r].w
    BY <2>5
  <2>8. Formed'
    <3>1. IsSeq(<<>>)
      BY NothingNext
    <3>2. TxFormed(tx'[r])
      BY <2>1, <2>5, <2>7, <3>1 DEF TxFormed
    <3>3. \A q \in Session : TxFormed(tx'[q])
      BY <3>2, <2>6 DEF Inv, Formed
    <3> QED BY <2>6, <3>3 DEF Formed, TxFormed, WritesFormed, IsSeq, Ended, NoWrites
  <2>9. UNCHANGED tables /\ UNCHANGED <<versionSeq, bucketSeq>>
    BY DEF Collect, Quiet, sequences
  <2>10. RunFrame(r) /\ SameData(r) /\ SameSides(r)
    BY <2>3, <2>4, <2>6, <2>7, <2>8, <2>9 DEF RunFrame, SameData, SameSides
  <2>11. Data' /\ Named' /\ Uploads'
    BY <2>10, DataSame, NamedSame, UploadsSame DEF SameSides
  <2>12. DOMAIN tx'[r].todo = {}
    BY <2>7
  <2>13. Call[r].op = "gc_blobs"
    BY <2>1, AllowedOnly DEF Suits
  <2>14. /\ SuitedAt(r, tx[r].todo)' /\ PreparedAt(r, tx[r].todo)'
         /\ SettlingAt(tx[r].todo, tx[r].id)' /\ OnceAt(r, tx[r].todo, tx[r].w)'
    BY <2>12 DEF SuitedAt, PreparedAt, SettlingAt, OnceAt
  <2>15. WillReadAt(r, tx[r].todo)'
    BY <2>13 DEF WillReadAt
  <2>16. Todos'
    BY <2>10, <2>14, <2>15, TodosOthers
  <2>17. Finite'
    <3>1. IsFiniteSet(tx[r].w.born) /\ IsFiniteSet(DOMAIN tx[r].w.staged)
      BY DEF Inv, Finite
    <3> QED BY <3>1, <2>7, <2>10, FiniteFrame
  <2> QED BY <2>3, <2>8, <2>11, <2>16, <2>17 DEF Inv
<1> QED BY <1>1, <1>2 DEF Collect

=============================================================================
