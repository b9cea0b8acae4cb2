-------------------------- MODULE VersionedBuckets --------------------------
(***************************************************************************)
(* What the semantic layer promises its clients, without blobs, uploads,   *)
(* locks or flags: a set of named buckets, each with a history of versions *)
(* per key.  A transaction publishes one version above all others of its   *)
(* key, deletes versions and adds delete markers, or forks a bucket as it  *)
(* was at one moment.                                                      *)
(***************************************************************************)
EXTENDS Integers, Functions

CONSTANT Name     \* bucket names

VARIABLES
    names,     \* bucket name -> bucket id
    history,   \* version id -> [bucket, key, entry]
    shots      \* moments at which a running fork has read its source

vars == <<names, history, shots>>

Marker == {}

Of(id, k) == {v \in DOMAIN history : history[v].bucket = id /\ history[v].key = k}

\* The newest row of every key of a bucket: what a reader sees of it.
Newest(id) ==
    {<<history[v].key, history[v].entry>> :
        v \in {w \in DOMAIN history :
                /\ history[w].bucket = id
                /\ \A x \in Of(id, history[w].key) : x <= w}}

\* The rows that a step adds, and the old rows that it keeps as they were.
Added == DOMAIN history' \ DOMAIN history
Kept == DOMAIN history \cap DOMAIN history'

Unchanged(V) == \A v \in V : history'[v] = history[v]
Above(v) == \A w \in Of(history'[v].bucket, history'[v].key) : w < v

Create(n) ==
    /\ n \notin DOMAIN names /\ DOMAIN names' = DOMAIN names \cup {n}
    /\ names'[n] \notin Range(names)
    /\ \A m \in DOMAIN names : names'[m] = names[m]

CreateBucket(n) == Create(n) /\ UNCHANGED history

DropBucket(n) ==
    /\ n \in DOMAIN names
    /\ \A v \in DOMAIN history : history[v].bucket # names[n]
    /\ names' = Restrict(names, DOMAIN names \ {n})
    /\ UNCHANGED history

Publish(n) ==
    /\ n \in DOMAIN names
    /\ DOMAIN history \subseteq DOMAIN history'
    /\ \E v \in Added :
        /\ Added = {v}
        /\ history'[v].bucket = names[n] /\ history'[v].entry # Marker /\ Above(v)
    /\ Unchanged(Kept)
    /\ UNCHANGED names

DeleteVersions(n) ==
    /\ n \in DOMAIN names
    /\ \A v \in DOMAIN history \ DOMAIN history' : history[v].bucket = names[n]
    /\ \A v \in Added :
        history'[v].bucket = names[n] /\ history'[v].entry = Marker /\ Above(v)
    /\ Unchanged(Kept)
    /\ UNCHANGED names

Fork(n, m) ==
    /\ n \in DOMAIN names /\ Create(m)
    /\ DOMAIN history \subseteq DOMAIN history'
    /\ Unchanged(Kept)
    /\ \A v \in Added : history'[v].bucket = names'[m]
    /\ \A v, w \in Added : history'[v].key = history'[w].key => v = w
    /\ LET copy == {<<history'[v].key, history'[v].entry>> : v \in Added}
       IN copy = Newest(names[n]) \/ <<names[n], copy>> \in shots

Init == names = [x \in {} |-> x] /\ history = [x \in {} |-> x] /\ shots = {}

Next ==
    /\ \A s \in shots' \ shots : s[2] = Newest(s[1])
    /\ \/ \E n \in Name : CreateBucket(n) \/ DropBucket(n) \/ Publish(n) \/ DeleteVersions(n)
       \/ \E n, m \in Name : Fork(n, m)
       \/ UNCHANGED <<names, history>>

Steps == [][Next]_vars
Spec == Init /\ Steps
=============================================================================
