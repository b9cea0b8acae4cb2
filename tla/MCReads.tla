------------------------------- MODULE MCReads -------------------------------
(* Instances of Reads: what is stored at first, and the requests answered.  *)
EXTENDS Reads

K == <<1>>          \* the key that is read
D == <<3>>          \* the key that is copied to
x == <<7>>
y == <<8, 9, 7>>

Obj(key, id, body, marker) == [key |-> key, id |-> id, body |-> body, marker |-> marker]

Two     == {Obj(K, 1, y, FALSE), Obj(K, 2, x, FALSE)}
Hidden  == {Obj(K, 1, y, FALSE), Obj(K, 2, <<>>, TRUE)}
Empty   == {Obj(K, 1, <<>>, FALSE), Obj(<<1, 1>>, 2, <<>>, TRUE)}

Write(key, body) == [key |-> key, body |-> body]
Both(key) == {Write(key, x), Write(key, y)}

NoUpload == [live |-> FALSE, algorithm |-> "none", key |-> D, parts |-> {}]

Script(S, shares, u, standby, rs) ==
    [store |-> S, shared |-> shares, upload |-> u, recovery |-> standby, requests |-> rs]

----------------------------------------------------------------------------
(* Reads: preconditions and ranges, one at a time and together.            *)

Tag(b) == [weak |-> FALSE, opaque |-> b]
WeakTag(b) == [weak |-> TRUE, opaque |-> b]
Tags(T) == {[any |-> FALSE, tags |-> T]}
Star == {[any |-> TRUE, tags |-> {}]}

Conditions ==
    {NoCondition,
     [NoCondition EXCEPT !.match = Tags({Tag(x)})],
     [NoCondition EXCEPT !.match = Tags({WeakTag(x), Tag(y)}), !.unmodified = {0}],
     [NoCondition EXCEPT !.match = Star, !.none = Tags({WeakTag(x)})],
     [NoCondition EXCEPT !.unmodified = {1}, !.modified = {0}],
     [NoCondition EXCEPT !.none = Tags({Tag(y)}), !.modified = {5}]}

Ranges ==
    {[first |-> {1}, last |-> {}], [first |-> {}, last |-> {2}],
     [first |-> {0}, last |-> {1}], [first |-> {1}, last |-> {0}],
     [first |-> {}, last |-> {0}]}

IfRanges == {{}, {[tag |-> {Tag(x)}, date |-> {}]}, {[tag |-> {WeakTag(x)}, date |-> {}]},
             {[tag |-> {}, date |-> {1}]}}

Read(op, version, c, range, ifRange, mode) ==
    [op |-> op, role |-> "tenant", auth |-> "good", key |-> K, version |-> version,
     cond |-> c, range |-> range, ifRange |-> ifRange, checksumMode |-> mode]

Ops == {"GetObject", "HeadObject"}

Plain(op, v, c) == Read(op, v, c, {}, {}, FALSE)

Refused(auth) == [Plain("GetObject", {}, NoCondition) EXCEPT !.auth = auth, !.role = "stranger"]

ReadRequests ==
    {<<Two, <<Plain(op, v, c)>>>> : op \in Ops, v \in {{}, {1}}, c \in Conditions}
    \union
    {<<S, <<Plain(op, v, NoCondition)>>>> : S \in {Hidden, Empty}, op \in Ops, v \in {{}, {2}}}
    \union
    {<<S, <<Read("GetObject", {}, NoCondition, {range}, i, TRUE)>>>> :
       S \in {Two, Empty}, range \in Ranges, i \in IfRanges}
    \union
    {<<Two, <<Read("HeadObject", {}, NoCondition, range, {}, TRUE)>>>> :
       range \in {{}} \union {{s} : s \in Ranges}}

\* The worker goes from one tenant's request to the next one's.
AuthRequests ==
    {<<Plain("HeadObject", {}, NoCondition), Refused(auth)>> :
       auth \in {"both", "neither", "unknown", "forged", "session"}}

ReadScripts ==
    {Script(r[1], Both(K), NoUpload, FALSE, r[2]) : r \in ReadRequests}
    \union
    {Script(Two, {}, NoUpload, FALSE, rs) : rs \in AuthRequests}

----------------------------------------------------------------------------
(* Copies.                                                                 *)

Copy(key, to, replace, version, c) ==
    [op |-> "CopyObject", role |-> "tenant", auth |-> "good", key |-> key, to |-> to,
     replace |-> replace, version |-> version, cond |-> c]

CopyScripts ==
    {Script(Two, Both(K), NoUpload, standby, <<Copy(K, D, FALSE, v, c)>>) :
       standby \in BOOLEAN, v \in {{}, {1}}, c \in Conditions}
    \union
    {Script(Two, Both(K), NoUpload, FALSE, <<Copy(K, K, replace, {}, NoCondition)>>) :
       replace \in BOOLEAN}

----------------------------------------------------------------------------
(* Completions and the listing of parts.                                   *)

Part(n, b) == [n |-> n, body |-> b]
Upload(algorithm) == [live |-> TRUE, algorithm |-> algorithm, key |-> D,
                      parts |-> {Part(1, x), Part(2, y)}]

Named(n, etag, sha) == [n |-> n, etag |-> etag, sha |-> sha]

Complete(parts, composite) ==
    [op |-> "CompleteMultipartUpload", role |-> "tenant", auth |-> "good",
     parts |-> parts, composite |-> composite]

Parts(max) == [op |-> "ListParts", role |-> "tenant", auth |-> "good", marker |-> 0, max |-> max]

UploadScripts ==
    {Script({}, Both(D), Upload(a), FALSE, <<r>>) :
       a \in {"none", "SHA256"},
       r \in {Complete(<<Named(1, x, {}), Named(2, y, {})>>, {}), Complete(<<>>, {}),
              Complete(<<Named(1, x, {x}), Named(2, y, {y})>>, {<<{x}, {y}>>}),
              Complete(<<Named(1, x, {x}), Named(2, y, {y})>>, {<<{x}, {x}>>}),
              Complete(<<Named(1, x, {x}), Named(2, y, {x})>>, {<<{x}, {x}>>}),
              Complete(<<Named(2, y, {y}), Named(1, x, {x})>>, {<<{y}, {x}>>}),
              Complete(<<Named(3, x, {x})>>, {<<{x}>>}),
              Parts(1), Parts(2)}}
    \union
    {Script({}, {}, Upload("CRC32"), FALSE, <<Complete(<<Named(1, x, {})>>, {})>>)}
    \union
    {Script({}, Both(D), Upload("none"), TRUE, <<r>>) :
       r \in {Complete(<<Named(1, x, {})>>, {}), Parts(1)}}

----------------------------------------------------------------------------
(* Listings.  The delimiter is 2; of the code points 1 .. 3, 3 is what     *)
(* follows it and the greatest one.                                        *)

List(op, prefix, delimiter, from, max) ==
    [op |-> op, role |-> "tenant", auth |-> "good",
     q |-> [prefix |-> prefix, delimiter |-> delimiter],
     from |-> from, startAfter |-> from, token |-> {}, versionMarker |-> {}, max |-> max]

Bucket == {Obj(<<1>>, 1, x, FALSE), Obj(<<1, 2, 1>>, 2, x, FALSE), Obj(<<1, 2, 3>>, 3, x, FALSE),
           Obj(<<1, 3>>, 4, x, FALSE), Obj(<<3, 2, 1>>, 5, x, FALSE), Obj(<<3, 3>>, 6, x, FALSE)}

Versions == {Obj(<<1>>, 1, x, FALSE), Obj(<<1>>, 2, y, FALSE), Obj(<<1, 2, 1>>, 3, x, FALSE),
             Obj(<<3>>, 4, x, FALSE), Obj(<<3>>, 5, <<>>, TRUE)}

ListRequests ==
    {List(op, <<>>, d, from, max) : op \in {"ListObjectsV1", "ListObjectsV2"},
       d \in {{}, {<<2>>}}, from \in {{}, {<<1, 2, 1>>}}, max \in {1, 2}}
    \union
    {List(op, prefix, {<<2>>}, {}, 1) : op \in {"ListObjectsV1", "ListObjectsV2"},
       prefix \in {<<1>>, <<3>>}}
    \union
    {List("ListObjectsV2", <<>>, {}, {}, 0)}

ListScripts ==
    {Script(Bucket, {Write(<<1, 2, 1>>, x), Write(<<1, 3>>, x)}, NoUpload, FALSE, <<r>>) : r \in ListRequests}
    \union
    {Script(Versions, {Write(<<1>>, x)}, NoUpload, FALSE,
            <<List("ListObjectVersions", prefix, d, {}, max)>>) :
       prefix \in {<<>>, <<1>>}, d \in {{}, {<<2>>}}, max \in {1, 2}}

MCScripts == ReadScripts \union CopyScripts \union UploadScripts \union ListScripts

----------------------------------------------------------------------------
(* Parts listed with pages of none, and nobody else at work.               *)

MCPartsZero == {Script({}, {}, Upload("none"), FALSE, <<Parts(0)>>)}

----------------------------------------------------------------------------
(* Versions listed with a delimiter, where a key comes right after a       *)
(* common prefix.                                                          *)

MCVersionPages ==
    {Script(Bucket, {}, NoUpload, FALSE, <<List("ListObjectVersions", <<>>, {<<2>>}, {}, max)>>) :
       max \in {1, 2, 3}}

=============================================================================
