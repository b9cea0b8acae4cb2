---------------------------- MODULE ReadsProofs ----------------------------
(***************************************************************************)
(* Theorems about Reads, for any scripts of well-formed requests: reads    *)
(* are consistent, copies and completions are guarded, and no tenant's     *)
(* role is left behind, whatever other clients write between the           *)
(* transactions of a request.                                              *)
(***************************************************************************)
EXTENDS Reads, LeastElements, FiniteSetTheorems, TLAPS

-----------------------------------------------------------------------------
(* Preconditions.                                                          *)

\* The member of a set of one.
LEMMA ChooseOne ==
    ASSUME NEW o
    PROVE  (CHOOSE v \in {o} : TRUE) = o
OBVIOUS

\* A version has a second of creation.
LEMMA SecondNat ==
    ASSUME NEW o, IsVersion(o)
    PROVE  Second(o) \in Nat
BY DEF IsVersion, Second

\* The verdict on a GET or HEAD stands for the four preconditions in their
\* order of precedence.
LEMMA EvaluateRead ==
    ASSUME NEW c, NEW o, IsCondition(c), IsVersion(o)
    PROVE  /\ evaluate(c, o, TRUE) \in {"Proceed", "NotModified", "PreconditionFailed"}
           /\ evaluate(c, o, TRUE) = "Proceed" <=> Unchanged(c, o) /\ Fresh(c, o)
           /\ evaluate(c, o, TRUE) = "NotModified" <=> Unchanged(c, o) /\ ~Fresh(c, o)
           /\ evaluate(c, o, TRUE) = "PreconditionFailed" <=> ~Unchanged(c, o)
<1> DEFINE matched == \E m \in c.match : m.any \/ \E t \in m.tags : strong_eq(t, o)
           found   == \E m \in c.none : m.any \/ \E t \in m.tags : weak_eq(t, o)
           late    == \E s \in c.unmodified : Second(o) > s
           stale   == \E s \in c.modified : Second(o) <= s
<1>1. Unchanged(c, o) <=> (c.match # {} => matched) /\ (c.match = {} => ~late)
  <2>1. Second(o) \in Nat /\ c.unmodified \subseteq Nat
    BY SecondNat DEF IsCondition
  <2>2. (\A s \in c.unmodified : Second(o) <= s) <=> ~late
    BY <2>1
  <2>3. (\A m \in c.match : m.any \/ \E t \in m.tags : strong_eq(t, o)) <=> (c.match # {} => matched)
    BY DEF IsCondition, Single
  <2> HIDE DEF late, matched
  <2> QED BY <2>2, <2>3 DEF Unchanged
<1>2. Fresh(c, o) <=> ~found /\ (c.none = {} => ~stale)
  <2>1. Second(o) \in Nat /\ c.modified \subseteq Nat
    BY SecondNat DEF IsCondition
  <2>2. (\A s \in c.modified : Second(o) > s) <=> ~stale
    BY <2>1
  <2>3. (\A m \in c.none : ~m.any /\ \A t \in m.tags : t.opaque # o.body) <=> ~found
    BY DEF weak_eq
  <2> HIDE DEF stale, found
  <2> QED BY <2>2, <2>3 DEF Fresh
<1>3. evaluate(c, o, TRUE) =
        CASE c.match # {} /\ ~matched -> "PreconditionFailed"
          [] c.match = {} /\ late -> "PreconditionFailed"
          [] OTHER ->
               CASE c.none # {} /\ found -> IF TRUE THEN "NotModified" ELSE "PreconditionFailed"
                 [] c.none = {} /\ TRUE /\ stale -> "NotModified"
                 [] OTHER -> "Proceed"
  BY DEF evaluate
<1>4. found => c.none # {}
  OBVIOUS
<1> HIDE DEF matched, found, late, stale
<1> QED BY <1>1, <1>2, <1>3, <1>4

\* The source of a copy that may proceed meets its preconditions.
LEMMA EvaluateCopy ==
    ASSUME NEW c, NEW o, IsCondition(c), IsVersion(o), evaluate(c, o, FALSE) = "Proceed"
    PROVE  /\ Unchanged(c, o)
           /\ \A m \in c.none : ~m.any /\ \A t \in m.tags : t.opaque # o.body
<1> DEFINE matched == \E m \in c.match : m.any \/ \E t \in m.tags : strong_eq(t, o)
           found   == \E m \in c.none : m.any \/ \E t \in m.tags : weak_eq(t, o)
           late    == \E s \in c.unmodified : Second(o) > s
           stale   == \E s \in c.modified : Second(o) <= s
<1>1. Unchanged(c, o) <=> (c.match # {} => matched) /\ (c.match = {} => ~late)
  <2>1. Second(o) \in Nat /\ c.unmodified \subseteq Nat
    BY SecondNat DEF IsCondition
  <2>2. (\A s \in c.unmodified : Second(o) <= s) <=> ~late
    BY <2>1
  <2>3. (\A m \in c.match : m.any \/ \E t \in m.tags : strong_eq(t, o)) <=> (c.match # {} => matched)
    BY DEF IsCondition, Single
  <2> HIDE DEF late, matched
  <2> QED BY <2>2, <2>3 DEF Unchanged
<1>2. (\A m \in c.none : ~m.any /\ \A t \in m.tags : t.opaque # o.body) <=> ~found
  BY DEF weak_eq
<1>3. evaluate(c, o, FALSE) =
        CASE c.match # {} /\ ~matched -> "PreconditionFailed"
          [] c.match = {} /\ late -> "PreconditionFailed"
          [] OTHER ->
               CASE c.none # {} /\ found -> IF FALSE THEN "NotModified" ELSE "PreconditionFailed"
                 [] c.none = {} /\ FALSE /\ stale -> "NotModified"
                 [] OTHER -> "Proceed"
  BY DEF evaluate
<1>4. found => c.none # {}
  OBVIOUS
<1> HIDE DEF matched, found, late, stale
<1> QED BY <1>1, <1>2, <1>3, <1>4

\* Without preconditions nothing is refused.
LEMMA NoConditionHolds ==
    ASSUME NEW o
    PROVE  /\ Unchanged(NoCondition, o) /\ Fresh(NoCondition, o)
           /\ NoCondition.none = {}
BY DEF NoCondition, Unchanged, Fresh

-----------------------------------------------------------------------------
(* Ranges.                                                                 *)

\* The bounds of an interval.
LEMMA IntervalBounds ==
    ASSUME NEW a \in Nat, NEW b \in Nat, a <= b
    PROVE  /\ Min(a .. b) = a /\ Max(a .. b) = b
           /\ Cardinality(a .. b) = b - a + 1
<1>1. \A x \in a .. b : (\A y \in a .. b : x <= y) => x = a
  OBVIOUS
<1>2. \A x \in a .. b : (\A y \in a .. b : x >= y) => x = b
  OBVIOUS
<1>3. a \in a .. b /\ b \in a .. b /\ (\A y \in a .. b : a <= y) /\ \A y \in a .. b : b >= y
  OBVIOUS
<1>4. Min(a .. b) = a
  BY <1>1, <1>3 DEF Min
<1>5. Max(a .. b) = b
  BY <1>2, <1>3 DEF Max
<1>6. Cardinality(a .. b) = b - a + 1
  BY FS_Interval
<1> QED BY <1>4, <1>5, <1>6

\* The bounds of a range given by its first and last byte.
LEMMA PairBounds ==
    ASSUME NEW a \in Int, NEW b \in Int
    PROVE  /\ Min({a, b}) = IF a <= b THEN a ELSE b
           /\ Max({a, b}) = IF a <= b THEN b ELSE a
<1>1. CASE a <= b
  <2>1. \A x \in {a, b} : (\A y \in {a, b} : x <= y) => x = a
    BY <1>1
  <2>2. \A x \in {a, b} : (\A y \in {a, b} : x >= y) => x = b
    BY <1>1
  <2>3. (\A y \in {a, b} : a <= y) /\ \A y \in {a, b} : b >= y
    BY <1>1
  <2> QED BY <1>1, <2>1, <2>2, <2>3 DEF Min, Max
<1>2. CASE ~ (a <= b)
  <2>1. \A x \in {a, b} : (\A y \in {a, b} : x <= y) => x = b
    BY <1>2
  <2>2. \A x \in {a, b} : (\A y \in {a, b} : x >= y) => x = a
    BY <1>2
  <2>3. (\A y \in {a, b} : b <= y) /\ \A y \in {a, b} : a >= y
    BY <1>2
  <2> QED BY <1>2, <2>1, <2>2, <2>3 DEF Min, Max
<1> QED BY <1>1, <1>2

\* A range resolves to the first and the last of the positions it selects, and to
\* nothing when it selects none.
LEMMA ResolveIs ==
    ASSUME NEW s, NEW n \in Nat, IsRange(s)
    PROVE  \/ Selected(s, n) = {} /\ resolve(s, n) = {}
           \/ \E a, b \in 0 .. n - 1 :
                a <= b /\ Selected(s, n) = a .. b /\ resolve(s, n) = {[start |-> a, end |-> b]}
<1> DEFINE Goal == \/ Selected(s, n) = {} /\ resolve(s, n) = {}
                   \/ \E a, b \in 0 .. n - 1 :
                        a <= b /\ Selected(s, n) = a .. b /\ resolve(s, n) = {[start |-> a, end |-> b]}
<1>1. s.first = {} \/ \E f \in Nat : s.first = {f}
  BY DEF IsRange, Single
<1>2. s.last = {} \/ \E l \in Nat : s.last = {l}
  BY DEF IsRange, Single
<1>3. CASE n = 0
  <2>1. 0 .. n - 1 = {}
    BY <1>3
  <2>2. Selected(s, n) = {}
    BY <2>1 DEF Selected
  <2>3. resolve(s, n) = {}
    <3>1. {k \in s.last : k > 0 /\ n > 0} = {} /\ {f \in s.first : f < n} = {}
      BY <1>3 DEF IsRange
    <3>2. {b \in s.first \X s.last : b[1] <= b[2] /\ b[1] < n} = {}
      BY <1>3 DEF IsRange
    <3> QED BY <3>1, <3>2 DEF resolve
  <2> QED BY <2>2, <2>3
<1>4. CASE n # 0 /\ s.first = {} /\ s.last = {}
  BY <1>4 DEF Selected, resolve
<1>5. ASSUME n # 0, s.first = {}, NEW l \in Nat, s.last = {l} PROVE Goal
  <2>1. resolve(s, n) = {[start |-> Max({0, n - k}), end |-> n - 1] : k \in {x \in s.last : x > 0 /\ n > 0}}
    BY <1>5 DEF resolve
  <2>2. Selected(s, n) = {i \in 0 .. n - 1 : i >= n - l}
    BY <1>5 DEF Selected
  <2>3. CASE l = 0
    <3>1. {x \in s.last : x > 0 /\ n > 0} = {}
      BY <1>5, <2>3
    <3>2. resolve(s, n) = {}
      BY <2>1, <3>1
    <3>3. Selected(s, n) = {}
      BY <2>2, <2>3
    <3> QED BY <3>2, <3>3
  <2>4. CASE l # 0
    <3> DEFINE a == IF n - l <= 0 THEN 0 ELSE n - l
    <3>1. Max({0, n - l}) = a
      <4>1. CASE n - l <= 0
        <5>1. ~ (0 <= n - l) \/ n - l = 0
          BY <4>1
        <5> QED BY <4>1, <5>1, PairBounds
      <4>2. CASE ~ (n - l <= 0)
        <5>1. 0 <= n - l
          BY <4>2
        <5> QED BY <4>2, <5>1, PairBounds
      <4> QED BY <4>1, <4>2
    <3>2. a \in 0 .. n - 1 /\ Selected(s, n) = a .. n - 1
      BY <1>5, <2>2, <2>4
    <3>3. resolve(s, n) = {[start |-> a, end |-> n - 1]}
      <4> HIDE DEF a
      <4>1. {x \in s.last : x > 0 /\ n > 0} = {l}
        BY <1>5, <2>4
      <4> QED BY <2>1, <3>1, <4>1
    <3>4. n - 1 \in 0 .. n - 1 /\ a <= n - 1
      BY <1>5, <3>2
    <3> HIDE DEF a
    <3> QED BY <3>2, <3>3, <3>4
  <2> QED BY <2>3, <2>4
<1>6. ASSUME n # 0, s.last = {}, NEW f \in Nat, s.first = {f} PROVE Goal
  <2>1. resolve(s, n) = {[start |-> x, end |-> n - 1] : x \in {y \in s.first : y < n}}
    BY <1>6 DEF resolve
  <2>2. Selected(s, n) = {i \in 0 .. n - 1 : f <= i}
    BY <1>6 DEF Selected
  <2>3. CASE f < n
    <3>1. {y \in s.first : y < n} = {f}
      BY <1>6, <2>3
    <3>2. resolve(s, n) = {[start |-> f, end |-> n - 1]}
      BY <2>1, <3>1
    <3>3. Selected(s, n) = f .. n - 1 /\ f \in 0 .. n - 1 /\ n - 1 \in 0 .. n - 1 /\ f <= n - 1
      BY <1>6, <2>2, <2>3
    <3> QED BY <3>2, <3>3
  <2>4. CASE ~ (f < n)
    BY <1>6, <2>1, <2>2, <2>4
  <2> QED BY <2>3, <2>4
<1>7. ASSUME n # 0, NEW f \in Nat, s.first = {f}, NEW l \in Nat, s.last = {l} PROVE Goal
  <2> DEFINE P == {b \in s.first \X s.last : b[1] <= b[2] /\ b[1] < n}
  <2>1. resolve(s, n) = {[start |-> p[1], end |-> Min({p[2], n - 1})] : p \in P}
    BY <1>7 DEF resolve
  <2>2. Selected(s, n) = {i \in 0 .. n - 1 : f <= i /\ f <= l /\ i <= l}
    BY <1>7 DEF Selected
  <2>3. CASE f <= l /\ f < n
    <3> DEFINE b == IF l <= n - 1 THEN l ELSE n - 1
    <3>1. P = {<<f, l>>}
      BY <1>7, <2>3
    <3>2. Min({l, n - 1}) = b
      BY PairBounds
    <3>3. resolve(s, n) = {[start |-> f, end |-> b]}
      <4> HIDE DEF b, P
      <4> QED BY <2>1, <3>1, <3>2
    <3>4. Selected(s, n) = f .. b /\ f \in 0 .. n - 1 /\ b \in 0 .. n - 1 /\ f <= b
      BY <1>7, <2>2, <2>3
    <3> HIDE DEF b
    <3> QED BY <3>3, <3>4
  <2>4. CASE ~ (f <= l /\ f < n)
    <3>1. P = {}
      BY <1>7, <2>4
    <3>2. resolve(s, n) = {}
      <4> HIDE DEF P
      <4> QED BY <2>1, <3>1
    <3>3. Selected(s, n) = {}
      BY <1>7, <2>2, <2>4
    <3> QED BY <3>2, <3>3
  <2> QED BY <2>3, <2>4
<1> QED BY <1>1, <1>2, <1>3, <1>4, <1>5, <1>6, <1>7

\* The positions asked for, and whether they are to be served.
Asked(r, o) == UNION {Selected(s, Len(o.body)) : s \in r.range}
\* The range of a request applies to the version.
Applies(r, o) == r.range # {} /\ \A i \in r.ifRange : permits_range(i, o)

\* The range header is absent or single, and well formed.
Ranged(r) == Single(r.range) /\ \A s \in r.range : IsRange(s)

\* A version has a length.
LEMMA LengthNat ==
    ASSUME NEW o, IsVersion(o)
    PROVE  Len(o.body) \in Nat
BY DEF IsVersion

\* A range is refused when it selects nothing.
LEMMA RefusedIs ==
    ASSUME NEW r, NEW o, IsVersion(o), Ranged(r)
    PROVE  \A s \in r.range : resolve(s, Len(o.body)) = {} <=> Selected(s, Len(o.body)) = {}
<1> SUFFICES ASSUME NEW s \in r.range
             PROVE  resolve(s, Len(o.body)) = {} <=> Selected(s, Len(o.body)) = {}
  OBVIOUS
<1>1. IsRange(s) /\ Len(o.body) \in Nat
  BY LengthNat DEF Ranged
<1>2. CASE Selected(s, Len(o.body)) = {} /\ resolve(s, Len(o.body)) = {}
  BY <1>2
<1>3. ASSUME NEW a \in 0 .. Len(o.body) - 1, NEW b \in 0 .. Len(o.body) - 1, a <= b,
             Selected(s, Len(o.body)) = a .. b,
             resolve(s, Len(o.body)) = {[start |-> a, end |-> b]}
      PROVE  resolve(s, Len(o.body)) = {} <=> Selected(s, Len(o.body)) = {}
  <2>1. a \in Int /\ b \in Int
    BY <1>1
  <2>2. a \in a .. b
    BY <1>3, <2>1
  <2> QED BY <1>3, <2>2
<1> QED BY <1>1, <1>2, <1>3, ResolveIs

\* What is chosen is the interval asked for.
LEMMA ChosenIs ==
    ASSUME NEW r, NEW o, IsVersion(o), Ranged(r),
           \A s \in r.range : resolve(s, Len(o.body)) # {}
    PROVE  \/ ~Applies(r, o) /\ Chosen(r, o) = {}
           \/ /\ Applies(r, o)
              /\ \E a, b \in 0 .. Len(o.body) - 1 :
                   a <= b /\ Asked(r, o) = a .. b /\ Chosen(r, o) = {[start |-> a, end |-> b]}
<1>1. CASE r.range = {}
  BY <1>1 DEF Applies, Chosen
<1>2. CASE r.range # {} /\ ~ \A i \in r.ifRange : permits_range(i, o)
  BY <1>2 DEF Applies, Chosen
<1>3. CASE r.range # {} /\ \A i \in r.ifRange : permits_range(i, o)
  <2>1. PICK s : r.range = {s} /\ IsRange(s)
    BY <1>3 DEF Ranged, Single
  <2>2. Asked(r, o) = Selected(s, Len(o.body))
    BY <2>1 DEF Asked
  <2>3. Chosen(r, o) = resolve(s, Len(o.body))
    <3>1. UNION {resolve(x, Len(o.body)) : x \in r.range} = resolve(s, Len(o.body))
      BY <2>1
    <3> QED BY <1>3, <3>1 DEF Chosen
  <2>4. Len(o.body) \in Nat /\ resolve(s, Len(o.body)) # {}
    BY <2>1, LengthNat
  <2>5. \E a, b \in 0 .. Len(o.body) - 1 :
          a <= b /\ Selected(s, Len(o.body)) = a .. b
          /\ resolve(s, Len(o.body)) = {[start |-> a, end |-> b]}
    BY <2>1, <2>4, ResolveIs
  <2> QED BY <1>3, <2>2, <2>3, <2>5 DEF Applies
<1> QED BY <1>1, <1>2, <1>3

\* The bytes at all positions are the body.
LEMMA WholeBytes ==
    ASSUME NEW o, IsVersion(o)
    PROVE  Bytes(o, 0 .. Len(o.body) - 1) = o.body
<1> DEFINE n == Len(o.body)
<1>1. n \in Nat /\ o.body = [k \in 1 .. n |-> o.body[k]]
  BY DEF IsVersion
<1>2. CASE n = 0
  <2>1. 0 .. n - 1 = {}
    BY <1>2
  <2>2. Cardinality({}) = 0
    BY FS_EmptySet
  <2> HIDE DEF n
  <2>3. Cardinality(0 .. n - 1) = n
    BY <1>2, <2>1, <2>2
  <2>4. 1 .. n = {}
    BY <1>2
  <2>5. Bytes(o, 0 .. n - 1) = [k \in 1 .. n |-> o.body[k]]
    BY <2>3, <2>4 DEF Bytes
  <2> QED BY <1>1, <2>5 DEF n
<1>3. CASE n # 0
  <2>1. Min(0 .. n - 1) = 0 /\ Cardinality(0 .. n - 1) = n
    <3>1. n - 1 \in Nat /\ 0 <= n - 1
      BY <1>1, <1>3
    <3> HIDE DEF n
    <3>2. Min(0 .. n - 1) = 0 /\ Cardinality(0 .. n - 1) = n - 1 - 0 + 1
      BY <3>1, IntervalBounds
    <3> QED BY <1>1, <3>2
  <2>2. \A k \in 1 .. n : 0 + k = k
    BY <1>1
  <2> HIDE DEF n
  <2>3. Bytes(o, 0 .. n - 1) = [k \in 1 .. n |-> o.body[k]]
    BY <2>1, <2>2 DEF Bytes
  <2> QED BY <1>1, <2>3 DEF n
<1> QED BY <1>2, <1>3

\* The bytes at an interval are a subsequence of the body.
LEMMA PartBytes ==
    ASSUME NEW o, IsVersion(o), NEW a \in 0 .. Len(o.body) - 1, NEW b \in 0 .. Len(o.body) - 1, a <= b
    PROVE  Bytes(o, a .. b) = SubSeq(o.body, a + 1, Min({b + 1, Len(o.body)}))
<1> DEFINE n == Len(o.body)
<1>1. n \in Nat /\ a \in Nat /\ b \in Nat /\ b + 1 <= n
  BY LengthNat
<1>2. Min({b + 1, n}) = b + 1
  <2> HIDE DEF n
  <2> QED BY <1>1, PairBounds
<1>3. Min(a .. b) = a /\ Cardinality(a .. b) = b - a + 1
  BY <1>1, IntervalBounds
<1>4. SubSeq(o.body, a + 1, b + 1) = [k \in 1 .. b - a + 1 |-> o.body[a + k]]
  <2>1. o.body \in Seq(Nat) /\ a + 1 \in 1 .. n + 1 /\ b + 1 \in (a + 1) - 1 .. n
    BY <1>1 DEF IsVersion
  <2> DEFINE t == SubSeq(o.body, a + 1, b + 1)
  <2>2. t \in Seq(Nat) /\ Len(t) = (b + 1) - (a + 1) + 1
        /\ \A i \in 1 .. (b + 1) - (a + 1) + 1 : t[i] = o.body[(a + 1) + i - 1]
    BY <2>1, SubSeqProperties
  <2> HIDE DEF t, n
  <2>3. (b + 1) - (a + 1) + 1 = b - a + 1 /\ \A i \in 1 .. b - a + 1 : (a + 1) + i - 1 = a + i
    BY <1>1
  <2>4. t = [k \in 1 .. b - a + 1 |-> t[k]]
    BY <2>2, <2>3
  <2>5. \A k \in 1 .. b - a + 1 : t[k] = o.body[a + k]
    BY <2>2, <2>3
  <2>6. t = [k \in 1 .. b - a + 1 |-> o.body[a + k]]
    BY <2>4, <2>5
  <2> QED BY <2>6 DEF t
<1>5. Bytes(o, a .. b) = [k \in 1 .. b - a + 1 |-> o.body[a + k]]
  BY <1>3 DEF Bytes
<1> QED BY <1>2, <1>4, <1>5

-----------------------------------------------------------------------------
(* The invariant.                                                          *)

\* The operations that read an object.
Reader == {"GetObject", "HeadObject"}
\* The states of a job in the middle of a call.
Active == {"open", "run", "probe", "abort", "back"}

\* The calls that a request may make.
Calls(r) ==
    {"lookup_credential"} \cup
    CASE r.op = "GetObject" -> {"head_object", "get_object", "get_range"}
      [] r.op = "HeadObject" -> {"head_object", "current_delete_marker"}
      [] r.op = "CopyObject" -> {"head_object", "copy_object"}
      [] r.op = "CompleteMultipartUpload" ->
           {"multipart_checksum_algorithm", "list_parts", "complete_multipart"}
      [] OTHER -> {"list_parts", "list_versions", "list_objects"}

\* A job has the fields of Begun and no other.
IsJob(j) ==
    j = [at |-> j.at, call |-> j.call, req |-> j.req, info |-> j.info, parts |-> j.parts,
         rows |-> j.rows, reply |-> j.reply, error |-> j.error, answer |-> j.answer]

\* A call of a tenant is made once the signature was verified, and what a handler
\* holds is empty until then.
Serving(j) ==
    /\ IsJob(j) /\ IsRequest(j.req) /\ j.req.role \in Roles
    /\ j.at \in {"answered", "head"} \cup Active
    /\ j.at \in Active => j.call \in Calls(j.req) /\ j.req.auth \notin {"both", "neither"}
    /\ j.at \in Active /\ j.call # "lookup_credential" => j.req.auth = "good"
    /\ j.at = "head" \/ (j.at \in Active /\ j.call = "lookup_credential") => j.info = {}
    /\ j.at \in {"head", "open", "run", "probe"} => j.error = "none"
    /\ j.at = "abort" => j.error # "none"
    /\ j.at = "probe" => j.call \in {"list_objects", "list_versions"}

\* The session is in a transaction exactly while a statement runs or is aborted.
Attended ==
    /\ session \in [open : BOOLEAN, timer : BOOLEAN, role : Roles]
    /\ session.open <=> job.at \in {"run", "probe", "abort"}
    /\ ~session.open => session = Idle
    /\ job.at \in {"run", "probe"} =>
         /\ session.timer
         /\ session.role = IF job.call = "lookup_credential" THEN server ELSE job.req.role

\* Versions are never changed and their ids never used again.
Every(P) == UNION {p.store : p \in P}
\* What the store and the history keep.
Kept ==
    /\ nextId \in Nat /\ IsFiniteSet(store) /\ writes \in 0 .. MaxWrites
    /\ [store |-> store, upload |-> upload] \in past
    /\ \A p \in past : IsUpload(p.upload) /\ p.upload.algorithm = upload.algorithm
    /\ \A o \in Every(past) : IsVersion(o) /\ o.id < nextId
    /\ \A o, v \in Every(past) : o.id = v.id => o = v
    /\ \A w \in shared : w.body \in Seq(Nat)

\* What a request may have read since it began.
Seen(r, P) == UNION {head(p.store, r.key, r.version) : p \in P}

\* Nothing was there to read, or it was gone before its body was read.
Absent(r, e, P) ==
    \/ e \in {"NoSuchKey", "NoSuchVersion"} /\ \E p \in P : head(p.store, r.key, r.version) = {}
    \/ e = "NoSuchVersion" /\ \E o \in Seen(r, P), p \in P : o \notin p.store

\* The version is served as a whole, or in part.
Whole(r, o) == Unchanged(r.cond, o) /\ Fresh(r.cond, o) /\ ~Applies(r, o)
\* Partial: the range selects some bytes, and they are those chosen.
Partial(r, o) ==
    /\ Unchanged(r.cond, o) /\ Fresh(r.cond, o) /\ Applies(r, o)
    /\ \E a, b \in 0 .. Len(o.body) - 1 :
         a <= b /\ Asked(r, o) = a .. b /\ Chosen(r, o) = {[start |-> a, end |-> b]}

\* A call is about to be made or running.
Pending(j, call) == j.at \in {"open", "run"} /\ j.call = call
\* A call has come back with a result.
Done(j, call) == j.at = "back" /\ j.call = call /\ j.error = "none"

\* What the property says of an answer.
Consistent(j, P) ==
    LET a == j.answer
        r == j.req
    IN  CASE a.status \in {200, 206, 304} -> \E o \in Seen(r, P) : Justified(a, r, o)
          [] a.status = 412 -> \E o \in Seen(r, P) : ~Unchanged(r.cond, o)
          [] a.status = 416 ->
               \E o \in Seen(r, P) : /\ Unchanged(r.cond, o) /\ Fresh(r.cond, o)
                                     /\ \E s \in r.range : Selected(s, Len(o.body)) = {}
          [] a.status = 404 ->
               /\ Absent(r, a.code, P)
               /\ \A v \in a.marker : \E p \in P : \E o \in Latest(p.store, r.key) :
                     o.marker /\ o.id = v
          [] OTHER -> TRUE

\* What the handler of a GET or HEAD holds is of one version.
Reading(j, P) ==
    LET r == j.req IN r.op \in Reader =>
      /\ Done(j, "head_object") => \E o \in Seen(r, P) : j.info = {o}
      /\ Pending(j, "get_object") =>
           \/ j.info = {} /\ unconditional_get_fast_path(r)
           \/ \E o \in Seen(r, P) : j.info = {o} /\ Whole(r, o)
      /\ Done(j, "get_object") =>
           \E o \in Seen(r, P) : j.info = {o} /\ Whole(r, o) /\ j.reply = o.body
      /\ Pending(j, "get_range") => \E o \in Seen(r, P) : j.info = {o} /\ Partial(r, o)
      /\ Done(j, "get_range") =>
           \E o \in Seen(r, P) : j.info = {o} /\ Partial(r, o) /\ j.reply = Bytes(o, Asked(r, o))
      /\ j.at \in Active /\ j.call = "current_delete_marker" => Absent(r, "NoSuchKey", P)
      /\ Done(j, "current_delete_marker") =>
           \A o \in j.info : o.marker /\ \E p \in P : o \in Latest(p.store, r.key)
      /\ j.at \in {"abort", "back"} /\ j.error # "none" =>
           j.error \in {"SlowDown", "InternalError"} \/ Absent(r, j.error, P)
      /\ j.at = "answered" /\ j.answer.status # 0 => Consistent(j, P)

\* A copy made of a version that met the conditions.
Permitted(r, o) ==
    /\ Unchanged(r.cond, o)
    /\ \A m \in r.cond.none : ~m.any /\ \A t \in m.tags : t.opaque # o.body
\* A version is the copy of one that was seen and permitted.
CopyMade(r, made, P) ==
    made.key = r.to /\ \E o \in Seen(r, P) : o.body = made.body /\ Permitted(r, o)

\* What the handler of CopyObject holds, and what its answer says.
Copying(j, P) ==
    LET r == j.req IN r.op = "CopyObject" =>
      /\ Done(j, "head_object") => \E o \in Seen(r, P) : j.info = {o}
      /\ Pending(j, "copy_object") =>
           \/ j.info = {} /\ r.cond = NoCondition
           \/ \E o \in Seen(r, P) : j.info = {o} /\ Permitted(r, o)
      /\ Done(j, "copy_object") =>
           \E made \in Every(P) : j.info = {made} /\ CopyMade(r, made, P)
      /\ j.at = "answered" /\ j.answer.status = 200 =>
           \E made \in Every(P) : made.id = j.answer.version /\ CopyMade(r, made, P)

\* The parts listed are those that the client has vouched for.
Vouched(r, parts, algorithm) ==
    algorithm = "SHA256" =>
      /\ \A i \in DOMAIN r.parts : r.parts[i].sha = Digests(r, parts)[i]
      /\ r.composite = {Digests(r, parts)}

\* A version made of the parts named.
Assembled(r, made, composite, P, algorithm) ==
    LET etags == [i \in DOMAIN r.parts |-> {r.parts[i].etag}]
    IN  /\ made.body = FlattenSeq([i \in DOMAIN r.parts |-> r.parts[i].etag])
        /\ \E p \in P : p.upload.live /\ \A i \in DOMAIN r.parts :
             [n |-> r.parts[i].n, body |-> r.parts[i].etag] \in p.upload.parts
        /\ algorithm = "SHA256" =>
             /\ \A i \in DOMAIN r.parts : r.parts[i].sha = {r.parts[i].etag}
             /\ composite = etags /\ r.composite = {composite}

\* What the handler of a completion holds, and what its answer says.
Completing(j, P, algorithm) ==
    LET r == j.req IN r.op = "CompleteMultipartUpload" =>
      /\ Done(j, "multipart_checksum_algorithm") => j.reply = <<algorithm>>
      /\ Pending(j, "complete_multipart") => Vouched(r, j.parts, algorithm)
      /\ Done(j, "complete_multipart") =>
           \E made \in Every(P) :
             j.info = {made} /\ Assembled(r, made, Digests(r, j.parts), P, algorithm)
      /\ j.at = "answered" /\ j.answer.status = 200 =>
           \E made \in Every(P) :
             made.id = j.answer.version /\ Assembled(r, made, j.answer.composite, P, algorithm)

\* What a job holds, whatever its operation is.
Progress(j, P, algorithm) == Reading(j, P) /\ Copying(j, P) /\ Completing(j, P, algorithm)

\* The inductive invariant.
Inv ==
    /\ Kept /\ Serving(job) /\ Attended
    /\ todo \in Seq(Requests)
    /\ Progress(job, past, upload.algorithm)

-----------------------------------------------------------------------------
(* What is read stays read.                                                *)

\* What was seen, absent, copied or assembled stays so in a longer history.
LEMMA SeenGrows ==
    ASSUME NEW r, NEW P, NEW Q, P \subseteq Q
    PROVE  /\ Seen(r, P) \subseteq Seen(r, Q) /\ Every(P) \subseteq Every(Q)
           /\ \A e : Absent(r, e, P) => Absent(r, e, Q)
           /\ \A m : CopyMade(r, m, P) => CopyMade(r, m, Q)
           /\ \A m, c, a : Assembled(r, m, c, P, a) => Assembled(r, m, c, Q, a)
<1>1. Seen(r, P) \subseteq Seen(r, Q) /\ Every(P) \subseteq Every(Q)
  BY DEF Seen, Every
<1>2. \A e : Absent(r, e, P) => Absent(r, e, Q)
  BY <1>1 DEF Absent
<1>3. \A m : CopyMade(r, m, P) => CopyMade(r, m, Q)
  BY <1>1 DEF CopyMade
<1>4. \A m, c, a : Assembled(r, m, c, P, a) => Assembled(r, m, c, Q, a)
  BY DEF Assembled
<1> QED BY <1>1, <1>2, <1>3, <1>4

\* A consistent answer stays consistent in a longer history.
LEMMA ConsistentGrows ==
    ASSUME NEW j, NEW P, NEW Q, P \subseteq Q, Consistent(j, P)
    PROVE  Consistent(j, Q)
<1> DEFINE a == j.answer
           r == j.req
<1>1. Seen(r, P) \subseteq Seen(r, Q) /\ \A e : Absent(r, e, P) => Absent(r, e, Q)
  BY SeenGrows
<1>2. CASE a.status \in {200, 206, 304}
  <2>1. \E o \in Seen(r, P) : Justified(a, r, o)
    BY <1>2 DEF Consistent
  <2> QED BY <1>1, <1>2, <2>1 DEF Consistent
<1>3. CASE a.status = 412
  <2>1. \E o \in Seen(r, P) : ~Unchanged(r.cond, o)
    BY <1>3 DEF Consistent
  <2> QED BY <1>1, <1>3, <2>1 DEF Consistent
<1>4. CASE a.status = 416
  <2>1. \E o \in Seen(r, P) : /\ Unchanged(r.cond, o) /\ Fresh(r.cond, o)
                              /\ \E s \in r.range : Selected(s, Len(o.body)) = {}
    BY <1>4 DEF Consistent
  <2> QED BY <1>1, <1>4, <2>1 DEF Consistent
<1>5. CASE a.status = 404
  <2>1. /\ Absent(r, a.code, P)
        /\ \A v \in a.marker : \E p \in P : \E o \in Latest(p.store, r.key) :
              o.marker /\ o.id = v
    BY <1>5 DEF Consistent
  <2>2. /\ Absent(r, a.code, Q)
        /\ \A v \in a.marker : \E p \in Q : \E o \in Latest(p.store, r.key) :
              o.marker /\ o.id = v
    BY <1>1, <2>1
  <2> QED BY <1>5, <2>2 DEF Consistent
<1>6. CASE a.status \notin {200, 206, 304, 412, 416, 404}
  BY <1>6 DEF Consistent
<1> QED BY <1>2, <1>3, <1>4, <1>5, <1>6

\* A request makes progress while others write.
LEMMA ProgressGrows ==
    ASSUME NEW j, NEW P, NEW Q, P \subseteq Q, NEW a, Progress(j, P, a)
    PROVE  Progress(j, Q, a)
<1> DEFINE r == j.req
<1>1. /\ Seen(r, P) \subseteq Seen(r, Q) /\ Every(P) \subseteq Every(Q)
      /\ \A e : Absent(r, e, P) => Absent(r, e, Q)
      /\ \A m : CopyMade(r, m, P) => CopyMade(r, m, Q)
      /\ \A m, c, x : Assembled(r, m, c, P, x) => Assembled(r, m, c, Q, x)
  BY SeenGrows
<1>2. Consistent(j, P) => Consistent(j, Q)
  BY ConsistentGrows
<1>3. Reading(j, Q)
  <2>1. Reading(j, P)
    BY DEF Progress
  <2> QED BY <1>1, <1>2, <2>1 DEF Reading
<1>4. Copying(j, Q)
  BY <1>1 DEF Copying, Progress
<1>5. Completing(j, Q, a)
  BY <1>1 DEF Completing, Progress
<1> QED BY <1>3, <1>4, <1>5 DEF Progress

\* Every version seen is one of those kept, with the key asked for.
LEMMA SeenKept ==
    ASSUME Kept, NEW r, NEW o \in Seen(r, past)
    PROVE  o \in Every(past) /\ IsVersion(o) /\ o.key = r.key /\ ~o.marker /\ o.id < nextId
<1>1. o \in Every(past) /\ o.key = r.key /\ ~o.marker
  BY DEF Seen, Every, head, Latest
<1> QED BY <1>1 DEF Kept

\* The versions of the store are among those kept.
LEMMA StoreKept ==
    ASSUME Kept
    PROVE  /\ store \subseteq Every(past)
           /\ \A o \in store : IsVersion(o) /\ o.id < nextId
           /\ \A o, v \in store : o.id = v.id => o = v
<1>1. store \subseteq Every(past)
  BY DEF Kept, Every
<1> QED BY <1>1 DEF Kept

\* A read finds one version or none, which the request has then seen.
LEMMA HeadFinds ==
    ASSUME Kept, NEW r, Single(r.version)
    PROVE  /\ head(store, r.key, r.version) \subseteq Seen(r, past)
           /\ head(store, r.key, r.version) = {}
              \/ \E o \in Seen(r, past) : head(store, r.key, r.version) = {o}
<1>1. head(store, r.key, r.version) \subseteq Seen(r, past)
  BY DEF Kept, Seen
<1>2. ASSUME NEW o \in head(store, r.key, r.version), NEW v \in head(store, r.key, r.version)
      PROVE  o = v
  <2>1. o \in store /\ v \in store
    BY DEF head, Latest
  <2>2. o.id \in Nat /\ v.id \in Nat
    BY <2>1, StoreKept DEF IsVersion
  <2>3. o.id = v.id
    <3>1. CASE r.version = {}
      <4>1. o.id <= v.id /\ v.id <= o.id
        BY <3>1 DEF head, Latest
      <4> QED BY <2>2, <4>1
    <3>2. CASE r.version # {}
      BY <3>2 DEF head, Single
    <3> QED BY <3>1, <3>2
  <2> QED BY <2>1, <2>3, StoreKept
<1> QED BY <1>1, <1>2

\* A version read again by its id is the one that was seen, or it is gone.
LEMMA HeadAgain ==
    ASSUME Kept, NEW r, NEW o \in Seen(r, past)
    PROVE  \/ head(store, r.key, {o.id}) = {} /\ o \notin store
           \/ head(store, r.key, {o.id}) = {o}
<1>1. o \in Every(past) /\ o.key = r.key /\ ~o.marker
  BY SeenKept
<1>2. \A v \in store : v.id = o.id => v = o
  BY <1>1, StoreKept DEF Kept
<1>3. head(store, r.key, {o.id}) = {v \in store : v.key = r.key /\ v.id = o.id /\ ~v.marker}
  BY DEF head
<1>4. CASE o \in store
  BY <1>1, <1>2, <1>3, <1>4
<1>5. CASE o \notin store
  BY <1>2, <1>3, <1>5
<1> QED BY <1>4, <1>5

-----------------------------------------------------------------------------
(* Steps of the handler.                                                   *)

\* The job after an answer and after the start of a call.
LEMMA AnswerIs ==
    ASSUME NEW a, IsJob(job), Answer(a)
    PROVE  /\ IsJob(job') /\ job'.at = "answered" /\ job'.call = "none" /\ job'.answer = a
           /\ job'.req = job.req
BY DEF IsJob, Answer

\* A job whose next call is chosen.
LEMMA CallIs ==
    ASSUME NEW call, IsJob(job), Call(call)
    PROVE  /\ IsJob(job') /\ job'.at = "open" /\ job'.call = call /\ job'.req = job.req
           /\ job'.info = job.info /\ job'.parts = job.parts /\ job'.reply = job.reply
           /\ job'.error = job.error
BY DEF IsJob, Call

\* A step of the handler leaves everything else alone.
LEMMA HandlerStep ==
    ASSUME Inv, Handler, Serving(job'), job.at \notin {"run", "probe", "abort"},
           job'.at \notin {"run", "probe", "abort"}, Progress(job', past, upload.algorithm)
    PROVE  Inv'
<1>1. Kept'
  BY DEF Inv, Kept, Handler, Every
<1>2. Attended'
  BY DEF Inv, Attended, Handler
<1>3. past' = past /\ upload' = upload /\ todo' = todo
  BY DEF Handler
<1>4. Progress(job, past, upload.algorithm)'
  BY <1>3
<1> QED BY <1>1, <1>2, <1>3, <1>4 DEF Inv

\* An answer is to be justified.
LEMMA AnswerServes ==
    ASSUME Inv, NEW a, Answer(a),
           job.req.op \in Reader /\ a.status # 0 => Consistent(job', past),
           job.req.op = "CopyObject" /\ a.status = 200 =>
              \E made \in Every(past) : made.id = a.version /\ CopyMade(job.req, made, past),
           job.req.op = "CompleteMultipartUpload" /\ a.status = 200 =>
              \E made \in Every(past) :
                 made.id = a.version
                 /\ Assembled(job.req, made, a.composite, past, upload.algorithm)
    PROVE  Serving(job') /\ Progress(job', past, upload.algorithm) /\ job'.at = "answered"
<1>1. /\ IsJob(job') /\ job'.at = "answered" /\ job'.call = "none" /\ job'.answer = a
      /\ job'.req = job.req
  BY AnswerIs DEF Inv, Serving
<1>2. Serving(job')
  BY <1>1 DEF Inv, Serving, Active
<1>3. Reading(job', past)
  BY <1>1 DEF Reading, Done, Pending, Active
<1>4. Copying(job', past)
  BY <1>1 DEF Copying, Done, Pending
<1>5. Completing(job', past, upload.algorithm)
  BY <1>1 DEF Completing, Done, Pending
<1> QED BY <1>1, <1>2, <1>3, <1>4, <1>5 DEF Progress

\* A status of a failure is no success, and the codes are told apart.
LEMMA StatusIs ==
    ASSUME NEW code
    PROVE  /\ Status(code) \in {400, 403, 404, 412, 416, 500, 501, 503}
           /\ Status(code) = 404 => code \in {"NoSuchKey", "NoSuchVersion", "NoSuchUpload"}
           /\ Status(code) = 412 <=> code = "PreconditionFailed"
           /\ Status(code) = 416 <=> code = "InvalidRange"
           /\ code = "SlowDown" => Status(code) = 503
           /\ code = "InternalError" => Status(code) = 500
           /\ code \in {"NoSuchKey", "NoSuchVersion"} => Status(code) = 404
BY DEF Status

\* A failure is to be justified when it says what was read.
LEMMA FailServes ==
    ASSUME Inv, NEW code, Fail(code),
           job.req.op \in Reader /\ Status(code) = 412 =>
              \E o \in Seen(job.req, past) : ~Unchanged(job.req.cond, o),
           job.req.op \in Reader /\ Status(code) = 416 =>
              \E o \in Seen(job.req, past) :
                 /\ Unchanged(job.req.cond, o) /\ Fresh(job.req.cond, o)
                 /\ \E s \in job.req.range : Selected(s, Len(o.body)) = {},
           job.req.op \in Reader /\ Status(code) = 404 => Absent(job.req, code, past)
    PROVE  Serving(job') /\ Progress(job', past, upload.algorithm) /\ job'.at = "answered"
<1> DEFINE a == [status |-> Status(code), code |-> code, marker |-> {}]
<1>1. Answer(a)
  BY DEF Fail
<1>2. job'.answer = a /\ job'.req = job.req
  BY <1>1, AnswerIs DEF Inv, Serving
<1>3. a.status = Status(code) /\ a.code = code /\ a.marker = {}
  OBVIOUS
<1>4. Status(code) \in {400, 403, 404, 412, 416, 500, 501, 503}
  BY StatusIs
<1> HIDE DEF a
<1>5. job.req.op \in Reader => Consistent(job', past)
  <2> SUFFICES ASSUME job.req.op \in Reader PROVE Consistent(job', past)
    OBVIOUS
  <2>1. CASE Status(code) = 412
    BY <1>2, <1>3, <2>1 DEF Consistent
  <2>2. CASE Status(code) = 416
    BY <1>2, <1>3, <2>2 DEF Consistent
  <2>3. CASE Status(code) = 404
    BY <1>2, <1>3, <2>3 DEF Consistent
  <2>4. CASE Status(code) \in {400, 403, 500, 501, 503}
    BY <1>2, <1>3, <2>4 DEF Consistent
  <2> QED BY <1>4, <2>1, <2>2, <2>3, <2>4
<1>6. a.status # 200
  BY <1>3, <1>4
<1> QED BY <1>1, <1>5, <1>6, AnswerServes

\* A call is made on what the handler has found out.
LEMMA CallServes ==
    ASSUME Inv, NEW call, Call(call), job.error = "none",
           call \in Calls(job.req), job.req.auth \notin {"both", "neither"},
           call = "lookup_credential" => job.info = {},
           call # "lookup_credential" => job.req.auth = "good",
           job.req.op \in Reader /\ call = "get_object" =>
              \/ job.info = {} /\ unconditional_get_fast_path(job.req)
              \/ \E o \in Seen(job.req, past) : job.info = {o} /\ Whole(job.req, o),
           job.req.op \in Reader /\ call = "get_range" =>
              \E o \in Seen(job.req, past) : job.info = {o} /\ Partial(job.req, o),
           job.req.op \in Reader /\ call = "current_delete_marker" =>
              Absent(job.req, "NoSuchKey", past),
           job.req.op = "CopyObject" /\ call = "copy_object" =>
              \/ job.info = {} /\ job.req.cond = NoCondition
              \/ \E o \in Seen(job.req, past) : job.info = {o} /\ Permitted(job.req, o),
           job.req.op = "CompleteMultipartUpload" /\ call = "complete_multipart" =>
              Vouched(job.req, job.parts, upload.algorithm)
    PROVE  Serving(job') /\ Progress(job', past, upload.algorithm) /\ job'.at = "open"
<1>1. /\ IsJob(job') /\ job'.at = "open" /\ job'.call = call /\ job'.req = job.req
      /\ job'.info = job.info /\ job'.parts = job.parts /\ job'.reply = job.reply
      /\ job'.error = "none"
  BY CallIs DEF Inv, Serving
<1>2. Serving(job')
  BY <1>1 DEF Inv, Serving, Active
<1>3. Reading(job', past)
  BY <1>1 DEF Reading, Done, Pending, Active
<1>4. Copying(job', past)
  BY <1>1 DEF Copying, Done, Pending
<1>5. Completing(job', past, upload.algorithm)
  BY <1>1 DEF Completing, Done, Pending
<1> QED BY <1>1, <1>2, <1>3, <1>4, <1>5 DEF Progress

\* A job begins with nothing.
LEMMA BegunIs ==
    ASSUME NEW r, NEW rows
    PROVE  /\ IsJob(Begun(r, rows)) /\ Begun(r, rows).at = "head" /\ Begun(r, rows).req = r
           /\ Begun(r, rows).info = {} /\ Begun(r, rows).error = "none"
BY DEF Begun, IsJob

\* A new request, or the next page of one, has nothing to account for.
LEMMA BeginStep ==
    ASSUME Inv, NEW r, NEW rows, IsRequest(r), r.role \in Roles, job.at = "answered", job' = Begun(r, rows),
           todo' \in Seq(Requests), past' = past \/ past' = {[store |-> store, upload |-> upload]},
           UNCHANGED <<store, nextId, upload, shared, writes, session>>
    PROVE  Inv'
<1>1. /\ IsJob(job') /\ job'.at = "head" /\ job'.req = r
      /\ job'.info = {} /\ job'.error = "none"
  BY BegunIs
<1>2. Serving(job')
  BY <1>1 DEF Serving, Active
<1>3. Attended'
  BY <1>1 DEF Inv, Attended
<1>4. past' \subseteq past /\ [store |-> store, upload |-> upload] \in past'
  BY DEF Inv, Kept
<1>5. Every(past') \subseteq Every(past)
  BY <1>4 DEF Every
<1>6. Kept'
  BY <1>4, <1>5 DEF Inv, Kept
<1>7. Progress(job', past', upload'.algorithm)
  BY <1>1 DEF Progress, Reading, Copying, Completing, Done, Pending, Active
<1> QED BY <1>2, <1>3, <1>6, <1>7 DEF Inv

\* The next request begins, with a history of its own.
LEMMA HandleHeadStep ==
    ASSUME Inv, handle_head
    PROVE  Inv'
<1>1. Head(todo) \in Requests /\ Tail(todo) \in Seq(Requests)
  BY HeadTailProperties DEF Inv, handle_head
<1>2. IsRequest(Head(todo)) /\ Head(todo).role \in Roles
  BY <1>1, ReadsAssumption DEF Roles
<1> QED BY <1>1, <1>2, BeginStep DEF handle_head

\* A follow-up page is a request with the cursor of the last one.
LEMMA NextPageStep ==
    ASSUME Inv, next_page
    PROVE  Inv'
<1> DEFINE r == job.req
           last == job.answer.next
           q == CASE r.op = "ListObjectsV1" -> list_objects_v1(r, last)
                  [] r.op = "ListObjectsV2" -> list_objects_v2(r, last)
                  [] r.op = "ListParts" -> parts_after(r, last)
                  [] OTHER -> versions_after(r, last)
<1>1. IsRequest(r) /\ IsListing(r)
  BY DEF Inv, Serving, next_page, MorePages
<1>2. DOMAIN q = DOMAIN r /\ q.op = r.op /\ q.role = r.role /\ q.auth = r.auth
  <2>1. {"op", "role", "auth"} \subseteq DOMAIN r
    BY <1>1 DEF IsRequest
  <2>2. /\ DOMAIN list_objects_v1(r, last) = DOMAIN r /\ list_objects_v1(r, last).op = r.op
        /\ list_objects_v1(r, last).role = r.role /\ list_objects_v1(r, last).auth = r.auth
    BY <2>1 DEF list_objects_v1
  <2>3. /\ DOMAIN list_objects_v2(r, last) = DOMAIN r /\ list_objects_v2(r, last).op = r.op
        /\ list_objects_v2(r, last).role = r.role /\ list_objects_v2(r, last).auth = r.auth
    BY <2>1 DEF list_objects_v2
  <2>4. /\ DOMAIN parts_after(r, last) = DOMAIN r /\ parts_after(r, last).op = r.op
        /\ parts_after(r, last).role = r.role /\ parts_after(r, last).auth = r.auth
    BY <2>1 DEF parts_after
  <2>5. /\ DOMAIN versions_after(r, last) = DOMAIN r /\ versions_after(r, last).op = r.op
        /\ versions_after(r, last).role = r.role /\ versions_after(r, last).auth = r.auth
    BY <2>1 DEF versions_after
  <2> QED BY <2>2, <2>3, <2>4, <2>5
<1>3. IsRequest(q) /\ q.role \in Roles
  <2> HIDE DEF q
  <2>1. r.role \in Roles
    BY DEF Inv, Serving
  <2> QED BY <1>1, <1>2, <2>1 DEF IsRequest, IsListing
<1>4. job' = Begun(q, job.rows)
  BY DEF next_page
<1> HIDE DEF q
<1>5. todo' \in Seq(Requests) /\ past' = past
  BY DEF Inv, next_page
<1> QED BY <1>3, <1>4, <1>5, BeginStep DEF next_page

\* Both or neither form of authentication is refused before any call.
LEMMA AuthorizeShapeStep ==
    ASSUME Inv, authorize_shape
    PROVE  Inv'
<1>1. job.at = "head" /\ Handler /\ job.info = {} /\ job.error = "none"
  BY DEF Inv, Serving, authorize_shape
<1>2. ASSUME NEW code \in {"InvalidRequest", "AccessDenied"}, Fail(code) PROVE Inv'
  <2>1. Status(code) \notin {404, 412, 416}
    BY <1>2 DEF Status
  <2>2. Serving(job') /\ Progress(job', past, upload.algorithm) /\ job'.at = "answered"
    BY <1>2, <2>1, FailServes
  <2> QED BY <1>1, <2>2, HandlerStep
<1>3. ASSUME Call("lookup_credential"), job.req.auth \notin {"both", "neither"} PROVE Inv'
  <2>1. "lookup_credential" \in Calls(job.req)
    BY DEF Calls
  <2>2. Serving(job') /\ Progress(job', past, upload.algorithm) /\ job'.at = "open"
    BY <1>1, <1>3, <2>1, CallServes
  <2> QED BY <1>1, <2>2, HandlerStep
<1>4. \/ Fail("InvalidRequest") \/ Fail("AccessDenied")
      \/ Call("lookup_credential") /\ job.req.auth \notin {"both", "neither"}
  BY DEF authorize_shape
<1> QED BY <1>2, <1>3, <1>4

\* The first call of an operation.
LEMMA DispatchIs ==
    ASSUME NEW r
    PROVE  /\ dispatch(r) \in Calls(r) \ {"lookup_credential", "complete_multipart", "get_range",
                                          "current_delete_marker"}
           /\ dispatch(r) = "get_object" => unconditional_get_fast_path(r)
           /\ dispatch(r) = "copy_object" => r.cond = NoCondition
<1>1. CASE r.op \in Reader
  BY <1>1 DEF dispatch, Calls, Reader, unconditional_get_fast_path
<1>2. CASE r.op = "CopyObject"
  BY <1>2 DEF dispatch, Calls, has_copy_source_conditions
<1>3. CASE r.op = "CompleteMultipartUpload"
  BY <1>3 DEF dispatch, Calls
<1>4. CASE r.op \notin Reader \cup {"CopyObject", "CompleteMultipartUpload"}
  BY <1>4 DEF dispatch, Calls, Reader
<1> QED BY <1>1, <1>2, <1>3, <1>4

\* Nothing but a verified signature leads to a call of the tenant.
LEMMA AuthorizeStep ==
    ASSUME Inv, authorize
    PROVE  Inv'
<1>1. job.at = "back" /\ job.call = "lookup_credential" /\ job.error = "none" /\ Handler /\ job.info = {}
  BY DEF Inv, Serving, authorize, Returned, Active
<1>2. ASSUME NEW code \in {"InvalidAccessKeyId", "SignatureDoesNotMatch", "InvalidToken",
                           "InvalidRequest", "MalformedXML"}, Fail(code)
      PROVE  Inv'
  <2>1. Status(code) \notin {404, 412, 416}
    BY <1>2 DEF Status
  <2>2. Serving(job') /\ Progress(job', past, upload.algorithm) /\ job'.at = "answered"
    BY <1>2, <2>1, FailServes
  <2> QED BY <1>1, <2>2, HandlerStep
<1>3. ASSUME Call(dispatch(job.req)), job.req.auth = "good" PROVE Inv'
  <2>1. Serving(job') /\ Progress(job', past, upload.algorithm) /\ job'.at = "open"
    BY <1>1, <1>3, DispatchIs, CallServes
  <2> QED BY <1>1, <2>1, HandlerStep
<1> DEFINE r == job.req
           denied ==
             CASE r.auth = "unknown" -> {"InvalidAccessKeyId"}
               [] r.auth = "forged" -> {"SignatureDoesNotMatch"}
               [] r.auth = "session" -> {"InvalidToken"}
               [] OTHER -> {}
           malformed ==
             CASE r.op = "CopyObject" /\ ~validate_copy_destination(r) -> {"InvalidRequest"}
               [] r.op = "CompleteMultipartUpload" /\ ~parse_complete_multipart(r) ->
                    {"MalformedXML"}
               [] OTHER -> {}
<1>4. \/ denied # {} /\ \E code \in denied : Fail(code)
      \/ denied = {} /\ malformed # {} /\ \E code \in malformed : Fail(code)
      \/ denied = {} /\ malformed = {} /\ Call(dispatch(r))
  BY DEF authorize
<1>5. denied \subseteq {"InvalidAccessKeyId", "SignatureDoesNotMatch", "InvalidToken"}
      /\ malformed \subseteq {"InvalidRequest", "MalformedXML"}
  OBVIOUS
<1>6. denied = {} => r.auth = "good"
  BY <1>1 DEF Inv, Serving, IsRequest, Active
<1> HIDE DEF denied, malformed
<1> QED BY <1>2, <1>3, <1>4, <1>5, <1>6

\* The headers of an answer are justified by the version they are made of.
LEMMA NotModifiedJustified ==
    ASSUME NEW o, Unchanged(job.req.cond, o), ~Fresh(job.req.cond, o)
    PROVE  Justified(object_headers(304, o, <<>>, {}), job.req, o)
BY DEF Justified, object_headers

\* An answer 200 with the whole version is justified by it.
LEMMA WholeJustified ==
    ASSUME NEW o, IsVersion(o), Whole(job.req, o), NEW body,
           body = IF job.req.op = "HeadObject" THEN <<>> ELSE o.body
    PROVE  Justified(object_headers(200, o, body, {}), job.req, o)
<1>1. Bytes(o, 0 .. Len(o.body) - 1) = o.body
  BY WholeBytes
<1> DEFINE a == object_headers(200, o, body, {})
<1>2. /\ a.status = 200 /\ a.version = o.id /\ a.etag = o.body /\ a.body = body
      /\ a.checksum = IF job.req.checksumMode /\ a.status = 200 THEN {o.body} ELSE {}
  BY DEF object_headers
<1> HIDE DEF a
<1>3. Justified(a, job.req, o)
  BY <1>1, <1>2 DEF Justified, Whole, Applies
<1> QED BY <1>3 DEF a

\* An answer 206 with the bytes chosen is justified by the version.
LEMMA PartJustified ==
    ASSUME NEW o, IsVersion(o), Partial(job.req, o), NEW body,
           body = IF job.req.op = "HeadObject" THEN <<>> ELSE Bytes(o, Asked(job.req, o))
    PROVE  Justified(object_headers(206, o, body, Chosen(job.req, o)), job.req, o)
<1> DEFINE a == object_headers(206, o, body, Chosen(job.req, o))
           r == job.req
<1>1. /\ a.status = 206 /\ a.version = o.id /\ a.etag = o.body /\ a.body = body
      /\ a.range = Chosen(r, o)
      /\ a.checksum = IF r.checksumMode /\ a.status = 200 THEN {o.body} ELSE {}
  BY DEF object_headers
<1>2. PICK x, y \in 0 .. Len(o.body) - 1 :
        x <= y /\ Asked(r, o) = x .. y /\ Chosen(r, o) = {[start |-> x, end |-> y]}
  BY DEF Partial
<1>3. Min(Asked(r, o)) = x /\ Max(Asked(r, o)) = y /\ Asked(r, o) # {}
  <2>1. x \in Nat /\ y \in Nat
    BY LengthNat
  <2>2. x \in x .. y
    BY <1>2, <2>1
  <2> QED BY <1>2, <2>1, <2>2, IntervalBounds
<1>4. /\ a.range = {[start |-> Min(Asked(r, o)), end |-> Max(Asked(r, o))]}
      /\ a.body = IF r.op = "HeadObject" THEN <<>> ELSE Bytes(o, Asked(r, o))
  BY <1>1, <1>2, <1>3
<1> HIDE DEF a
<1>5. /\ Unchanged(r.cond, o) /\ Fresh(r.cond, o)
      /\ Applies(r, o)
  BY DEF Partial
<1>6. Justified(a, r, o) <=>
        LET bytes(positions) == IF r.op = "HeadObject" THEN <<>> ELSE Bytes(o, positions)
        IN  /\ a.version = o.id /\ a.etag = o.body
            /\ a.checksum = IF r.checksumMode /\ a.status = 200 THEN {o.body} ELSE {}
            /\ CASE a.status = 304 -> Unchanged(r.cond, o) /\ ~Fresh(r.cond, o) /\ a.body = <<>>
                 [] a.status = 206 ->
                      /\ Unchanged(r.cond, o) /\ Fresh(r.cond, o) /\ Applies(r, o) /\ Asked(r, o) # {}
                      /\ a.range = {[start |-> Min(Asked(r, o)), end |-> Max(Asked(r, o))]}
                      /\ a.body = bytes(Asked(r, o))
                 [] OTHER ->
                      /\ Unchanged(r.cond, o) /\ Fresh(r.cond, o) /\ ~Applies(r, o)
                      /\ a.body = bytes(0 .. Len(o.body) - 1)
  BY DEF Justified, Asked, Applies
<1>7. Justified(a, r, o)
  BY <1>1, <1>3, <1>4, <1>5, <1>6
<1> QED BY <1>7 DEF a

\* An answer with headers is consistent when it is justified.
LEMMA HeadersServe ==
    ASSUME Inv, NEW status \in {200, 206, 304}, NEW o \in Seen(job.req, past), NEW body, NEW range,
           job.req.op \in Reader, Handler, job.at \notin {"run", "probe", "abort"},
           Answer(object_headers(status, o, body, range)),
           Justified(object_headers(status, o, body, range), job.req, o)
    PROVE  Inv'
<1> DEFINE a == object_headers(status, o, body, range)
<1>1. a.status = status
  BY DEF object_headers
<1> HIDE DEF a
<1>2. Answer(a) /\ Justified(a, job.req, o)
  BY DEF a
<1>3. job'.answer = a /\ job'.req = job.req
  BY <1>2, AnswerIs DEF Inv, Serving
<1>4. Consistent(job', past)
  BY <1>1, <1>2, <1>3 DEF Consistent
<1>5. job.req.op # "CopyObject" /\ job.req.op # "CompleteMultipartUpload"
  BY DEF Reader
<1>6. Serving(job') /\ Progress(job', past, upload.algorithm) /\ job'.at = "answered"
  BY <1>2, <1>4, <1>5, AnswerServes
<1> QED BY <1>6, HandlerStep

\* A handler that fails a request keeps the invariant, if the code is justified.
LEMMA FailStep ==
    ASSUME Inv, NEW code, Fail(code), Handler, job.at \notin {"run", "probe", "abort"},
           job.req.op \in Reader /\ Status(code) = 412 =>
              \E o \in Seen(job.req, past) : ~Unchanged(job.req.cond, o),
           job.req.op \in Reader /\ Status(code) = 416 =>
              \E o \in Seen(job.req, past) :
                 /\ Unchanged(job.req.cond, o) /\ Fresh(job.req.cond, o)
                 /\ \E s \in job.req.range : Selected(s, Len(o.body)) = {},
           job.req.op \in Reader /\ Status(code) = 404 => Absent(job.req, code, past)
    PROVE  Inv'
<1>1. Serving(job') /\ Progress(job', past, upload.algorithm) /\ job'.at = "answered"
  BY FailServes
<1> QED BY <1>1, HandlerStep

\* The error of a call becomes the answer, or the probe for a delete marker.
LEMMA CallFailedStep ==
    ASSUME Inv, call_failed
    PROVE  Inv'
<1>1. job.at = "back" /\ job.error # "none" /\ Handler
  BY DEF call_failed
<1>2. job.req.op \in Reader =>
        job.error \in {"SlowDown", "InternalError"} \/ Absent(job.req, job.error, past)
  BY <1>1 DEF Inv, Progress, Reading
<1>3. CASE Fail(job.error)
  <2>1. job.req.op \in Reader => Status(job.error) # 412 /\ Status(job.error) # 416
    BY <1>2, StatusIs DEF Absent
  <2>2. job.req.op \in Reader /\ Status(job.error) = 404 => Absent(job.req, job.error, past)
    BY <1>2, StatusIs
  <2> QED BY <1>1, <1>3, <2>1, <2>2, FailStep
<1>4. CASE /\ job.call = "head_object" /\ should_probe_current_delete_marker(job.req, job.error)
           /\ job' = [job EXCEPT !.at = "open", !.call = "current_delete_marker", !.error = "none"]
  <2>1. /\ IsJob(job') /\ job'.at = "open" /\ job'.call = "current_delete_marker"
        /\ job'.error = "none" /\ job'.req = job.req
    BY <1>4 DEF Inv, Serving, IsJob
  <2>2. job.req.op = "HeadObject" /\ job.error = "NoSuchKey"
    BY <1>4 DEF should_probe_current_delete_marker
  <2>3. IsRequest(job.req) /\ job.req.role \in Roles /\ job.req.auth = "good"
    BY <1>1, <1>4 DEF Inv, Serving, Active
  <2>4. Serving(job')
    BY <2>1, <2>2, <2>3 DEF Serving, Active, Calls
  <2>5. Absent(job.req, "NoSuchKey", past)
    BY <1>2, <2>2 DEF Reader
  <2>6. Progress(job', past, upload.algorithm)
    BY <2>1, <2>2, <2>5 DEF Progress, Reading, Copying, Completing, Done, Pending
  <2> QED BY <1>1, <2>1, <2>4, <2>6, HandlerStep
<1> QED BY <1>3, <1>4 DEF call_failed

\* The 404 of a HEAD announces a marker that was the latest.
LEMMA DeleteMarkerHeadStep ==
    ASSUME Inv, delete_marker_head_response
    PROVE  Inv'
<1> DEFINE a == [status |-> 404, code |-> "NoSuchKey", marker |-> {o.id : o \in job.info}]
<1>1. /\ job.at = "back" /\ job.call = "current_delete_marker" /\ job.error = "none"
      /\ Answer(a) /\ Handler
  BY DEF delete_marker_head_response, Returned
<1>2. job.req.op = "HeadObject"
  <2>1. job.call \in Calls(job.req)
    BY <1>1 DEF Inv, Serving, Active
  <2> QED BY <1>1, <2>1 DEF Calls
<1>3. /\ Absent(job.req, "NoSuchKey", past)
      /\ \A o \in job.info : o.marker /\ \E p \in past : o \in Latest(p.store, job.req.key)
  BY <1>1, <1>2 DEF Inv, Progress, Reading, Reader, Active, Done
<1>4. a.status = 404 /\ a.code = "NoSuchKey" /\ a.marker = {o.id : o \in job.info}
  OBVIOUS
<1>5. job'.answer = a /\ job'.req = job.req
  BY <1>1, AnswerIs DEF Inv, Serving
<1> HIDE DEF a
<1>6. Consistent(job', past)
  <2>1. \A v \in a.marker : \E p \in past : \E o \in Latest(p.store, job.req.key) :
          o.marker /\ o.id = v
    BY <1>3, <1>4
  <2> QED BY <1>3, <1>4, <1>5, <2>1 DEF Consistent
<1>7. Serving(job') /\ Progress(job', past, upload.algorithm) /\ job'.at = "answered"
  BY <1>1, <1>2, <1>4, <1>6, AnswerServes
<1> QED BY <1>1, <1>7, HandlerStep

\* A call that is back belongs to the request, whose signature was verified.
LEMMA ReturnedIs ==
    ASSUME Inv, NEW call, call # "lookup_credential", Returned(call)
    PROVE  /\ job.at = "back" /\ job.call = call /\ job.error = "none" /\ Done(job, call)
           /\ call \in Calls(job.req) /\ job.req.auth = "good" /\ IsRequest(job.req) /\ IsJob(job)
BY DEF Inv, Serving, Returned, Done, Active

\* A handler that goes on to a call keeps the invariant, if the call is prepared.
LEMMA CallStep ==
    ASSUME Inv, NEW call, Call(call), Handler, job.at = "back", job.error = "none",
           call \in Calls(job.req) \ {"lookup_credential", "current_delete_marker"},
           job.req.auth = "good",
           job.req.op \in Reader /\ call = "get_object" =>
              \E o \in Seen(job.req, past) : job.info = {o} /\ Whole(job.req, o),
           job.req.op \in Reader /\ call = "get_range" =>
              \E o \in Seen(job.req, past) : job.info = {o} /\ Partial(job.req, o),
           job.req.op = "CopyObject" /\ call = "copy_object" =>
              \E o \in Seen(job.req, past) : job.info = {o} /\ Permitted(job.req, o),
           job.req.op = "CompleteMultipartUpload" /\ call = "complete_multipart" =>
              Vouched(job.req, job.parts, upload.algorithm)
    PROVE  Inv'
<1>1. Serving(job') /\ Progress(job', past, upload.algorithm) /\ job'.at = "open"
  BY CallServes
<1> QED BY <1>1, HandlerStep

\* The verdict on what HEAD has found.
LEMMA GetOrHeadStep ==
    ASSUME Inv, get_or_head
    PROVE  Inv'
<1> DEFINE r == job.req
<1>1. /\ job.at = "back" /\ job.error = "none" /\ Done(job, "head_object") /\ Handler
      /\ r.op \in Reader /\ r.auth = "good" /\ IsRequest(r)
  <2>1. Returned("head_object") /\ r.op # "CopyObject" /\ Handler
    BY DEF get_or_head
  <2>2. "head_object" \in Calls(r)
    BY <2>1, ReturnedIs
  <2>3. r.op \in Reader
    BY <2>1, <2>2 DEF Calls, Reader
  <2> QED BY <2>1, <2>3, ReturnedIs
<1>2. PICK o \in Seen(r, past) : job.info = {o}
  BY <1>1 DEF Inv, Progress, Reading
<1>3. (CHOOSE v \in job.info : TRUE) = o
  BY <1>2, ChooseOne
<1>4. IsVersion(o) /\ IsCondition(r.cond) /\ Ranged(r)
  BY <1>1, SeenKept DEF Inv, IsRequest, Reader, Ranged
<1> DEFINE verdict == evaluate(r.cond, o, TRUE)
           refused == \E s \in r.range : resolve(s, Len(o.body)) = {}
<1>5. (CASE verdict = "NotModified" -> Answer(object_headers(304, o, <<>>, {}))
        [] verdict = "PreconditionFailed" -> Fail("PreconditionFailed")
        [] verdict = "Proceed" /\ refused -> Fail("InvalidRange")
        [] OTHER ->
             CASE Chosen(r, o) # {} /\ r.op = "HeadObject" ->
                    Answer(object_headers(206, o, <<>>, Chosen(r, o)))
               [] Chosen(r, o) # {} /\ r.op = "GetObject" -> Call("get_range")
               [] Chosen(r, o) = {} /\ r.op = "HeadObject" ->
                    Answer(object_headers(200, o, <<>>, {}))
               [] OTHER -> Call("get_object"))
  BY <1>3 DEF get_or_head
<1>6. /\ verdict \in {"Proceed", "NotModified", "PreconditionFailed"}
      /\ verdict = "Proceed" <=> Unchanged(r.cond, o) /\ Fresh(r.cond, o)
      /\ verdict = "NotModified" <=> Unchanged(r.cond, o) /\ ~Fresh(r.cond, o)
      /\ verdict = "PreconditionFailed" <=> ~Unchanged(r.cond, o)
  BY <1>4, EvaluateRead
<1> HIDE DEF verdict, refused
<1>7. CASE verdict = "NotModified"
  <2>1. Answer(object_headers(304, o, <<>>, {}))
    BY <1>5, <1>7
  <2>2. Justified(object_headers(304, o, <<>>, {}), r, o)
    BY <1>6, <1>7, NotModifiedJustified
  <2> QED BY <1>1, <2>1, <2>2, HeadersServe
<1>8. CASE verdict = "PreconditionFailed"
  <2>1. Fail("PreconditionFailed") /\ Status("PreconditionFailed") = 412
    BY <1>5, <1>8, StatusIs
  <2> QED BY <1>1, <1>6, <1>8, <2>1, FailStep
<1>9. CASE verdict = "Proceed" /\ refused
  <2>1. Fail("InvalidRange") /\ Status("InvalidRange") = 416
    BY <1>5, <1>9, StatusIs
  <2>2. \E s \in r.range : Selected(s, Len(o.body)) = {}
    BY <1>4, <1>9, RefusedIs DEF refused
  <2> QED BY <1>1, <1>6, <1>9, <2>1, <2>2, FailStep
<1>10. CASE verdict = "Proceed" /\ ~refused
  <2>1. \/ ~Applies(r, o) /\ Chosen(r, o) = {}
        \/ /\ Applies(r, o)
           /\ \E a, b \in 0 .. Len(o.body) - 1 :
                a <= b /\ Asked(r, o) = a .. b /\ Chosen(r, o) = {[start |-> a, end |-> b]}
    BY <1>4, <1>10, ChosenIs DEF refused
  <2>2. \/ Whole(r, o) /\ Chosen(r, o) = {}
        \/ Partial(r, o) /\ Chosen(r, o) # {}
    BY <1>6, <1>10, <2>1 DEF Whole, Partial
  <2>3. CASE Chosen(r, o) # {} /\ r.op = "HeadObject"
    <3>1. Answer(object_headers(206, o, <<>>, Chosen(r, o)))
      BY <1>5, <1>10, <2>3
    <3>2. Justified(object_headers(206, o, <<>>, Chosen(r, o)), r, o)
      BY <1>4, <2>2, <2>3, PartJustified
    <3> QED BY <1>1, <3>1, <3>2, HeadersServe
  <2>4. CASE Chosen(r, o) = {} /\ r.op = "HeadObject"
    <3>1. Answer(object_headers(200, o, <<>>, {}))
      BY <1>5, <1>10, <2>4
    <3>2. Justified(object_headers(200, o, <<>>, {}), r, o)
      BY <1>4, <2>2, <2>4, WholeJustified
    <3> QED BY <1>1, <3>1, <3>2, HeadersServe
  <2>5. CASE Chosen(r, o) # {} /\ r.op = "GetObject"
    <3>1. Call("get_range") /\ "get_range" \in Calls(r)
      BY <1>5, <1>10, <2>5 DEF Calls
    <3> QED BY <1>1, <1>2, <2>2, <2>5, <3>1, CallStep
  <2>6. CASE Chosen(r, o) = {} /\ r.op = "GetObject"
    <3>1. Call("get_object") /\ "get_object" \in Calls(r)
      BY <1>5, <1>10, <2>6 DEF Calls
    <3> QED BY <1>1, <1>2, <2>2, <2>6, <3>1, CallStep
  <2> QED BY <1>1, <2>3, <2>4, <2>5, <2>6 DEF Reader
<1> QED BY <1>6, <1>7, <1>8, <1>9, <1>10

\* The body that was read goes out with the headers of its version.
LEMMA ObjectReadStep ==
    ASSUME Inv, object_read
    PROVE  Inv'
<1> DEFINE r == job.req
<1>1. PICK call \in {"get_object", "get_range"} : Returned(call)
  BY DEF object_read
<1>2. /\ job.at = "back" /\ job.call = call /\ Done(job, call) /\ Handler
      /\ r.op = "GetObject"
  <2>1. call \in Calls(r) /\ Handler
    BY <1>1, ReturnedIs DEF object_read
  <2>2. r.op = "GetObject"
    BY <2>1 DEF Calls
  <2> QED BY <1>1, <2>1, <2>2, ReturnedIs
<1>3. CASE call = "get_object"
  <2>1. PICK o \in Seen(r, past) : job.info = {o} /\ Whole(r, o) /\ job.reply = o.body
    BY <1>2, <1>3 DEF Inv, Progress, Reading, Reader
  <2>2. (CHOOSE v \in job.info : TRUE) = o
    BY <2>1, ChooseOne
  <2>3. Answer(object_headers(200, o, job.reply, {}))
    BY <1>2, <1>3, <2>2 DEF object_read
  <2>4. Justified(object_headers(200, o, job.reply, {}), r, o)
    BY <1>2, <2>1, SeenKept, WholeJustified DEF Inv
  <2> QED BY <1>2, <2>3, <2>4, HeadersServe DEF Reader
<1>4. CASE call = "get_range"
  <2>1. PICK o \in Seen(r, past) :
          job.info = {o} /\ Partial(r, o) /\ job.reply = Bytes(o, Asked(r, o))
    BY <1>2, <1>4 DEF Inv, Progress, Reading, Reader
  <2>2. (CHOOSE v \in job.info : TRUE) = o
    BY <2>1, ChooseOne
  <2>3. Answer(object_headers(206, o, job.reply, Chosen(r, o)))
    BY <1>2, <1>4, <2>2 DEF object_read
  <2>4. Justified(object_headers(206, o, job.reply, Chosen(r, o)), r, o)
    BY <1>2, <2>1, SeenKept, PartJustified DEF Inv
  <2> QED BY <1>2, <2>3, <2>4, HeadersServe DEF Reader
<1> QED BY <1>1, <1>3, <1>4

\* A copy goes on only with a source that meets the conditions.
LEMMA EvaluateCopyStep ==
    ASSUME Inv, evaluate_copy_source_conditions
    PROVE  Inv'
<1> DEFINE r == job.req
<1>1. /\ job.at = "back" /\ job.error = "none" /\ Done(job, "head_object") /\ Handler
      /\ r.op = "CopyObject" /\ r.auth = "good" /\ IsRequest(r)
  BY ReturnedIs DEF evaluate_copy_source_conditions
<1>2. PICK o \in Seen(r, past) : job.info = {o}
  BY <1>1 DEF Inv, Progress, Copying
<1>3. IsVersion(o) /\ IsCondition(r.cond)
  BY <1>1, SeenKept DEF Inv, IsRequest
<1>4. CASE evaluate(r.cond, o, FALSE) = "Proceed"
  <2>1. Call("copy_object") /\ "copy_object" \in Calls(r)
    BY <1>1, <1>2, <1>4 DEF evaluate_copy_source_conditions, Calls
  <2>2. Permitted(r, o)
    BY <1>3, <1>4, EvaluateCopy DEF Permitted
  <2> QED BY <1>1, <1>2, <2>1, <2>2, CallStep
<1>5. CASE evaluate(r.cond, o, FALSE) # "Proceed"
  <2>1. Fail("PreconditionFailed") /\ r.op \notin Reader
    BY <1>1, <1>2, <1>5 DEF evaluate_copy_source_conditions, Reader
  <2> QED BY <1>1, <2>1, FailStep
<1> QED BY <1>4, <1>5

\* The answer to a copy names the version made.
LEMMA CopiedStep ==
    ASSUME Inv, copied
    PROVE  Inv'
<1> DEFINE r == job.req
<1>1. /\ job.at = "back" /\ Done(job, "copy_object") /\ Handler /\ r.op = "CopyObject"
  <2>1. "copy_object" \in Calls(r) /\ Handler /\ Returned("copy_object")
    BY ReturnedIs DEF copied
  <2>2. r.op = "CopyObject"
    BY <2>1 DEF Calls
  <2> QED BY <2>1, <2>2, ReturnedIs
<1>2. PICK made \in Every(past) : job.info = {made} /\ CopyMade(r, made, past)
  BY <1>1 DEF Inv, Progress, Copying
<1> DEFINE a == [status |-> 200, version |-> made.id]
<1>3. Answer(a) /\ a.version = made.id
  BY <1>2 DEF copied
<1>4. Serving(job') /\ Progress(job', past, upload.algorithm) /\ job'.at = "answered"
  <2> HIDE DEF a
  <2>1. r.op \notin Reader /\ r.op # "CompleteMultipartUpload"
    BY <1>1 DEF Reader
  <2> QED BY <1>2, <1>3, <2>1, AnswerServes
<1> QED BY <1>1, <1>4, HandlerStep

\* An upload without checksums is completed at once.
LEMMA CompleteAfterAlgorithmStep ==
    ASSUME Inv, complete_after_algorithm
    PROVE  Inv'
<1> DEFINE r == job.req
<1>1. /\ job.at = "back" /\ job.error = "none" /\ Done(job, "multipart_checksum_algorithm")
      /\ Handler /\ r.op = "CompleteMultipartUpload" /\ r.auth = "good"
  <2>1. /\ "multipart_checksum_algorithm" \in Calls(r) /\ Handler
        /\ Returned("multipart_checksum_algorithm")
    BY ReturnedIs DEF complete_after_algorithm
  <2>2. r.op = "CompleteMultipartUpload"
    BY <2>1 DEF Calls
  <2> QED BY <2>1, <2>2, ReturnedIs
<1>2. job.reply = <<upload.algorithm>> /\ r.op \notin Reader
  BY <1>1 DEF Inv, Progress, Completing, Reader
<1>3. "list_parts" \in Calls(r) /\ "complete_multipart" \in Calls(r)
  BY <1>1 DEF Calls
<1>4. CASE Call("list_parts")
  BY <1>1, <1>2, <1>3, <1>4, CallStep
<1>5. CASE Fail("BadDigest")
  BY <1>1, <1>2, <1>5, FailStep
<1>6. CASE Call("complete_multipart") /\ job.reply = <<"none">>
  <2>1. Vouched(r, job.parts, upload.algorithm)
    BY <1>2, <1>6 DEF Vouched
  <2> QED BY <1>1, <1>2, <1>3, <1>6, <2>1, CallStep
<1>7. CASE Fail("NotImplemented")
  BY <1>1, <1>2, <1>7, FailStep
<1> QED BY <1>4, <1>5, <1>6, <1>7 DEF complete_after_algorithm

\* The parts listed are vouched for before the completion.
LEMMA CompleteAfterPartsStep ==
    ASSUME Inv, complete_after_parts
    PROVE  Inv'
<1> DEFINE r == job.req
           code == validate_multipart_sha256_completion(r, job.parts)
<1>1. /\ job.at = "back" /\ job.error = "none" /\ Handler
      /\ r.op = "CompleteMultipartUpload" /\ r.auth = "good"
  BY ReturnedIs DEF complete_after_parts
<1>2. r.op \notin Reader /\ "complete_multipart" \in Calls(r)
  BY <1>1 DEF Calls, Reader
<1>3. CASE code = "none"
  <2>1. Call("complete_multipart")
    BY <1>3 DEF complete_after_parts
  <2>2. Vouched(r, job.parts, upload.algorithm)
    BY <1>3 DEF validate_multipart_sha256_completion, Vouched
  <2> QED BY <1>1, <1>2, <2>1, <2>2, CallStep
<1>4. CASE code # "none"
  <2>1. Fail(code)
    BY <1>4 DEF complete_after_parts
  <2> QED BY <1>1, <1>2, <2>1, FailStep
<1> QED BY <1>3, <1>4

\* The answer to a completion names the version made and its composite.
LEMMA CompletedStep ==
    ASSUME Inv, completed
    PROVE  Inv'
<1> DEFINE r == job.req
<1>1. /\ job.at = "back" /\ Done(job, "complete_multipart") /\ Handler
      /\ r.op = "CompleteMultipartUpload"
  <2>1. "complete_multipart" \in Calls(r) /\ Handler /\ Returned("complete_multipart")
    BY ReturnedIs DEF completed
  <2>2. r.op = "CompleteMultipartUpload"
    BY <2>1 DEF Calls
  <2> QED BY <2>1, <2>2, ReturnedIs
<1>2. PICK made \in Every(past) :
        job.info = {made} /\ Assembled(r, made, Digests(r, job.parts), past, upload.algorithm)
  BY <1>1 DEF Inv, Progress, Completing
<1> DEFINE a == [status |-> 200, version |-> made.id, composite |-> Digests(r, job.parts)]
<1>3. Answer(a) /\ a.version = made.id /\ a.composite = Digests(r, job.parts)
  BY <1>2 DEF completed
<1>4. Serving(job') /\ Progress(job', past, upload.algorithm) /\ job'.at = "answered"
  <2> HIDE DEF a
  <2>1. r.op \notin Reader /\ r.op # "CopyObject"
    BY <1>1 DEF Reader
  <2> QED BY <1>2, <1>3, <2>1, AnswerServes
<1> QED BY <1>1, <1>4, HandlerStep

\* A page of a listing says nothing of versions read.
LEMMA PageStep ==
    ASSUME Inv, NEW rows, NEW truncated, NEW next, Page(rows, truncated, next), Handler, job.at = "back",
           job.req.op \notin Reader \cup {"CopyObject", "CompleteMultipartUpload"}
    PROVE  Inv'
<1>1. IsJob(job') /\ job'.at = "answered" /\ job'.req = job.req
  BY DEF Page, Inv, Serving, IsJob
<1>2. Serving(job')
  BY <1>1 DEF Inv, Serving, Active
<1>3. Progress(job', past, upload.algorithm)
  BY <1>1 DEF Progress, Reading, Copying, Completing
<1> QED BY <1>1, <1>2, <1>3, HandlerStep

\* The answer to a listing.
LEMMA ListAnswerStep ==
    ASSUME Inv, list_answer
    PROVE  Inv'
<1>1. PICK call \in {"list_objects", "list_versions"} : Returned(call)
  BY DEF list_answer
<1>2. job.at = "back" /\ call \in Calls(job.req)
  BY <1>1, ReturnedIs
<1>3. job.req.op \notin Reader \cup {"CopyObject", "CompleteMultipartUpload"}
  BY <1>2 DEF Calls, Reader
<1> QED BY <1>2, <1>3, PageStep DEF list_answer

\* The answer to ListParts.
LEMMA ListPartsAnswerStep ==
    ASSUME Inv, list_parts_answer
    PROVE  Inv'
<1>1. job.at = "back" /\ job.req.op = "ListParts" /\ Handler
  BY DEF list_parts_answer, Returned
<1>2. job.req.op \notin Reader \cup {"CopyObject", "CompleteMultipartUpload"}
  BY <1>1 DEF Reader
<1>3. \E rows, truncated, next : Page(rows, truncated, next)
  BY DEF list_parts_answer
<1> QED BY <1>1, <1>2, <1>3, PageStep

-----------------------------------------------------------------------------
(* The transaction of a call.                                              *)

\* A transaction begins with the role of its call.
LEMMA WithRequestContextStep ==
    ASSUME Inv, with_request_context
    PROVE  Inv'
<1>1. /\ job.at = "open" /\ IsJob(job) /\ job.call \in Calls(job.req) /\ IsRequest(job.req)
      /\ job.error = "none" /\ session = Idle
  BY DEF Inv, Serving, Attended, Active, with_request_context
<1>2. Kept'
  BY DEF Inv, Kept, with_request_context, Every
<1>3. past' = past /\ upload' = upload /\ todo' = todo
  BY DEF with_request_context
<1>4. CASE writable(job.call) /\ recovery
  <2>1. /\ IsJob(job') /\ job'.at = "back" /\ job'.error = "ServiceUnavailable" /\ job'.req = job.req
        /\ job'.call = job.call /\ job'.info = job.info /\ session' = session
    BY <1>1, <1>4 DEF with_request_context, IsJob
  <2>2. Serving(job')
    BY <1>1, <2>1 DEF Inv, Serving, Active
  <2>3. Attended'
    BY <1>1, <2>1 DEF Inv, Attended
  <2>4. job.req.op \notin Reader
    BY <1>1, <1>4 DEF Calls, Reader, writable
  <2>5. Progress(job', past', upload'.algorithm)
    BY <2>1, <2>4 DEF Progress, Reading, Copying, Completing, Done, Pending
  <2> QED BY <1>2, <1>3, <2>2, <2>3, <2>5 DEF Inv
<1>5. CASE ~ (writable(job.call) /\ recovery)
  <2>1. /\ IsJob(job') /\ job'.at = "run" /\ job'.req = job.req /\ job'.error = job.error
        /\ job'.call = job.call /\ job'.info = job.info /\ job'.parts = job.parts
        /\ session' = [open |-> TRUE, timer |-> TRUE,
                       role |-> IF job.call = "lookup_credential" THEN session.role
                                ELSE job.req.role]
    BY <1>1, <1>5 DEF with_request_context, IsJob
  <2>2. Serving(job')
    BY <1>1, <2>1 DEF Inv, Serving, Active
  <2>3. Attended'
    <3>1. session.role = server /\ server \in Roles /\ job.req.role \in Roles
      BY <1>1 DEF Idle, Inv, Serving, Roles
    <3> QED BY <2>1, <3>1 DEF Attended
  <2>4. Progress(job', past', upload'.algorithm)
    <3>1. \A call : Pending(job', call) => Pending(job, call)
      BY <1>1, <2>1 DEF Pending
    <3>2. \A call : ~Done(job', call)
      BY <2>1 DEF Done
    <3>3. Reading(job', past)
      BY <1>1, <2>1, <3>1, <3>2 DEF Inv, Progress, Reading, Active
    <3>4. Copying(job', past)
      BY <2>1, <3>1, <3>2 DEF Inv, Progress, Copying
    <3>5. Completing(job', past, upload.algorithm)
      BY <2>1, <3>1, <3>2 DEF Inv, Progress, Completing
    <3> QED BY <1>3, <3>3, <3>4, <3>5 DEF Progress
  <2> QED BY <1>2, <1>3, <2>2, <2>3, <2>4 DEF Inv
<1> QED BY <1>4, <1>5

\* An error takes the call to the error boundary; what a read reports is true of the
\* store.
LEMMA AbortStep ==
    ASSUME Inv, NEW code, code # "none", job.at \in {"run", "probe"}, ReadOnly,
           job' = [job EXCEPT !.at = "abort", !.error = code],
           session' = session \/ session' = [session EXCEPT !.timer = FALSE],
           job.req.op \in Reader => code = "SlowDown" \/ Absent(job.req, code, past)
    PROVE  Inv'
<1>1. /\ IsJob(job') /\ job'.at = "abort" /\ job'.error = code /\ job'.req = job.req
      /\ job'.call = job.call /\ job'.info = job.info
  BY DEF Inv, Serving, IsJob
<1>2. Kept'
  BY DEF Inv, Kept, ReadOnly, Every
<1>3. Serving(job')
  BY <1>1 DEF Inv, Serving, Active
<1>4. Attended'
  <2>1. session \in [open : BOOLEAN, timer : BOOLEAN, role : Roles] /\ session.open
    BY DEF Inv, Attended
  <2>2. session' \in [open : BOOLEAN, timer : BOOLEAN, role : Roles] /\ session'.open
    BY <2>1
  <2> QED BY <1>1, <2>2 DEF Attended
<1>5. past' = past /\ upload' = upload /\ todo' = todo
  BY DEF ReadOnly
<1>6. Progress(job', past, upload.algorithm)
  <2>1. Reading(job', past)
    BY <1>1 DEF Inv, Progress, Reading, Done, Pending, Active
  <2>2. Copying(job', past)
    BY <1>1 DEF Copying, Done, Pending
  <2>3. Completing(job', past, upload.algorithm)
    BY <1>1 DEF Completing, Done, Pending
  <2> QED BY <2>1, <2>2, <2>3 DEF Progress
<1> QED BY <1>2, <1>3, <1>4, <1>5, <1>6 DEF Inv

\* A statement raises an error.
LEMMA RaiseStep ==
    ASSUME Inv, NEW code, code # "none", job.at \in {"run", "probe"}, ReadOnly, Raise(code),
           job.req.op \in Reader => code = "SlowDown" \/ Absent(job.req, code, past)
    PROVE  Inv'
BY AbortStep DEF Raise

\* The timer fires during a statement.
LEMMA StatementTimeoutStep ==
    ASSUME Inv, statement_timeout
    PROVE  Inv'
<1>1. ReadOnly
  BY DEF statement_timeout, ReadOnly
<1> QED BY <1>1, AbortStep DEF statement_timeout

\* A result that cannot be decoded is an error of the handler's own.
LEMMA DecodeFailsStep ==
    ASSUME Inv, decode_fails
    PROVE  Inv'
<1>1. job.at = "back" /\ IsJob(job) /\ Handler
  BY DEF Inv, Serving, decode_fails, Handler
<1>2. /\ IsJob(job') /\ job'.at = "back" /\ job'.error = "InternalError" /\ job'.req = job.req
      /\ job'.call = job.call /\ job'.info = job.info
  BY <1>1 DEF IsJob, decode_fails
<1>3. Serving(job')
  BY <1>1, <1>2 DEF Inv, Serving, Active
<1>4. Progress(job', past, upload.algorithm)
  <2>1. \A call : ~Done(job', call) /\ ~Pending(job', call)
    BY <1>2 DEF Done, Pending
  <2>2. Reading(job', past)
    BY <1>1, <1>2, <2>1 DEF Inv, Progress, Reading, Active
  <2>3. Copying(job', past) /\ Completing(job', past, upload.algorithm)
    BY <1>2, <2>1 DEF Copying, Completing
  <2> QED BY <2>2, <2>3 DEF Progress
<1> QED BY <1>1, <1>2, <1>3, <1>4, HandlerStep

\* The error boundary ends the transaction and its role.
LEMMA CatchOthersStep ==
    ASSUME Inv, catch_others
    PROVE  Inv'
<1>1. job.at = "abort" /\ IsJob(job) /\ job.error # "none"
  BY DEF Inv, Serving, catch_others
<1>2. /\ IsJob(job') /\ job'.at = "back" /\ job'.error = job.error /\ job'.req = job.req
      /\ job'.call = job.call /\ job'.info = job.info
  BY <1>1 DEF IsJob, catch_others
<1>3. Kept'
  BY DEF Inv, Kept, catch_others, Every
<1>4. Serving(job')
  BY <1>1, <1>2 DEF Inv, Serving, Active
<1>5. Attended'
  <2>1. session' = Idle /\ Idle \in [open : BOOLEAN, timer : BOOLEAN, role : Roles] /\ ~Idle.open
    BY DEF catch_others, Idle, Roles
  <2> QED BY <1>2, <2>1 DEF Attended
<1>6. past' = past /\ upload' = upload /\ todo' = todo
  BY DEF catch_others
<1>7. Progress(job', past, upload.algorithm)
  <2>1. \A call : ~Done(job', call) /\ ~Pending(job', call)
    BY <1>1, <1>2 DEF Done, Pending
  <2>2. Reading(job', past)
    BY <1>1, <1>2, <2>1 DEF Inv, Progress, Reading, Active
  <2>3. Copying(job', past) /\ Completing(job', past, upload.algorithm)
    BY <1>2, <2>1 DEF Copying, Completing
  <2> QED BY <2>2, <2>3 DEF Progress
<1> QED BY <1>3, <1>4, <1>5, <1>6, <1>7 DEF Inv

\* A call that comes back with a result.
LEMMA CommittedServes ==
    ASSUME Inv, job.at \in {"run", "probe"}, NEW j, Committed(j), IsJob(j), j.req = job.req,
           j.call = job.call, j.error = "none", job.call = "lookup_credential" => j.info = {}
    PROVE  /\ Serving(job') /\ Attended'
           /\ job' = [j EXCEPT !.at = "back"] /\ job'.at = "back" /\ job'.call = job.call
           /\ job'.req = job.req /\ job'.error = "none" /\ job'.info = j.info
           /\ job'.parts = j.parts /\ job'.reply = j.reply
<1>1. /\ IsJob(job') /\ job'.at = "back" /\ job'.error = "none" /\ job'.req = job.req
      /\ job'.call = job.call /\ job'.info = j.info /\ job'.parts = j.parts /\ job'.reply = j.reply
  BY DEF IsJob, Committed
<1>2. Serving(job')
  BY <1>1 DEF Inv, Serving, Active
<1>3. Attended'
  <2>1. session' = Idle /\ Idle \in [open : BOOLEAN, timer : BOOLEAN, role : Roles] /\ ~Idle.open
    BY DEF Committed, Idle, Roles
  <2> QED BY <1>1, <2>1 DEF Attended
<1> QED BY <1>1, <1>2, <1>3 DEF Committed

\* A statement that only reads.
LEMMA ReadStep ==
    ASSUME Inv, job.at \in {"run", "probe"}, NEW j, Committed(j), IsJob(j), j.req = job.req,
           j.call = job.call, j.error = "none", ReadOnly,
           job.call = "lookup_credential" => j.info = {},
           job.call = "head_object" => \E o \in Seen(job.req, past) : j.info = {o},
           job.call = "get_object" =>
              \E o \in Seen(job.req, past) : j.info = {o} /\ Whole(job.req, o) /\ j.reply = o.body,
           job.call = "get_range" =>
              \E o \in Seen(job.req, past) :
                 j.info = {o} /\ Partial(job.req, o) /\ j.reply = Bytes(o, Asked(job.req, o)),
           job.call = "current_delete_marker" =>
              \A o \in j.info : o.marker /\ \E p \in past : o \in Latest(p.store, job.req.key),
           job.call = "multipart_checksum_algorithm" => j.reply = <<upload.algorithm>>,
           job.call \notin {"copy_object", "complete_multipart"}
    PROVE  Inv'
<1>1. /\ Serving(job') /\ Attended' /\ job'.at = "back" /\ job'.call = job.call
      /\ job'.req = job.req /\ job'.error = "none" /\ job'.info = j.info
      /\ job'.parts = j.parts /\ job'.reply = j.reply
  BY CommittedServes
<1>2. Kept'
  BY DEF Inv, Kept, ReadOnly, Every
<1>3. past' = past /\ upload' = upload /\ todo' = todo
  BY DEF ReadOnly
<1>4. \A call : (Done(job', call) <=> call = job.call) /\ ~Pending(job', call)
  BY <1>1 DEF Done, Pending
<1>5. Reading(job', past)
  <2>1. job.req.op \in Reader /\ job.call = "current_delete_marker" =>
          Absent(job.req, "NoSuchKey", past)
    BY DEF Inv, Progress, Reading, Active
  <2> QED BY <1>1, <1>4, <2>1 DEF Reading
<1>6. Copying(job', past)
  BY <1>1, <1>4 DEF Copying
<1>7. Completing(job', past, upload.algorithm)
  BY <1>1, <1>4 DEF Completing
<1> QED BY <1>1, <1>2, <1>3, <1>5, <1>6, <1>7 DEF Inv, Progress

-----------------------------------------------------------------------------
(* Statements that read.                                                   *)

\* A statement runs for a request that may make the call.
LEMMA RunningIs ==
    ASSUME Inv, NEW call, Running(call)
    PROVE  /\ job.at = "run" /\ job.call = call /\ call \in Calls(job.req) /\ IsJob(job)
           /\ job.error = "none" /\ IsRequest(job.req) /\ Pending(job, call)
BY DEF Inv, Serving, Running, Active, Pending

\* What a call brings back.
LEMMA WithInfo ==
    ASSUME IsJob(job), NEW x
    PROVE  LET j == [job EXCEPT !.info = x]
           IN  /\ IsJob(j) /\ j.req = job.req /\ j.call = job.call /\ j.error = job.error
               /\ j.info = x /\ j.parts = job.parts
BY DEF IsJob

\* The job with a reply.
LEMMA WithReply ==
    ASSUME IsJob(job), NEW x
    PROVE  LET j == [job EXCEPT !.reply = x]
           IN  /\ IsJob(j) /\ j.req = job.req /\ j.call = job.call /\ j.error = job.error
               /\ j.info = job.info /\ j.reply = x
BY DEF IsJob

\* The job with the parts listed.
LEMMA WithParts ==
    ASSUME IsJob(job), NEW x
    PROVE  LET j == [job EXCEPT !.parts = x]
           IN  /\ IsJob(j) /\ j.req = job.req /\ j.call = job.call /\ j.error = job.error
               /\ j.info = job.info /\ j.parts = x
BY DEF IsJob

\* The error for a version that is not there.
LEMMA NotMissing ==
    ASSUME NEW version
    PROVE  /\ Missing(version) # "none" /\ Missing(version) \in {"NoSuchKey", "NoSuchVersion"}
           /\ version # {} => Missing(version) = "NoSuchVersion"
BY DEF Missing

\* The credential is looked up.
LEMMA LookupCredentialStep ==
    ASSUME Inv, lookup_credential
    PROVE  Inv'
<1>1. /\ job.at = "run" /\ job.call = "lookup_credential" /\ IsJob(job) /\ job.error = "none"
      /\ Committed(job) /\ ReadOnly
  BY RunningIs DEF lookup_credential
<1>2. job.info = {}
  BY <1>1 DEF Inv, Serving, Active
<1> QED BY <1>1, <1>2, ReadStep

\* HEAD finds the version asked for, or none.
LEMMA HeadObjectStep ==
    ASSUME Inv, head_object
    PROVE  Inv'
<1> DEFINE r == job.req
           found == head(store, r.key, r.version)
<1>1. /\ job.at = "run" /\ job.call = "head_object" /\ IsJob(job) /\ job.error = "none"
      /\ ReadOnly /\ Kept
  BY RunningIs DEF head_object, Inv
<1>2. Single(r.version)
  <2>1. "head_object" \in Calls(r) /\ IsRequest(r)
    BY RunningIs DEF head_object
  <2>2. r.op \in {"GetObject", "HeadObject", "CopyObject"}
    BY <2>1 DEF Calls
  <2> QED BY <2>1, <2>2 DEF IsRequest
<1>3. CASE found = {}
  <2>1. Raise(Missing(r.version))
    BY <1>3 DEF head_object
  <2>2. [store |-> store, upload |-> upload] \in past
    BY <1>1 DEF Kept
  <2>3. Absent(r, Missing(r.version), past)
    BY <1>3, <2>2, NotMissing DEF Absent
  <2> QED BY <1>1, <2>1, <2>3, NotMissing, RaiseStep
<1>4. CASE found # {}
  <2>1. \E o \in Seen(r, past) : found = {o}
    BY <1>1, <1>2, <1>4, HeadFinds
  <2> DEFINE j == [job EXCEPT !.info = found]
  <2>2. Committed(j)
    BY <1>4 DEF head_object
  <2>3. IsJob(j) /\ j.req = r /\ j.call = job.call /\ j.error = "none" /\ j.info = found
    BY <1>1 DEF IsJob
  <2> HIDE DEF j, found
  <2> QED BY <1>1, <2>1, <2>2, <2>3, ReadStep
<1> QED BY <1>3, <1>4

\* The probe for a delete marker finds the latest version only.
LEMMA CurrentDeleteMarkerStep ==
    ASSUME Inv, current_delete_marker
    PROVE  Inv'
<1> DEFINE rows == list_versions(store, [prefix |-> job.req.key, delimiter |-> {}], {}, {}, 1)
           info == {o \in Latest(store, job.req.key) :
                      o.marker /\ rows # <<>> /\ rows[1].version = {o.id}}
           j == [job EXCEPT !.info = info]
<1>1. /\ job.at = "run" /\ job.call = "current_delete_marker" /\ IsJob(job) /\ job.error = "none"
      /\ ReadOnly /\ Committed(j)
  BY RunningIs DEF current_delete_marker
<1>2. IsJob(j) /\ j.req = job.req /\ j.call = job.call /\ j.error = "none" /\ j.info = info
  <2> HIDE DEF info
  <2> QED BY <1>1, WithInfo
<1>3. \A o \in info : o.marker /\ \E p \in past : o \in Latest(p.store, job.req.key)
  BY DEF Inv, Kept
<1> HIDE DEF j, info
<1> QED BY <1>1, <1>2, <1>3, ReadStep

\* The body is read of the version that HEAD has seen, or of the one found now.
LEMMA GetObjectStep ==
    ASSUME Inv, get_object
    PROVE  Inv'
<1> DEFINE r == job.req
           found == head(store, r.key, Pinned)
<1>1. /\ job.at = "run" /\ job.call = "get_object" /\ IsJob(job) /\ job.error = "none"
      /\ ReadOnly /\ Kept /\ r.op = "GetObject" /\ IsRequest(r) /\ Pending(job, "get_object")
  <2>1. "get_object" \in Calls(r) /\ IsRequest(r)
    BY RunningIs DEF get_object
  <2>2. r.op = "GetObject"
    BY <2>1 DEF Calls
  <2> QED BY <2>2, RunningIs DEF get_object, Inv
<1>2. [store |-> store, upload |-> upload] \in past
  BY <1>1 DEF Kept
<1>3. /\ found = {} => Absent(r, Missing(Pinned), past)
      /\ \A o \in found : o \in Seen(r, past) /\ Whole(r, o)
  <2>1. CASE job.info = {} /\ unconditional_get_fast_path(r)
    <3>1. Pinned = r.version /\ Single(r.version)
      BY <1>1, <2>1 DEF Pinned, IsRequest
    <3>2. found \subseteq Seen(r, past)
      BY <1>1, <3>1, HeadFinds
    <3>3. r.cond = NoCondition /\ r.range = {}
      BY <2>1 DEF unconditional_get_fast_path
    <3>4. \A o : Whole(r, o)
      BY <3>3, NoConditionHolds DEF Whole, Applies
    <3>5. found = {} => Absent(r, Missing(Pinned), past)
      BY <1>2, <3>1, NotMissing DEF Absent
    <3> QED BY <3>2, <3>4, <3>5
  <2>2. ASSUME NEW o \in Seen(r, past), job.info = {o}, Whole(r, o)
        PROVE  /\ found = {} => Absent(r, Missing(Pinned), past)
               /\ \A v \in found : v \in Seen(r, past) /\ Whole(r, v)
    <3>1. Pinned = {o.id}
      BY <2>2 DEF Pinned
    <3>2. \/ found = {} /\ o \notin store
          \/ found = {o}
      BY <1>1, <3>1, HeadAgain
    <3>3. found = {} => Absent(r, Missing(Pinned), past)
      <4> SUFFICES ASSUME found = {} PROVE Absent(r, Missing(Pinned), past)
        OBVIOUS
      <4>1. Missing(Pinned) = "NoSuchVersion"
        BY <3>1, NotMissing
      <4>2. o \notin store
        BY <3>2
      <4>3. \E p \in past : o \notin p.store
        BY <1>2, <4>2
      <4> QED BY <4>1, <4>3 DEF Absent
    <3> QED BY <2>2, <3>2, <3>3
  <2> QED BY <1>1, <2>1, <2>2 DEF Inv, Progress, Reading, Reader
<1>4. CASE found = {}
  <2>1. Raise(Missing(Pinned))
    BY <1>4 DEF get_object
  <2> QED BY <1>1, <1>3, <1>4, <2>1, NotMissing, RaiseStep
<1>5. CASE found # {}
  <2>1. PICK o \in found : Committed([job EXCEPT !.info = {o}, !.reply = o.body])
    BY <1>5 DEF get_object
  <2>4. PICK j : j = [job EXCEPT !.info = {o}, !.reply = o.body]
    OBVIOUS
  <2>2. /\ IsJob(j) /\ j.req = r /\ j.call = job.call /\ j.error = "none" /\ j.info = {o}
        /\ j.reply = o.body
    <3> HIDE DEF found
    <3> QED BY <1>1, <2>4 DEF IsJob
  <2>3. Committed(j) /\ o \in Seen(r, past) /\ Whole(r, o)
    BY <1>3, <2>1, <2>4
  <2> QED BY <1>1, <2>2, <2>3, ReadStep
<1> QED BY <1>4, <1>5

\* The range is cut out of the version that HEAD has seen.
LEMMA GetRangeStep ==
    ASSUME Inv, get_range
    PROVE  Inv'
<1> DEFINE r == job.req
<1>1. /\ job.at = "run" /\ job.call = "get_range" /\ IsJob(job) /\ job.error = "none"
      /\ ReadOnly /\ Kept /\ r.op = "GetObject" /\ Pending(job, "get_range")
  <2>1. "get_range" \in Calls(r)
    BY RunningIs DEF get_range
  <2>2. r.op = "GetObject"
    BY <2>1 DEF Calls
  <2> QED BY <2>2, RunningIs DEF get_range, Inv
<1>2. PICK o \in Seen(r, past) : job.info = {o} /\ Partial(r, o)
  BY <1>1 DEF Inv, Progress, Reading, Reader
<1>3. Pinned = {o.id} /\ (CHOOSE v \in job.info : TRUE) = o /\ IsVersion(o)
  BY <1>1, <1>2, ChooseOne, SeenKept DEF Pinned
<1> DEFINE found == head(store, r.key, Pinned)
<1>4. \/ found = {} /\ o \notin store
      \/ found = {o}
  BY <1>1, <1>3, HeadAgain
<1>5. CASE found = {}
  <2>1. Raise(Missing(Pinned)) /\ Missing(Pinned) = "NoSuchVersion"
    BY <1>3, <1>5, NotMissing DEF get_range
  <2>2. \E p \in past : o \notin p.store
    BY <1>1, <1>4, <1>5 DEF Kept
  <2>3. Absent(r, "NoSuchVersion", past)
    BY <2>2 DEF Absent
  <2> QED BY <1>1, <2>1, <2>3, RaiseStep
<1>6. CASE found # {}
  <2>1. PICK a, b \in 0 .. Len(o.body) - 1 :
          a <= b /\ Asked(r, o) = a .. b /\ Chosen(r, o) = {[start |-> a, end |-> b]}
    BY <1>2 DEF Partial
  <2> DEFINE range == CHOOSE x \in Chosen(r, CHOOSE v \in job.info : TRUE) : TRUE
  <2>2. range = [start |-> a, end |-> b]
    BY <1>3, <2>1, ChooseOne
  <2>3. range.start = a /\ range.end = b
    <3> HIDE DEF range
    <3> QED BY <2>2
  <2>4. ~ (a >= Len(o.body))
    BY <1>3, LengthNat
  <2> DEFINE body == SubSeq(o.body, a + 1, Min({b + 1, Len(o.body)}))
             j == [job EXCEPT !.reply = body]
  <2>5. Committed(j)
    <3>1. found = {o}
      BY <1>4, <1>6
    <3>2. \E v \in found :
             IF range.start >= Len(v.body)
             THEN Raise("InvalidRange")
             ELSE Committed([job EXCEPT !.reply =
                    SubSeq(v.body, range.start + 1, Min({range.end + 1, Len(v.body)}))])
      BY <1>6 DEF get_range
    <3> HIDE DEF range, found
    <3> QED BY <2>3, <2>4, <3>1, <3>2
  <2>6. body = Bytes(o, Asked(r, o))
    BY <1>3, <2>1, PartBytes
  <2>7. /\ IsJob(j) /\ j.req = r /\ j.call = job.call /\ j.error = "none" /\ j.info = job.info
        /\ j.reply = body
    <3> HIDE DEF body
    <3> QED BY <1>1, WithReply
  <2> HIDE DEF j, body
  <2> QED BY <1>1, <1>2, <2>5, <2>6, <2>7, ReadStep
<1> QED BY <1>5, <1>6

\* A call that neither reads a version nor makes one.
LEMMA UnreadStep ==
    ASSUME Inv, job.at \in {"run", "probe"}, NEW j, Committed(j), IsJob(j), j.req = job.req,
           j.call = job.call, j.error = "none", ReadOnly,
           job.call \in {"list_parts", "list_objects", "list_versions"}
    PROVE  Inv'
BY ReadStep

\* The algorithm of the upload is read.
LEMMA MultipartChecksumStep ==
    ASSUME Inv, multipart_checksum_algorithm
    PROVE  Inv'
<1>1. /\ job.at = "run" /\ job.call = "multipart_checksum_algorithm" /\ IsJob(job)
      /\ job.error = "none" /\ ReadOnly /\ job.req.op \notin Reader
  <2>1. "multipart_checksum_algorithm" \in Calls(job.req)
    BY RunningIs DEF multipart_checksum_algorithm
  <2>2. job.req.op \notin Reader
    BY <2>1 DEF Calls, Reader
  <2> QED BY <2>2, RunningIs DEF multipart_checksum_algorithm
<1>2. CASE \E code \in {"NoSuchUpload", "InvalidArgument"} : Raise(code)
  BY <1>1, <1>2, RaiseStep
<1>3. CASE Committed([job EXCEPT !.reply = <<upload.algorithm>>])
  <2> DEFINE j == [job EXCEPT !.reply = <<upload.algorithm>>]
  <2>1. /\ IsJob(j) /\ j.req = job.req /\ j.call = job.call /\ j.error = "none"
        /\ j.reply = <<upload.algorithm>>
    BY <1>1, WithReply
  <2> HIDE DEF j
  <2> QED BY <1>1, <1>3, <2>1, ReadStep DEF j
<1> QED BY <1>2, <1>3 DEF multipart_checksum_algorithm

\* The parts of the upload are read.
LEMMA ListPartsStep ==
    ASSUME Inv, list_parts
    PROVE  Inv'
<1>1. /\ job.at = "run" /\ job.call = "list_parts" /\ IsJob(job)
      /\ job.error = "none" /\ ReadOnly /\ job.req.op \notin Reader
  <2>1. "list_parts" \in Calls(job.req)
    BY RunningIs DEF list_parts
  <2>2. job.req.op \notin Reader
    BY <2>1 DEF Calls, Reader
  <2> QED BY <2>2, RunningIs DEF list_parts
<1>2. CASE Raise("NoSuchUpload")
  BY <1>1, <1>2, RaiseStep
<1>3. CASE Committed([job EXCEPT !.parts = upload.parts])
  <2> DEFINE j == [job EXCEPT !.parts = upload.parts]
  <2>1. IsJob(j) /\ j.req = job.req /\ j.call = job.call /\ j.error = "none"
    BY <1>1, WithParts
  <2> HIDE DEF j
  <2> QED BY <1>1, <1>3, <2>1, UnreadStep DEF j
<1> QED BY <1>2, <1>3 DEF list_parts

\* A page is read, and a probe follows a full one.
LEMMA ListStatementStep ==
    ASSUME Inv, NEW rows, ListStatement(rows), ReadOnly, job.at = "run",
           job.call \in {"list_objects", "list_versions"}
    PROVE  Inv'
<1>1. IsJob(job) /\ job.error = "none" /\ job.call \in Calls(job.req)
  BY DEF Inv, Serving, Active
<1>2. CASE Committed([job EXCEPT !.reply = rows])
  <2> DEFINE j == [job EXCEPT !.reply = rows]
  <2>1. IsJob(j) /\ j.req = job.req /\ j.call = job.call /\ j.error = "none"
    BY <1>1, WithReply
  <2> HIDE DEF j
  <2> QED BY <1>1, <1>2, <2>1, UnreadStep DEF j
<1>3. CASE job' = [job EXCEPT !.at = "probe", !.reply = rows] /\ UNCHANGED session
  <2>1. /\ IsJob(job') /\ job'.at = "probe" /\ job'.call = job.call /\ job'.req = job.req
        /\ job'.error = "none" /\ job'.info = job.info
    BY <1>1, <1>3 DEF IsJob
  <2>2. Kept'
    BY DEF Inv, Kept, ReadOnly, Every
  <2>3. Serving(job')
    BY <2>1 DEF Inv, Serving, Active
  <2>4. Attended'
    BY <1>3, <2>1 DEF Inv, Attended
  <2>5. job.req.op \notin Reader \cup {"CopyObject", "CompleteMultipartUpload"}
    BY <1>1 DEF Calls, Reader
  <2>6. Progress(job', past', upload'.algorithm)
    BY <2>1, <2>5 DEF Progress, Reading, Copying, Completing
  <2>7. todo' = todo
    BY DEF ReadOnly
  <2> QED BY <2>2, <2>3, <2>4, <2>6, <2>7 DEF Inv
<1> QED BY <1>2, <1>3 DEF ListStatement

\* A page of objects.
LEMMA ListObjectsStep ==
    ASSUME Inv, list_objects
    PROVE  Inv'
<1>1. /\ job.at = "run" /\ job.call = "list_objects" /\ ReadOnly
      /\ \E rows : ListStatement(rows)
  BY DEF list_objects, Running
<1> QED BY <1>1, ListStatementStep

\* A page of versions.
LEMMA ListVersionsStep ==
    ASSUME Inv, list_versions_call
    PROVE  Inv'
<1>1. /\ job.at = "run" /\ job.call = "list_versions" /\ ReadOnly
      /\ \E rows : ListStatement(rows)
  BY DEF list_versions_call, Running
<1> QED BY <1>1, ListStatementStep

\* The probe ends the transaction of its page.
LEMMA ProbeStep ==
    ASSUME Inv, probe
    PROVE  Inv'
<1>1. /\ job.at = "probe" /\ IsJob(job) /\ job.error = "none" /\ ReadOnly
      /\ job.call \in {"list_objects", "list_versions"}
  BY DEF Inv, Serving, probe
<1> DEFINE last == [job EXCEPT !.reply[Len(job.reply)].next = {}]
<1>2. IsJob(last) /\ last.req = job.req /\ last.call = job.call /\ last.error = "none"
  <2>1. last = [job EXCEPT !.reply = [job.reply EXCEPT ![Len(job.reply)] =
                                        [job.reply[Len(job.reply)] EXCEPT !.next = {}]]]
    OBVIOUS
  <2> DEFINE rows == [job.reply EXCEPT ![Len(job.reply)] =
                        [job.reply[Len(job.reply)] EXCEPT !.next = {}]]
  <2> HIDE DEF rows, last
  <2>2. last = [job EXCEPT !.reply = rows]
    BY <2>1 DEF rows
  <2> QED BY <1>1, <2>2, WithReply
<1>3. Committed(last) \/ Committed(job)
  BY DEF probe
<1> HIDE DEF last
<1> QED BY <1>1, <1>2, <1>3, UnreadStep

-----------------------------------------------------------------------------
(* Statements that write.                                                  *)

\* A new version has an id of its own and is the latest of its key.
LEMMA InsertIs ==
    ASSUME Kept, NEW key, NEW body \in Seq(Nat), NEW marker \in BOOLEAN, Insert(key, body, marker)
    PROVE  LET made == [key |-> key, id |-> nextId, body |-> body, marker |-> marker]
           IN  /\ store' = store \cup {made} /\ IsVersion(made) /\ Latest(store', key) = {made}
               /\ IsFiniteSet(store') /\ nextId' = nextId + 1
<1>1. PICK made : made = [key |-> key, id |-> nextId, body |-> body, marker |-> marker]
  OBVIOUS
<1>2. store' = store \cup {made} /\ nextId' = nextId + 1 /\ nextId \in Nat
  BY <1>1 DEF Insert, Kept
<1>3. made.key = key /\ made.id = nextId /\ IsVersion(made)
  BY <1>1, <1>2 DEF IsVersion
<1>4. \A o \in store : o.id \in Nat /\ o.id < nextId
  BY StoreKept DEF IsVersion
<1>5. Latest(store', key) = {made}
  <2>1. \A o \in store' : o.key = key => o.id <= made.id
    BY <1>2, <1>3, <1>4
  <2>2. \A o \in store : ~ (made.id <= o.id)
    BY <1>2, <1>3, <1>4
  <2>3. made \in Latest(store', key)
    BY <1>2, <1>3, <2>1 DEF Latest
  <2>4. ASSUME NEW o \in Latest(store', key) PROVE o = made
    <3>1. o \in store' /\ made.id <= o.id
      BY <1>2, <1>3 DEF Latest
    <3> QED BY <1>2, <2>2, <3>1
  <2> QED BY <2>3, <2>4
<1>6. IsFiniteSet(store')
  BY <1>2, FS_AddElement DEF Kept
<1> QED BY <1>1, <1>2, <1>3, <1>5, <1>6

\* The history after a write.
LEMMA InsertKeeps ==
    ASSUME Kept, NEW key, NEW body \in Seq(Nat), NEW marker \in BOOLEAN, Insert(key, body, marker),
           Record(store', upload'), IsUpload(upload'), upload'.algorithm = upload.algorithm,
           writes' \in 0 .. MaxWrites, UNCHANGED shared
    PROVE  Kept'
<1>1. PICK made : made = [key |-> key, id |-> nextId, body |-> body, marker |-> marker]
  OBVIOUS
<1>2. store' = store \cup {made} /\ IsVersion(made) /\ IsFiniteSet(store') /\ nextId' = nextId + 1
  BY <1>1, InsertIs
<1>3. made.id = nextId /\ nextId \in Nat
  BY <1>1 DEF Kept
<1>4. past' = past \cup {[store |-> store', upload |-> upload']}
  BY DEF Record
<1>5. Every(past') = Every(past) \cup {made}
  <2>1. Every(past') = Every(past) \cup store'
    <3> DEFINE now == [store |-> store', upload |-> upload']
    <3>1. now.store = store' /\ now \in past'
      BY <1>4
    <3>2. \A p \in past' : p \in past \/ p.store = store'
      BY <1>4
    <3> HIDE DEF now
    <3>3. ASSUME NEW o \in Every(past') PROVE o \in Every(past) \cup store'
      BY <3>2 DEF Every
    <3>4. ASSUME NEW o \in Every(past) \cup store' PROVE o \in Every(past')
      BY <1>4, <3>1 DEF Every
    <3> QED BY <3>3, <3>4
  <2> QED BY <1>2, <2>1, StoreKept
<1>6. \A o \in Every(past') : IsVersion(o) /\ o.id < nextId'
  <2>1. \A o \in Every(past) : IsVersion(o) /\ o.id \in Nat /\ o.id < nextId
    BY DEF Kept, IsVersion
  <2> QED BY <1>2, <1>3, <1>5, <2>1
<1>7. \A o, v \in Every(past') : o.id = v.id => o = v
  <2>1. \A o \in Every(past) : o.id # nextId
    <3>1. \A o \in Every(past) : o.id \in Nat /\ o.id < nextId
      BY DEF Kept, IsVersion
    <3> QED BY <1>3, <3>1
  <2>2. \A o, v \in Every(past) : o.id = v.id => o = v
    BY DEF Kept
  <2> QED BY <1>3, <1>5, <2>1, <2>2
<1>8. \A p \in past' : IsUpload(p.upload) /\ p.upload.algorithm = upload'.algorithm
  BY <1>4 DEF Kept
<1>9. nextId' \in Nat /\ [store |-> store', upload |-> upload'] \in past'
  BY <1>2, <1>3, <1>4
<1>10. \A w \in shared' : w.body \in Seq(Nat)
  BY DEF Kept
<1> QED BY <1>2, <1>6, <1>7, <1>8, <1>9, <1>10 DEF Kept

\* A statement makes a version and commits with it.
Makes(key, body, j) ==
    /\ body \in Seq(Nat) /\ Insert(key, body, FALSE) /\ Record(store', upload')
    /\ IsUpload(upload') /\ upload'.algorithm = upload.algorithm
    /\ shared' = shared /\ writes' = writes
    /\ Committed(j) /\ IsJob(j) /\ j.req = job.req /\ j.call = job.call /\ j.error = "none"
    /\ j.info = Latest(store', key) /\ j.parts = job.parts
\* What such a statement leaves.
Leaves(key, body) ==
    /\ Kept' /\ Serving(job') /\ Attended' /\ past \subseteq past'
    /\ job'.at = "back" /\ job'.call = job.call /\ job'.req = job.req /\ job'.parts = job.parts
    /\ \E made \in Every(past') : made.key = key /\ made.body = body /\ job'.info = {made}

\* A statement that makes a version leaves it in the history, and in the job.
LEMMA MadeIs ==
    ASSUME Inv, job.at = "run", job.call # "lookup_credential",
           NEW key, NEW body, NEW j, Makes(key, body, j)
    PROVE  Leaves(key, body)
<1> USE DEF Makes
<1>1. Kept /\ IsJob(job) /\ job.error = "none"
  BY DEF Inv, Serving
<1>2. Kept'
  <2>1. writes' \in 0 .. MaxWrites /\ FALSE \in BOOLEAN
    BY <1>1 DEF Kept
  <2> QED BY <1>1, <2>1, InsertKeeps
<1>3. PICK made : made = [key |-> key, id |-> nextId, body |-> body, marker |-> FALSE]
  OBVIOUS
<1>4. store' = store \cup {made} /\ Latest(store', key) = {made}
  BY <1>1, <1>3, InsertIs
<1>5. made.key = key /\ made.body = body
  BY <1>3
<1>6. past \subseteq past' /\ made \in Every(past')
  <2>1. past \subseteq past'
    BY DEF Record
  <2>2. store' \subseteq Every(past')
    BY <1>2 DEF Kept, Every
  <2> QED BY <1>4, <2>1, <2>2
<1>7. /\ Serving(job') /\ Attended' /\ job'.at = "back" /\ job'.call = job.call
      /\ job'.req = job.req /\ job'.info = j.info /\ job'.parts = j.parts
  BY CommittedServes
<1> QED BY <1>2, <1>4, <1>5, <1>6, <1>7 DEF Leaves

\* The copy is of the version examined: it is named by its id, and no id is used twice.
LEMMA CopyObjectStep ==
    ASSUME Inv, copy_object
    PROVE  Inv'
<1> DEFINE r == job.req
           found == head(store, r.key, copy_source.version)
           o == CHOOSE v \in found : TRUE
<1>1. /\ job.at = "run" /\ job.call = "copy_object" /\ IsJob(job) /\ job.error = "none"
      /\ Kept /\ r.op = "CopyObject" /\ IsRequest(r) /\ Pending(job, "copy_object")
  <2>1. "copy_object" \in Calls(r)
    BY RunningIs DEF copy_object
  <2>2. r.op = "CopyObject"
    BY <2>1 DEF Calls
  <2> QED BY <2>2, RunningIs DEF copy_object, Inv
<1>2. copy_source.version = Pinned
  BY DEF copy_source
<1>3. found = {} \/ \E v \in Seen(r, past) : found = {v} /\ Permitted(r, v)
  <2>1. CASE job.info = {} /\ r.cond = NoCondition
    <3>1. Pinned = r.version /\ Single(r.version)
      BY <1>1, <2>1 DEF Pinned, IsRequest
    <3>2. found = {} \/ \E v \in Seen(r, past) : found = {v}
      BY <1>1, <1>2, <3>1, HeadFinds
    <3>3. \A v : Permitted(r, v)
      BY <2>1, NoConditionHolds DEF Permitted
    <3> QED BY <3>2, <3>3
  <2>2. ASSUME NEW v \in Seen(r, past), job.info = {v}, Permitted(r, v)
        PROVE  found = {} \/ (found = {v} /\ Permitted(r, v))
    <3>1. Pinned = {v.id}
      BY <2>2 DEF Pinned
    <3> QED BY <1>1, <1>2, <2>2, <3>1, HeadAgain
  <2> QED BY <1>1, <2>1, <2>2 DEF Inv, Progress, Copying
<1>4. r.op \notin Reader
  BY <1>1 DEF Reader
<1>5. CASE found = {}
  <2>1. Raise(Missing(copy_source.version)) /\ ReadOnly
    BY <1>5 DEF copy_object
  <2> QED BY <1>1, <1>4, <2>1, NotMissing, RaiseStep
<1>6. CASE found # {} /\ \E e \in copy_source.etag : e # o.body
  <2>1. Raise("PreconditionFailed") /\ ReadOnly
    BY <1>6 DEF copy_object
  <2> QED BY <1>1, <1>4, <2>1, RaiseStep
<1>7. CASE found # {} /\ ~ \E e \in copy_source.etag : e # o.body
  <2>1. PICK v \in Seen(r, past) : found = {v} /\ Permitted(r, v)
    BY <1>3, <1>7
  <2>2. o = v /\ IsVersion(v)
    BY <1>1, <2>1, ChooseOne, SeenKept
  <2>3. /\ Insert(r.to, v.body, FALSE) /\ Committed([job EXCEPT !.info = Latest(store', r.to)])
        /\ Record(store', upload) /\ UNCHANGED <<upload, recovery, shared, writes, todo>>
    <3> HIDE DEF o, found
    <3>1. copy_object =>
            CASE found = {} -> Raise(Missing(copy_source.version)) /\ ReadOnly
              [] found # {} /\ \E e \in copy_source.etag : e # o.body ->
                   Raise("PreconditionFailed") /\ ReadOnly
              [] OTHER ->
                   /\ Insert(r.to, o.body, FALSE)
                   /\ Committed([job EXCEPT !.info = Latest(store', r.to)])
                   /\ Record(store', upload)
                   /\ UNCHANGED <<upload, recovery, shared, writes, todo>>
      BY DEF copy_object, o, found
    <3>2. /\ Insert(r.to, o.body, FALSE)
          /\ Committed([job EXCEPT !.info = Latest(store', r.to)])
          /\ Record(store', upload)
          /\ UNCHANGED <<upload, recovery, shared, writes, todo>>
      BY <1>7, <3>1
    <3> QED BY <2>2, <3>2
  <2>4. IsUpload(upload') /\ upload'.algorithm = upload.algorithm /\ Record(store', upload')
    BY <1>1, <2>3 DEF Kept
  <2>5. v.body \in Seq(Nat)
    BY <2>2 DEF IsVersion
  <2>6. /\ Kept' /\ Serving(job') /\ Attended' /\ past \subseteq past'
        /\ job'.at = "back" /\ job'.call = job.call /\ job'.req = job.req
        /\ \E made \in Every(past') : made.key = r.to /\ made.body = v.body /\ job'.info = {made}
    <3>1. shared' = shared /\ writes' = writes /\ job.call # "lookup_credential" /\ job.at = "run"
      BY <1>1, <2>3
    <3> DEFINE j == [job EXCEPT !.info = Latest(store', r.to)]
    <3>2. /\ IsJob(j) /\ j.req = job.req /\ j.call = job.call /\ j.error = "none"
          /\ j.info = Latest(store', r.to) /\ j.parts = job.parts
      BY <1>1, WithInfo
    <3>3. Insert(r.to, v.body, FALSE) /\ Committed(j)
      BY <2>3
    <3> HIDE DEF j
    <3>4. Makes(r.to, v.body, j)
      BY <2>3, <2>4, <2>5, <3>1, <3>2, <3>3 DEF Makes
    <3>5. Leaves(r.to, v.body)
      BY <3>1, <3>4, MadeIs
    <3> QED BY <3>5 DEF Leaves
  <2>7. v \in Seen(r, past')
    BY <2>6, SeenGrows
  <2>8. \E made \in Every(past') : job'.info = {made} /\ CopyMade(r, made, past')
    BY <2>1, <2>6, <2>7 DEF CopyMade
  <2>9. Progress(job', past', upload'.algorithm)
    BY <1>1, <1>4, <2>6, <2>8 DEF Progress, Reading, Copying, Completing, Done, Pending
  <2> QED BY <2>3, <2>6, <2>9 DEF Inv
<1> QED BY <1>5, <1>6, <1>7

\* The parts named are stored with the ETags named.
LEMMA DigestsNamed ==
    ASSUME NEW r, NEW u, IsUpload(u),
           \A i \in DOMAIN r.parts : Digests(r, u.parts)[i] = {r.parts[i].etag}
    PROVE  \A i \in DOMAIN r.parts : [n |-> r.parts[i].n, body |-> r.parts[i].etag] \in u.parts
<1> TAKE i \in DOMAIN r.parts
<1>1. Digests(r, u.parts)[i] = {p.body : p \in {q \in u.parts : q.n = r.parts[i].n}}
  BY DEF Digests
<1>2. r.parts[i].etag \in {p.body : p \in {q \in u.parts : q.n = r.parts[i].n}}
  BY <1>1
<1>3. PICK p \in u.parts : p.n = r.parts[i].n /\ p.body = r.parts[i].etag
  BY <1>2
<1>4. p = [n |-> p.n, body |-> p.body]
  BY DEF IsUpload
<1> QED BY <1>3, <1>4

\* The parts completed are those named, with the digests validated.
LEMMA CompleteMultipartStep ==
    ASSUME Inv, complete_multipart
    PROVE  Inv'
<1> DEFINE r == job.req
           named == r.parts
           stored == Digests(r, upload.parts)
           body == FlattenSeq([i \in DOMAIN named |-> named[i].etag])
           j == [job EXCEPT !.info = Latest(store', upload.key)]
           code ==
             CASE ~upload.live -> "NoSuchUpload"
               [] upload.live /\ ~Supported -> "InvalidArgument"
               [] upload.live /\ Supported /\ named = <<>> -> "InvalidPart"
               [] /\ upload.live /\ Supported
                  /\ \E i \in 2 .. Len(named) : named[i - 1].n >= named[i].n -> "InvalidPartOrder"
               [] OTHER ->
                    CASE \E i \in DOMAIN named : stored[i] # {named[i].etag} -> "InvalidPart"
                      [] /\ upload.algorithm = "SHA256"
                         /\ \A i \in DOMAIN named : stored[i] = {named[i].etag}
                         /\ \/ \E i \in DOMAIN named : stored[i] # named[i].sha
                            \/ stored # Digests(r, job.parts) -> "BadDigest"
                      [] OTHER -> "none"
<1>1. /\ job.at = "run" /\ job.call = "complete_multipart" /\ IsJob(job) /\ job.error = "none"
      /\ Kept /\ r.op = "CompleteMultipartUpload" /\ IsRequest(r)
      /\ Pending(job, "complete_multipart")
  <2>1. "complete_multipart" \in Calls(r)
    BY RunningIs DEF complete_multipart
  <2>2. r.op = "CompleteMultipartUpload"
    BY <2>1 DEF Calls
  <2> QED BY <2>2, RunningIs DEF complete_multipart, Inv
<1>2. r.op \notin Reader
  BY <1>1 DEF Reader
<1>3. IF code # "none"
      THEN Raise(code) /\ ReadOnly
      ELSE /\ Insert(upload.key, body, FALSE)
           /\ upload' = [upload EXCEPT !.live = FALSE, !.parts = {}]
           /\ Committed(j) /\ Record(store', upload')
           /\ UNCHANGED <<recovery, shared, writes, todo>>
  BY DEF complete_multipart
<1>4. CASE code # "none"
  <2> HIDE DEF code
  <2>1. Raise(code) /\ ReadOnly
    BY <1>3, <1>4
  <2> QED BY <1>1, <1>2, <1>4, <2>1, RaiseStep
<1>5. CASE code = "none"
  <2>1. upload.live /\ \A i \in DOMAIN named : stored[i] = {named[i].etag}
    <3> HIDE DEF stored, named
    <3> QED BY <1>5
  <2>2. upload.algorithm = "SHA256" =>
          (\A i \in DOMAIN named : stored[i] = named[i].sha) /\ stored = Digests(r, job.parts)
    <3> HIDE DEF stored, named
    <3> QED BY <1>5, <2>1
  <2>3. /\ Insert(upload.key, body, FALSE)
        /\ upload' = [upload EXCEPT !.live = FALSE, !.parts = {}]
        /\ Committed(j) /\ Record(store', upload')
        /\ UNCHANGED <<recovery, shared, writes, todo>>
    <3> HIDE DEF code, body, j
    <3> QED BY <1>3, <1>5
  <2>4. IsUpload(upload) /\ [store |-> store, upload |-> upload] \in past
    BY <1>1 DEF Kept
  <2>5. IsUpload(upload') /\ upload'.algorithm = upload.algorithm
    BY <2>3, <2>4 DEF IsUpload
  <2>6. body \in Seq(Nat)
    BY <1>1, FlattenType DEF IsRequest
  <2>7. /\ IsJob(j) /\ j.req = job.req /\ j.call = job.call /\ j.error = "none"
        /\ j.info = Latest(store', upload.key) /\ j.parts = job.parts
    BY <1>1, WithInfo
  <2>8. Leaves(upload.key, body)
    <3> HIDE DEF j, body, code
    <3>1. Makes(upload.key, body, j)
      BY <2>3, <2>5, <2>6, <2>7 DEF Makes
    <3> QED BY <1>1, <3>1, MadeIs
  <2>9. \A made, P : made.body = body /\ past \subseteq P =>
          Assembled(r, made, Digests(r, job.parts), P, upload.algorithm)
    <3> TAKE made, P
    <3> HAVE made.body = body /\ past \subseteq P
    <3>1. \E p \in P : p.upload.live /\ \A i \in DOMAIN r.parts :
             [n |-> r.parts[i].n, body |-> r.parts[i].etag] \in p.upload.parts
      <4>1. \A i \in DOMAIN r.parts : [n |-> r.parts[i].n, body |-> r.parts[i].etag] \in upload.parts
        BY <2>1, <2>4, DigestsNamed
      <4>2. PICK p \in P : p = [store |-> store, upload |-> upload]
        BY <2>4
      <4>3. p.upload = upload
        BY <4>2
      <4> QED BY <2>1, <4>1, <4>3
    <3>2. ASSUME upload.algorithm = "SHA256"
          PROVE  /\ \A i \in DOMAIN r.parts : r.parts[i].sha = {r.parts[i].etag}
                 /\ Digests(r, job.parts) = [i \in DOMAIN r.parts |-> {r.parts[i].etag}]
                 /\ r.composite = {Digests(r, job.parts)}
      <4>1. \A i \in DOMAIN r.parts : r.parts[i].sha = {r.parts[i].etag}
        <5> HIDE DEF stored
        <5> QED BY <2>1, <2>2, <3>2
      <4>2. stored = [i \in DOMAIN r.parts |-> {r.parts[i].etag}]
        <5>1. stored = [i \in DOMAIN r.parts |-> stored[i]]
          BY DEF Digests
        <5> HIDE DEF stored
        <5> QED BY <2>1, <5>1
      <4>3. Vouched(r, job.parts, upload.algorithm)
        BY <1>1 DEF Inv, Progress, Completing
      <4>4. r.composite = {Digests(r, job.parts)}
        BY <3>2, <4>3 DEF Vouched
      <4> QED BY <2>2, <3>2, <4>1, <4>2, <4>4
    <3> QED BY <3>1, <3>2 DEF Assembled
  <2>10. Progress(job', past', upload'.algorithm)
    <3> HIDE DEF body, j, stored, code
    <3>1. /\ past \subseteq past' /\ job'.at = "back" /\ job'.call = "complete_multipart"
          /\ job'.req = r /\ job'.parts = job.parts
      BY <1>1, <2>8 DEF Leaves
    <3>2. PICK made \in Every(past') : made.body = body /\ job'.info = {made}
      BY <2>8 DEF Leaves
    <3>3. Assembled(r, made, Digests(r, job'.parts), past', upload'.algorithm)
      BY <2>5, <2>9, <3>1, <3>2
    <3>4. Completing(job', past', upload'.algorithm)
      BY <3>1, <3>2, <3>3 DEF Completing, Done, Pending
    <3>5. Reading(job', past') /\ Copying(job', past')
      BY <1>1, <1>2, <3>1 DEF Reading, Copying
    <3> QED BY <3>4, <3>5 DEF Progress
  <2> HIDE DEF body
  <2> QED BY <2>3, <2>8, <2>10 DEF Inv, Leaves
<1> QED BY <1>4, <1>5

-----------------------------------------------------------------------------
(* Other clients.                                                          *)

\* The history after a write that makes no version.
LEMMA NoInsertKeeps ==
    ASSUME Kept, store' \subseteq store, nextId' = nextId,
           Record(store', upload'), IsUpload(upload'), upload'.algorithm = upload.algorithm,
           writes' \in 0 .. MaxWrites, UNCHANGED shared
    PROVE  Kept'
<1>1. past' = past \cup {[store |-> store', upload |-> upload']}
  BY DEF Record
<1>2. Every(past') \subseteq Every(past)
  <2>1. store' \subseteq Every(past)
    BY StoreKept
  <2>2. \A p \in past' : p \in past \/ p.store = store'
    BY <1>1
  <2> QED BY <2>1, <2>2 DEF Every
<1>3. IsFiniteSet(store')
  BY FS_Subset DEF Kept
<1>4. \A p \in past' : IsUpload(p.upload) /\ p.upload.algorithm = upload'.algorithm
  BY <1>1 DEF Kept
<1>5. [store |-> store', upload |-> upload'] \in past'
  BY <1>1
<1>6. /\ \A o \in Every(past') : IsVersion(o) /\ o.id < nextId'
      /\ \A o, v \in Every(past') : o.id = v.id => o = v
  BY <1>2 DEF Kept
<1>7. nextId' \in Nat /\ \A w \in shared' : w.body \in Seq(Nat)
  BY DEF Kept
<1> QED BY <1>3, <1>4, <1>5, <1>6, <1>7 DEF Kept

\* The request in hand keeps what it holds while others write.
LEMMA OtherWriteStep ==
    ASSUME Inv, OtherWrite, Kept', upload'.algorithm = upload.algorithm
    PROVE  Inv'
<1>1. job' = job /\ session' = session /\ todo' = todo /\ past \subseteq past'
  BY DEF OtherWrite, Record
<1>2. Serving(job') /\ Attended' /\ todo' \in Seq(Requests)
  BY <1>1 DEF Inv, Attended
<1>3. Progress(job, past, upload.algorithm)
  BY DEF Inv
<1>4. Progress(job', past', upload'.algorithm)
  BY <1>1, <1>3, ProgressGrows
<1> QED BY <1>2, <1>4 DEF Inv

\* What every write of another client does.
LEMMA OtherWriteIs ==
    ASSUME Inv, OtherWrite
    PROVE  /\ Kept /\ IsUpload(upload) /\ writes' \in 0 .. MaxWrites /\ shared' = shared
           /\ Record(store', upload')
<1>1. Kept /\ writes < MaxWrites /\ writes' = writes + 1 /\ shared' = shared /\ Record(store', upload')
  BY DEF Inv, OtherWrite
<1>2. writes \in 0 .. MaxWrites /\ MaxWrites \in Nat
  BY <1>1, ReadsAssumption DEF Kept
<1>3. IsUpload(upload)
  BY <1>1 DEF Kept
<1> QED BY <1>1, <1>2, <1>3

\* A version is written by another client: put, and delete with its marker.
LEMMA PutStep ==
    ASSUME Inv, NEW key, NEW body \in Seq(Nat), NEW marker \in BOOLEAN,
           Insert(key, body, marker), upload' = upload, OtherWrite
    PROVE  Inv'
<1>1. /\ Kept /\ IsUpload(upload) /\ writes' \in 0 .. MaxWrites /\ shared' = shared
      /\ Record(store', upload')
  BY OtherWriteIs
<1>2. Kept'
  BY <1>1, InsertKeeps
<1> QED BY <1>2, OtherWriteStep

\* A version is deleted, a part uploaded or the upload aborted.
LEMMA NoInsertStep ==
    ASSUME Inv, store' \subseteq store, nextId' = nextId, IsUpload(upload'),
           upload'.algorithm = upload.algorithm, OtherWrite
    PROVE  Inv'
<1>1. Kept /\ writes' \in 0 .. MaxWrites /\ shared' = shared /\ Record(store', upload')
  BY OtherWriteIs
<1>2. Kept'
  BY <1>1, NoInsertKeeps
<1> QED BY <1>2, OtherWriteStep

\* Each write of another client keeps the invariant.
LEMMA OthersStep ==
    ASSUME Inv, Others
    PROVE  Inv'
<1>1. ASSUME NEW w \in shared, put(w.key, w.body) PROVE Inv'
  <2>1. w.body \in Seq(Nat) /\ FALSE \in BOOLEAN
    BY DEF Inv, Kept
  <2>2. Insert(w.key, w.body, FALSE) /\ upload' = upload /\ OtherWrite
    BY <1>1 DEF put
  <2> QED BY <2>1, <2>2, PutStep
<1>2. ASSUME NEW key, delete(key) PROVE Inv'
  <2>1. <<>> \in Seq(Nat) /\ TRUE \in BOOLEAN
    OBVIOUS
  <2>2. Insert(key, <<>>, TRUE) /\ upload' = upload /\ OtherWrite
    BY <1>2 DEF delete
  <2> QED BY <2>1, <2>2, PutStep
<1>3. ASSUME NEW o, delete_version(o) PROVE Inv'
  <2>1. store' \subseteq store /\ nextId' = nextId /\ upload' = upload /\ OtherWrite
    BY <1>3 DEF delete_version
  <2>2. IsUpload(upload)
    BY DEF Inv, Kept
  <2> QED BY <2>1, <2>2, NoInsertStep
<1>4. ASSUME NEW n, NEW body, put_part(n, body) PROVE Inv'
  <2>1. /\ upload' = [upload EXCEPT !.parts = {p \in @ : p.n # n} \union {[n |-> n, body |-> body]}]
        /\ store' = store /\ nextId' = nextId /\ OtherWrite
    BY <1>4 DEF put_part
  <2>2. IsUpload(upload)
    BY DEF Inv, Kept
  <2>3. IsUpload(upload') /\ upload'.algorithm = upload.algorithm
    <3> DEFINE parts == {p \in upload.parts : p.n # n} \union {[n |-> n, body |-> body]}
    <3>1. \A p \in parts : p = [n |-> p.n, body |-> p.body]
      BY <2>2 DEF IsUpload
    <3>2. upload' = [upload EXCEPT !.parts = parts]
      BY <2>1
    <3> HIDE DEF parts
    <3>3. upload' = [live |-> upload.live, algorithm |-> upload.algorithm, key |-> upload.key,
                     parts |-> parts]
      BY <2>2, <3>2 DEF IsUpload
    <3> QED BY <3>1, <3>3 DEF IsUpload
  <2> QED BY <2>1, <2>3, NoInsertStep
<1>5. ASSUME abort_upload PROVE Inv'
  <2>1. /\ upload' = [upload EXCEPT !.live = FALSE, !.parts = {}]
        /\ store' = store /\ nextId' = nextId /\ OtherWrite
    BY <1>5 DEF abort_upload
  <2>2. IsUpload(upload)
    BY DEF Inv, Kept
  <2>3. IsUpload(upload') /\ upload'.algorithm = upload.algorithm
    BY <2>1, <2>2 DEF IsUpload
  <2> QED BY <2>1, <2>3, NoInsertStep
<1> QED BY <1>1, <1>2, <1>3, <1>4, <1>5 DEF Others

-----------------------------------------------------------------------------
(* The invariant, from the first state and over every step.                *)

\* The invariant holds at first, before any request.
LEMMA InitInv == Init => Inv
<1> SUFFICES ASSUME Init PROVE Inv
  OBVIOUS
<1>1. PICK s \in Scripts :
        /\ store = s.store /\ nextId = Cardinality(s.store) + 1 /\ upload = s.upload
        /\ shared = s.shared /\ todo = s.requests /\ writes = 0
        /\ job = [Begun(Head(s.requests), <<>>) EXCEPT !.at = "answered"]
        /\ session = Idle /\ past = {[store |-> s.store, upload |-> s.upload]}
  BY DEF Init
<1>2. /\ IsFiniteSet(store) /\ IsUpload(upload) /\ MaxWrites \in Nat
      /\ \A o \in store : IsVersion(o) /\ o.id <= Cardinality(store)
      /\ \A o, p \in store : o.id = p.id => o = p
      /\ \A w \in shared : w.body \in Seq(Nat)
      /\ todo \in Seq(Requests) /\ todo # <<>>
  BY <1>1, ReadsAssumption
<1>3. Head(todo) \in Requests
  BY <1>2, HeadTailProperties
<1>4. IsRequest(Head(todo)) /\ Head(todo).role \in Roles
  BY <1>3, ReadsAssumption DEF Roles
<1>5. Cardinality(store) \in Nat
  BY <1>2, FS_CardinalityType
<1>6. Kept
  <2>1. past = {[store |-> store, upload |-> upload]}
    BY <1>1
  <2>2. Every(past) = store
    <3>1. \A p \in past : p.store = store
      BY <2>1
    <3> QED BY <2>1, <3>1 DEF Every
  <2>3. \A p \in past : IsUpload(p.upload) /\ p.upload.algorithm = upload.algorithm
    BY <1>2, <2>1
  <2>4. nextId \in Nat /\ \A o \in store : IsVersion(o) /\ o.id < nextId
    <3>1. \A o \in store : IsVersion(o) /\ o.id \in Nat
      BY <1>2 DEF IsVersion
    <3> QED BY <1>1, <1>2, <1>5, <3>1
  <2>5. writes \in 0 .. MaxWrites
    BY <1>1, <1>2
  <2> QED BY <1>2, <2>1, <2>2, <2>3, <2>4, <2>5 DEF Kept
<1>7. /\ IsJob(job) /\ job.at = "answered" /\ job.req = Head(todo) /\ job.answer.status = 0
  BY <1>1 DEF IsJob, Begun, NoAnswer
<1>8. Serving(job)
  BY <1>4, <1>7 DEF Serving, Active
<1>9. Attended
  BY <1>1, <1>7 DEF Attended, Idle, Roles
<1>10. Progress(job, past, upload.algorithm)
  BY <1>7 DEF Progress, Reading, Copying, Completing, Done, Pending, Active
<1> QED BY <1>2, <1>6, <1>8, <1>9, <1>10 DEF Inv

\* Nothing happens.
LEMMA StutterStep ==
    ASSUME Inv, UNCHANGED vars
    PROVE  Inv'
<1>1. /\ store' = store /\ nextId' = nextId /\ upload' = upload /\ shared' = shared
      /\ writes' = writes /\ todo' = todo /\ job' = job /\ session' = session /\ past' = past
  BY DEF vars
<1>2. Kept' /\ Attended'
  BY <1>1 DEF Inv, Kept, Attended
<1> QED BY <1>1, <1>2 DEF Inv

\* Every step keeps the invariant.
LEMMA NextInv == Inv /\ [Next]_vars => Inv'
<1> SUFFICES ASSUME Inv, [Next]_vars PROVE Inv'
  OBVIOUS
<1>1. CASE Worker
  <2>1. CASE handle_head \/ next_page \/ authorize_shape \/ authorize
    BY <2>1, HandleHeadStep, NextPageStep, AuthorizeShapeStep, AuthorizeStep
  <2>2. CASE call_failed \/ delete_marker_head_response \/ get_or_head \/ object_read
    BY <2>2, CallFailedStep, DeleteMarkerHeadStep, GetOrHeadStep, ObjectReadStep
  <2>3. CASE evaluate_copy_source_conditions \/ copied
    BY <2>3, EvaluateCopyStep, CopiedStep
  <2>4. CASE complete_after_algorithm \/ complete_after_parts \/ completed
    BY <2>4, CompleteAfterAlgorithmStep, CompleteAfterPartsStep, CompletedStep
  <2>5. CASE list_answer \/ list_parts_answer
    BY <2>5, ListAnswerStep, ListPartsAnswerStep
  <2>6. CASE with_request_context \/ catch_others
    BY <2>6, WithRequestContextStep, CatchOthersStep
  <2>7. CASE lookup_credential \/ head_object \/ current_delete_marker
    BY <2>7, LookupCredentialStep, HeadObjectStep, CurrentDeleteMarkerStep
  <2>8. CASE get_object \/ get_range \/ copy_object
    BY <2>8, GetObjectStep, GetRangeStep, CopyObjectStep
  <2>9. CASE multipart_checksum_algorithm \/ list_parts \/ complete_multipart
    BY <2>9, MultipartChecksumStep, ListPartsStep, CompleteMultipartStep
  <2>10. CASE list_objects \/ list_versions_call \/ probe
    BY <2>10, ListObjectsStep, ListVersionsStep, ProbeStep
  <2> QED
    BY <1>1, <2>1, <2>2, <2>3, <2>4, <2>5, <2>6, <2>7, <2>8, <2>9, <2>10 DEF Worker
<1>2. CASE statement_timeout
  BY <1>2, StatementTimeoutStep
<1>3. CASE decode_fails
  BY <1>3, DecodeFailsStep
<1>4. CASE Others
  BY <1>4, OthersStep
<1>5. CASE UNCHANGED vars
  BY <1>5, StutterStep
<1> QED BY <1>1, <1>2, <1>3, <1>4, <1>5 DEF Next

\* The invariant holds in every reachable state.
LEMMA SpecInv == Spec => []Inv
BY InitInv, NextInv, PTL DEF Spec

-----------------------------------------------------------------------------
(* Theorems.                                                               *)

\* As many ids as versions.
LEMMA IdsCounted ==
    ASSUME Kept
    PROVE  Cardinality({o.id : o \in store}) = Cardinality(store)
<1> DEFINE T == {o.id : o \in store}
           f == [o \in store |-> o.id]
<1>1. f \in [store -> T]
  OBVIOUS
<1>2. \A a, b \in store : f[a] = f[b] => a = b
  BY StoreKept
<1>3. f \in Injection(store, T)
  BY <1>1, <1>2 DEF Injection, IsInjective
<1>4. f \in Surjection(store, T)
  BY <1>1 DEF Surjection
<1>5. ExistsBijection(store, T)
  BY <1>3, <1>4 DEF ExistsBijection, Bijection
<1>6. IsFiniteSet(store)
  BY DEF Kept
<1> QED BY <1>5, <1>6, FS_Bijection

\* The session of the worker is open exactly while a statement runs or fails,
\* with its timer armed, and ids of versions are unique and below the
\* sequence, for any requests and any writes of others (transaction and
\* with_request_context in db.rs).
THEOREM ReadsTyped == Spec => []TypeOK
<1>1. Inv => TypeOK
  <2> SUFFICES ASSUME Inv PROVE TypeOK
    OBVIOUS
  <2>1. Kept /\ Serving(job) /\ Attended
    BY DEF Inv
  <2>2. Cardinality({o.id : o \in store}) = Cardinality(store)
    BY <2>1, IdsCounted
  <2>3. \A o \in store : o.id < nextId
    BY <2>1, StoreKept
  <2>4. job.at \in {"answered", "head", "open", "run", "probe", "abort", "back"}
    BY <2>1 DEF Serving, Active
  <2>5. session.timer => session.open
    BY <2>1 DEF Attended, Idle
  <2> QED BY <2>1, <2>2, <2>3, <2>4, <2>5 DEF TypeOK, Kept, Attended
<1> QED BY <1>1, SpecInv, PTL

\* A statement runs as the server for the lookup of a credential and as the
\* tenant whose signature was verified for everything else, and no role
\* outlives its transaction, errors and timeouts included
\* (with_request_context in db.rs, authorize in service.rs).
THEOREM TenantIsIsolated == Spec => []TenantIsolation
<1>1. Inv => TenantIsolation
  <2> SUFFICES ASSUME Inv PROVE TenantIsolation
    OBVIOUS
  <2>1. ~session.open => session.role = server
    BY DEF Inv, Attended, Idle
  <2>2. job.at \in {"run", "probe"} /\ job.call # "lookup_credential" => job.req.auth = "good"
    BY DEF Inv, Serving, Active
  <2> QED BY <2>1, <2>2 DEF Inv, Attended, TenantIsolation
<1> QED BY <1>1, SpecInv, PTL

\* An answer to GET or HEAD is one version's, in its headers, its verdict on
\* the preconditions, its range and its bytes, and that version was read while
\* the request was served, however the store was written between the
\* transactions of the request (get_or_head in service.rs).
THEOREM ReadsAreConsistent == Spec => []ReadConsistent
<1>1. Inv => ReadConsistent
  <2> SUFFICES ASSUME Inv, NEW op \in {"GetObject", "HeadObject"}, Answered(op)
               PROVE  LET a == job.answer
                          r == job.req
                          seen == UNION {head(S, r.key, r.version) : S \in Stores}
                      IN  CASE a.status \in {200, 206, 304} -> \E o \in seen : Justified(a, r, o)
                            [] a.status = 412 -> \E o \in seen : ~Unchanged(r.cond, o)
                            [] a.status = 416 ->
                                 \E o \in seen : /\ Unchanged(r.cond, o) /\ Fresh(r.cond, o)
                                                 /\ \E s \in r.range : Selected(s, Len(o.body)) = {}
                            [] a.status = 404 ->
                                 /\ \/ \E S \in Stores : head(S, r.key, r.version) = {}
                                    \/ /\ a.code = "NoSuchVersion"
                                       /\ \E o \in seen, S \in Stores : o \notin S
                                 /\ \A v \in a.marker : \E S \in Stores : \E o \in Latest(S, r.key) :
                                       o.marker /\ o.id = v
                            [] OTHER -> TRUE
    BY DEF ReadConsistent
  <2> DEFINE a == job.answer
             r == job.req
             seen == UNION {head(S, r.key, r.version) : S \in Stores}
  <2>1. seen = Seen(r, past)
    BY DEF Seen, Stores
  <2>2. Consistent(job, past)
    BY DEF Inv, Progress, Reading, Answered, Reader
  <2>3. \A e : Absent(r, e, past) =>
          \/ \E S \in Stores : head(S, r.key, r.version) = {}
          \/ e = "NoSuchVersion" /\ \E o \in seen, S \in Stores : o \notin S
    BY <2>1 DEF Absent, Stores
  <2>4. \A v : (\E p \in past : \E o \in Latest(p.store, r.key) : o.marker /\ o.id = v) =>
               \E S \in Stores : \E o \in Latest(S, r.key) : o.marker /\ o.id = v
    BY DEF Stores
  <2> HIDE DEF seen
  <2> QED BY <2>1, <2>2, <2>3, <2>4 DEF Consistent, seen
<1> QED BY <1>1, SpecInv, PTL

\* A copy under preconditions is the copy of a version that met them and that
\* was the source while the request was served (dispatch of CopyObject in
\* service.rs with the version and the ETag that HEAD has seen).
THEOREM CopiesAreGuarded == Spec => []CopyGuarded
<1>1. Inv => CopyGuarded
  <2> SUFFICES ASSUME Inv, Answered("CopyObject"), job.answer.status = 200
               PROVE  \E made \in UNION Stores :
                        /\ made.id = job.answer.version /\ made.key = job.req.to
                        /\ \E S \in Stores : \E o \in head(S, job.req.key, job.req.version) :
                             /\ o.body = made.body
                             /\ Unchanged(job.req.cond, o)
                             /\ \A m \in job.req.cond.none :
                                  ~m.any /\ \A t \in m.tags : t.opaque # o.body
    BY DEF CopyGuarded
  <2>1. PICK made \in Every(past) : made.id = job.answer.version /\ CopyMade(job.req, made, past)
    BY DEF Inv, Progress, Copying, Answered
  <2>2. PICK o \in Seen(job.req, past) : o.body = made.body /\ Permitted(job.req, o)
    BY <2>1 DEF CopyMade
  <2>3. \E S \in Stores : o \in head(S, job.req.key, job.req.version)
    BY DEF Seen, Stores
  <2>4. made \in UNION Stores
    BY DEF Every, Stores
  <2> QED BY <2>1, <2>2, <2>3, <2>4 DEF CopyMade, Permitted
<1> QED BY <1>1, SpecInv, PTL

\* A completed upload is what its client named, in order, with the ETags and
\* for an upload with checksums the SHA-256s and the composite named, though
\* parts may be uploaded again between the validation and the completion
\* (dispatch of CompleteMultipartUpload in service.rs, complete_multipart in
\* bootstrap.sql).
THEOREM CompletionsAreGuarded == Spec => []CompletionGuarded
<1>1. Inv => CompletionGuarded
  <2> SUFFICES ASSUME Inv, Answered("CompleteMultipartUpload"), job.answer.status = 200
               PROVE  CompletionGuarded
    BY DEF CompletionGuarded
  <2> DEFINE named == job.req.parts
  <2>1. PICK made \in Every(past) :
          /\ made.id = job.answer.version
          /\ Assembled(job.req, made, job.answer.composite, past, upload.algorithm)
    BY DEF Inv, Progress, Completing, Answered
  <2>2. made \in UNION Stores
    BY DEF Every, Stores
  <2>3. (\E p \in past : p.upload.algorithm = "SHA256") => upload.algorithm = "SHA256"
    BY DEF Inv, Kept
  <2> QED BY <2>1, <2>2, <2>3 DEF Assembled, CompletionGuarded
<1> QED BY <1>1, SpecInv, PTL

=============================================================================
