------------------------------ MODULE Listing ------------------------------
(***************************************************************************)
(* pgs3.list and pgs3.list_versions: pages of a bucket, with a prefix, a   *)
(* delimiter that folds keys into common prefixes, and a cursor from which *)
(* the next page goes on.  Every operator is the answer of one statement   *)
(* on one snapshot.                                                        *)
(*                                                                         *)
(* A string is a sequence of code points, compared as COLLATE "C" does.  A *)
(* value that may be NULL or absent is a set of at most one element.  An   *)
(* object version is [key, id, body, marker]; ids are never reused, so the *)
(* latest version of a key is the one with the greatest id.                *)
(***************************************************************************)
EXTENDS Integers, Sequences, FiniteSets, SequencesExt

CONSTANT MaxChar    \* the greatest code point (1114111 in the code)

ASSUME MaxCharAssumption == MaxChar \in Nat \ {0}

----------------------------------------------------------------------------
(* Strings.                                                                *)

Less(s, t) ==
    \E i \in 1 .. Len(t) :
       /\ Len(s) >= i - 1
       /\ \A j \in 1 .. i - 1 : s[j] = t[j]
       /\ Len(s) = i - 1 \/ s[i] < t[i]

AtMost(s, t) == s = t \/ Less(s, t)

\* The least string above every string that starts with p: NULL when there
\* is none.  (The hole of the surrogates in the code points is left out.)
PrefixEnd(p) ==
    LET raisable == {i \in DOMAIN p : p[i] < MaxChar}
        last     == Max(raisable)
    IN  IF raisable = {} THEN {}
        ELSE {Append(SubSeq(p, 1, last - 1), p[last] + 1)}

\* Where the delimiters end that follow the prefix asked for.
Cuts(key, q) ==
    {c \in Len(q.prefix) + 1 .. Len(key) :
       \E d \in q.delimiter :
          /\ c - Len(d) >= Len(q.prefix)
          /\ SubSeq(key, c - Len(d) + 1, c) = d}

IsFolded(key, q) == Cuts(key, q) # {}

\* The name under which a key is listed: itself, or the common prefix that
\* ends with the first delimiter after the prefix.
Fold(key, q) ==
    IF IsFolded(key, q) THEN SubSeq(key, 1, Min(Cuts(key, q))) ELSE key

----------------------------------------------------------------------------
(* The objects of a bucket.                                                *)

Latest(S, key) ==
    {o \in S : o.key = key /\ \A p \in S : p.key = key => p.id <= o.id}

Current(S) == {o \in S : o \in Latest(S, o.key) /\ ~o.marker}

----------------------------------------------------------------------------
(* The index-jump scan.  A position is [seek, version, inclusive]; a row   *)
(* is [name, version, folded, next], next being where the scan goes on.    *)

Reached(o, at) ==
    IF at.inclusive
    THEN AtMost(at.seek, o.key)
    ELSE \/ Less(at.seek, o.key)
         \/ o.key = at.seek /\ \E v \in at.version : o.id < v

Under(key, prefix) == \A upper \in PrefixEnd(prefix) : Less(key, upper)

Before(o, p) == Less(o.key, p.key) \/ (o.key = p.key /\ o.id >= p.id)

\* The row of a version that is found, and where to jump to from there.
RowOf(o, q, versioned) ==
    LET name == Fold(o.key, q)
    IN  IF IsFolded(o.key, q)
        THEN [name |-> name, version |-> {}, folded |-> TRUE,
              next |-> {[seek |-> s, version |-> {}, inclusive |-> TRUE] : s \in PrefixEnd(name)}]
        ELSE [name |-> name, version |-> {o.id}, folded |-> FALSE,
              next |-> {[seek |-> o.key, version |-> IF versioned THEN {o.id} ELSE {},
                         inclusive |-> FALSE]}]

\* One iteration of the loop finds the next version, emits it or its common
\* prefix, and jumps; a common prefix that is not above `skip` is passed over.
\* A full page, a NULL position or nothing found ends the loop.  (States of
\* the loop are in sets of one, for TLC to compute each of them once.)
Iterate(S, q, skip, max, versioned, scan) ==
    LET found == {o \in S : /\ Under(o.key, q.prefix)
                            /\ \E p \in scan.at : Under(p.seek, q.prefix) /\ Reached(o, p)}
        first == {o \in found : \A other \in found : Before(o, other)}
        passed(row) == row.folded /\ \E s \in skip : AtMost(row.name, s)
    IN  IF Len(scan.rows) = max \/ found = {} THEN {scan}
        ELSE {[at   |-> row.next,
               rows |-> IF passed(row) THEN scan.rows ELSE Append(scan.rows, row)] :
                row \in {RowOf(o, q, versioned) : o \in first}}

\* The loop jumps beyond what it has found, so no iteration finds anything
\* after as many as there are versions.
Scan(S, q, skip, at, max, versioned) ==
    LET after[n \in Nat] ==
            IF n = 0 THEN {[at |-> at, rows |-> <<>>]}
            ELSE UNION {Iterate(S, q, skip, max, versioned, scan) : scan \in after[n - 1]}
    IN  CHOOSE rows \in {scan.rows : scan \in after[Cardinality(S)]} : TRUE

\* Where a listing with a marker starts: a marker below the prefix is no
\* marker, any other is exclusive.
StartAt(q, marker, version) ==
    IF \E m \in marker : AtMost(q.prefix, m)
    THEN {[seek |-> m, version |-> version, inclusive |-> FALSE] : m \in marker}
    ELSE {[seek |-> q.prefix, version |-> {}, inclusive |-> TRUE]}

\* Variant: a token is a key and always exclusive.
list_exclusive(S, q, startAfter, token, max) ==
    LET at   == IF token # {} THEN {[t EXCEPT !.inclusive = FALSE] : t \in token}
                ELSE StartAt(q, startAfter, {})
        rows == Scan(Current(S), q, startAfter, at, max, FALSE)
    IN  [i \in DOMAIN rows |->
           [rows[i] EXCEPT !.next = IF i = max THEN @ ELSE {}]]

\* Only the row that fills the page carries a continuation token, and a token
\* has the seek key and whether it is inclusive.
list(S, q, startAfter, token, max) ==
    LET at   == IF token # {} THEN token ELSE StartAt(q, startAfter, {})
        rows == Scan(Current(S), q, startAfter, at, max, FALSE)
    IN  [i \in DOMAIN rows |->
           [rows[i] EXCEPT !.next = IF i = max THEN @ ELSE {}]]

\* Every row carries next_key_marker and next_version_id_marker: a key and
\* perhaps a version, but not whether the key is inclusive.
list_versions(S, q, keyMarker, versionMarker, max) ==
    LET rows == Scan(S, q, keyMarker, StartAt(q, keyMarker, versionMarker), max, TRUE)
    IN  [i \in DOMAIN rows |->
           [rows[i] EXCEPT !.next = {[p EXCEPT !.inclusive = FALSE] : p \in @}]]

=============================================================================
