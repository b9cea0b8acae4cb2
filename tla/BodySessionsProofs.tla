------------------------- MODULE BodySessionsProofs -------------------------
(***************************************************************************)
(* The lease of an upload outlives every silence of a session that holds   *)
(* it, for all lengths of bodies, chunks and intervals; and what a session *)
(* stores is what its client sent.                                         *)
(***************************************************************************)
EXTENDS BodySessions, LeastElements, FiniteSetTheorems

-----------------------------------------------------------------------------
(* The lease.                                                              *)

\* The shape of the records: what the steps below need of the types.
Shape ==
    /\ DOMAIN session = Request /\ DOMAIN upload = Upload
    /\ \A r \in Request : DOMAIN session[r] = DOMAIN NewSession
    /\ \A u \in Upload : DOMAIN upload[u] = DOMAIN FreeRow

\* The clocks of a session that a worker holds.  Between pushes a heartbeat is
\* at most the silence late; during a push there may be one more silence.
Clocks ==
    \A r \in Request :
        LET s == session[r]
        IN /\ s.beat \in Nat /\ s.quiet \in 0 .. BodyIdle + Slack
           /\ s.upload \in Upload \cup {None} /\ (s.kind = "direct" => s.upload = None)
           /\ Active(s) /\ s.upload # None =>
                /\ s.pc \in {"read", "complete_part"} => s.beat < HeartbeatInterval + s.quiet
                /\ s.beat < HeartbeatInterval + BodyIdle + Slack + s.quiet

\* A lease is renewed no earlier than the session's heartbeat was reset.
Leases ==
    /\ \A u \in Upload : upload[u].lease \in 0 .. UploadLease
    /\ \A r \in Request :
         Active(session[r]) /\ Pending(session[r].upload) =>
             upload[session[r].upload].lease + session[r].beat >= UploadLease

\* The inductive invariant.
LeaseInvariant == Shape /\ Clocks /\ Leases

\* The invariant gives the property: the clocks of a session cannot reach the
\* length of the lease.
LEMMA LeaseImplies == LeaseInvariant => LeaseHeld
  <1> SUFFICES ASSUME LeaseInvariant, NEW r \in Request,
                      Active(session[r]), Pending(session[r].upload)
               PROVE  upload[session[r].upload].lease > 0
    BY DEF LeaseHeld
  <1>1. session[r].upload # None
    BY DEF Pending
  <1>2. session[r].upload \in Upload
    BY <1>1 DEF LeaseInvariant, Clocks
  <1> QED
    BY <1>1, <1>2, TimesAssumption, LeaseAssumption DEF LeaseInvariant, Clocks, Leases

\* A step that changes one session: what it has to keep of it.
SessionKept(r) ==
    LET s == session[r]
        t == session'[r]
    IN /\ session' = [session EXCEPT ![r] = t]
       /\ DOMAIN t = DOMAIN NewSession
       /\ t.beat \in Nat /\ t.quiet \in 0 .. BodyIdle + Slack
       /\ t.upload \in Upload \cup {None} /\ (t.kind = "direct" => t.upload = None)
       /\ Active(t) /\ t.upload # None =>
            /\ t.pc \in {"read", "complete_part"} => t.beat < HeartbeatInterval + t.quiet
            /\ t.beat < HeartbeatInterval + BodyIdle + Slack + t.quiet
            /\ \/ Active(s) /\ t.upload = s.upload /\ t.beat >= s.beat
               \/ upload'[t.upload].lease = UploadLease

\* What a step may do to an upload row: renew its lease or end it.
RowKept(u) ==
    LET row == upload'[u]
    IN /\ DOMAIN row = DOMAIN FreeRow
       /\ \/ row.lease = UploadLease
          \/ row.lease \in 0 .. UploadLease /\ row.state # "pending"

\* No other row is changed.
OnlyRow(u) ==
    DOMAIN upload' = Upload /\ \A v \in Upload \ {u} : upload'[v] = upload[v]

\* A step of one session and one row that keeps both keeps the invariant.
LEMMA StepKeeps ==
    ASSUME LeaseInvariant, NEW r \in Request, SessionKept(r),
           NEW u, OnlyRow(u), u \in Upload => RowKept(u)
    PROVE  LeaseInvariant'
  <1>1. Shape'
    BY DEF LeaseInvariant, Shape, SessionKept, RowKept, OnlyRow, NewSession, FreeRow
  <1>2. Clocks'
    BY DEF LeaseInvariant, Shape, Clocks, SessionKept, Active
  <1>3. \A v \in Upload : upload'[v].lease \in 0 .. UploadLease
    BY TimesAssumption DEF LeaseInvariant, Shape, Leases, RowKept, OnlyRow
  <1>4. ASSUME NEW q \in Request, Active(session'[q]), Pending(session[q].upload)'
        PROVE  upload'[session'[q].upload].lease + session'[q].beat >= UploadLease
    <2> DEFINE v == session'[q].upload
    <2>1. v \in Upload /\ upload'[v].state = "pending" /\ v # None
      BY <1>2, <1>4 DEF Clocks, Pending
    <2>2. session'[q].beat \in Nat
      BY <1>2 DEF Clocks
    <2>3. CASE upload'[v].lease = UploadLease
      BY <2>2, <2>3, TimesAssumption
    <2>4. CASE upload'[v] = upload[v] /\ upload'[v].lease # UploadLease
      <3>1. Pending(v)
        BY <2>1, <2>4 DEF Pending
      <3>2. CASE q # r
        BY <3>1, <3>2, <2>4, <1>4 DEF LeaseInvariant, Shape, Leases, SessionKept
      <3>3. CASE q = r
        <4>1. Active(session[r]) /\ v = session[r].upload /\ session'[r].beat >= session[r].beat
          BY <3>3, <2>1, <2>4, <1>4 DEF SessionKept
        <4>2. upload[v].lease + session[r].beat >= UploadLease
          BY <4>1, <3>1 DEF LeaseInvariant, Leases
        <4> QED
          BY <4>1, <4>2, <3>3, <2>1, <2>2, <2>4, TimesAssumption
             DEF LeaseInvariant, Leases, Clocks
      <3> QED BY <3>2, <3>3
    <2>5. upload'[v] = upload[v] \/ upload'[v].lease = UploadLease
      BY <2>1 DEF LeaseInvariant, Shape, RowKept, OnlyRow
    <2> QED BY <2>3, <2>4, <2>5
  <1> QED BY <1>1, <1>2, <1>3, <1>4 DEF LeaseInvariant, Leases

\* The same for steps that leave the sessions alone.
LEMMA RowStepKeeps ==
    ASSUME LeaseInvariant, UNCHANGED session,
           NEW u, OnlyRow(u), u \in Upload => RowKept(u)
    PROVE  LeaseInvariant'
  <1>1. Shape' /\ Clocks'
    BY DEF LeaseInvariant, Shape, Clocks, RowKept, OnlyRow, Active
  <1>2. \A v \in Upload : upload'[v].lease \in 0 .. UploadLease
    BY TimesAssumption DEF LeaseInvariant, Shape, Leases, RowKept, OnlyRow
  <1>3. ASSUME NEW q \in Request, Active(session'[q]), Pending(session[q].upload)'
        PROVE  upload'[session'[q].upload].lease + session'[q].beat >= UploadLease
    <2> DEFINE v == session[q].upload
    <2>1. v \in Upload /\ upload'[v].state = "pending" /\ session[q].beat \in Nat
      BY <1>3 DEF LeaseInvariant, Clocks, Pending
    <2>2. CASE upload'[v] = upload[v]
      BY <2>1, <2>2, <1>3 DEF LeaseInvariant, Leases, Pending, Active
    <2>3. CASE upload'[v].lease = UploadLease
      BY <2>1, <2>3, TimesAssumption
    <2>4. upload'[v] = upload[v] \/ upload'[v].lease = UploadLease
      BY <2>1 DEF LeaseInvariant, Shape, RowKept, OnlyRow
    <2> QED BY <2>2, <2>3, <2>4
  <1> QED BY <1>1, <1>2, <1>3 DEF LeaseInvariant, Leases

\* The rows that the calls leave behind.
RowNames == {"state", "multipart", "chunk", "part", "age", "lease"}

\* A row that was touched is leased.
LEMMA TouchedRow ==
    ASSUME LeaseInvariant, NEW u \in Upload
    PROVE  /\ DOMAIN FreeRow = RowNames
           /\ DOMAIN Leased(upload[u]) = RowNames /\ Leased(upload[u]).lease = UploadLease
           /\ DOMAIN Touched(upload[u]) = RowNames /\ Touched(upload[u]).lease = UploadLease
  <1>1. DOMAIN FreeRow = RowNames
    BY DEF FreeRow, RowNames
  <1>2. DOMAIN upload[u] = RowNames
    BY <1>1 DEF LeaseInvariant, Shape
  <1>3. DOMAIN Leased(upload[u]) = RowNames /\ Leased(upload[u]).lease = UploadLease
    BY <1>2 DEF Leased, RowNames
  <1>4. DOMAIN Touched(upload[u]) = RowNames /\ Touched(upload[u]).lease = UploadLease
    BY <1>3 DEF Touched, RowNames
  <1> QED BY <1>1, <1>3, <1>4

\* A new row is leased.
LEMMA NewRowKept ==
    ASSUME NEW u, NEW m, upload'[u] = NewRow(m)
    PROVE  RowKept(u) /\ upload'[u].lease = UploadLease
  BY DEF RowKept, NewRow, FreeRow

\* A deleted row is not pending.
LEMMA DeletedRowKept ==
    ASSUME NEW u, NEW row, upload'[u] = Deleted(row)
    PROVE  RowKept(u)
  BY TimesAssumption DEF RowKept, Deleted, FreeRow

\* renew_upload.
LEMMA LeasedRowKept ==
    ASSUME LeaseInvariant, NEW u \in Upload, upload'[u] = Leased(upload[u])
    PROVE  RowKept(u) /\ upload'[u].lease = UploadLease
  BY TouchedRow DEF RowKept

\* What begin_part and abort_part leave of a row.
LEMMA BegunRowKept ==
    ASSUME LeaseInvariant, NEW u \in Upload, NEW p, upload'[u] = BeginPart(upload[u], p)
    PROVE  RowKept(u) /\ upload'[u].lease = UploadLease
  <1>1. /\ DOMAIN BeginPart(upload[u], p) = RowNames
        /\ BeginPart(upload[u], p).lease = UploadLease
    BY TouchedRow DEF BeginPart, RowNames
  <1> QED BY <1>1, TouchedRow DEF RowKept

\* What complete_part leaves of a row.
LEMMA CompletedRowKept ==
    ASSUME LeaseInvariant, NEW u \in Upload, NEW p, upload'[u] = CompletePartRow(upload[u], p)
    PROVE  RowKept(u)
  <1>1. /\ DOMAIN BeginPart(upload[u], p) = RowNames
        /\ BeginPart(upload[u], p).lease = UploadLease
    BY TouchedRow DEF BeginPart, RowNames
  <1>2. /\ DOMAIN CompletePartRow(upload[u], p) = RowNames
        /\ CompletePartRow(upload[u], p).lease = UploadLease
    BY <1>1 DEF CompletePartRow, RowNames
  <1> QED BY <1>2, TouchedRow DEF RowKept

\* What put_chunk leaves of a row.
LEMMA ChunkRow ==
    ASSUME LeaseInvariant, NEW u \in Upload, NEW p, NEW n, NEW data,
           upload'[u] = PutChunk(upload[u], p, n, data)
    PROVE  RowKept(u) /\ upload'[u].lease = UploadLease
  <1>1. /\ DOMAIN PutChunk(upload[u], p, n, data) = RowNames
        /\ PutChunk(upload[u], p, n, data).lease = UploadLease
    BY TouchedRow DEF PutChunk, RowNames
  <1> QED BY <1>1, TouchedRow DEF RowKept

\* A session that has ended is not held any more.
LEMMA EndedSession ==
    ASSUME LeaseInvariant, NEW r \in Request, NEW etag, NEW pc \in {"ok", "error", "crashed"},
           session' = [session EXCEPT ![r] = Ended(session[r], pc, etag)]
    PROVE  SessionKept(r)
  <1> DEFINE t == Ended(session[r], pc, etag)
  <1>1. session'[r] = t
    BY DEF LeaseInvariant, Shape
  <1>2. /\ DOMAIN t = DOMAIN NewSession /\ t.beat = 0 /\ t.quiet = 0 /\ t.pc = pc
        /\ t.upload = session[r].upload /\ t.kind = session[r].kind
    BY DEF Ended, NewSession
  <1>3. session' = [session EXCEPT ![r] = session'[r]]
    BY <1>1
  <1>4. ~Active(session'[r])
    BY <1>1, <1>2 DEF Active
  <1>5. session[r].upload \in Upload \cup {None} /\ (session[r].kind = "direct" => session[r].upload = None)
    BY DEF LeaseInvariant, Clocks
  <1> HIDE DEF t
  <1> QED BY <1>1, <1>2, <1>3, <1>4, <1>5, TimesAssumption DEF SessionKept

\* A session whose step sets only its pc and fields that are no clocks.
LEMMA SameClocks ==
    ASSUME LeaseInvariant, NEW r \in Request, NEW t,
           session' = [session EXCEPT ![r] = t], DOMAIN t = DOMAIN NewSession,
           t.beat = session[r].beat, t.quiet = session[r].quiet,
           t.kind = session[r].kind, t.upload = session[r].upload,
           \/ ~Active(t)
           \/ /\ Active(session[r]) /\ Active(t)
              /\ \/ t.pc = session[r].pc
                 \/ session[r].pc = "read"
                 \/ t.pc \in {"stage", "renew"}
                 \/ t.upload = None
                 \/ t.beat < HeartbeatInterval
    PROVE  SessionKept(r)
  <1>1. session'[r] = t /\ session' = [session EXCEPT ![r] = session'[r]]
    BY DEF LeaseInvariant, Shape
  <1>2. /\ t.beat \in Nat /\ t.quiet \in 0 .. BodyIdle + Slack
        /\ t.upload \in Upload \cup {None} /\ (t.kind = "direct" => t.upload = None)
    BY DEF LeaseInvariant, Clocks
  <1>3. ASSUME Active(t), t.upload # None
        PROVE  /\ t.pc \in {"read", "complete_part"} => t.beat < HeartbeatInterval + t.quiet
               /\ t.beat < HeartbeatInterval + BodyIdle + Slack + t.quiet
    BY <1>2, <1>3, TimesAssumption DEF LeaseInvariant, Clocks, Active
  <1>4. Active(t) => Active(session[r]) /\ t.beat >= session[r].beat
    BY <1>2
  <1> QED BY <1>1, <1>2, <1>3, <1>4 DEF SessionKept

\* A step that changes no row, seen as a change of the row of no upload.
LEMMA NoRow ==
    ASSUME LeaseInvariant, UNCHANGED upload
    PROVE  OnlyRow(None) /\ None \notin Upload
  BY SizesAssumption DEF LeaseInvariant, Shape, OnlyRow

\* A PutObject that begins: a new upload has a full lease.
LEMMA HandlePutKeeps ==
    ASSUME LeaseInvariant, NEW r \in Request, HandlePut(r)
    PROVE  LeaseInvariant'
  <1>1. PICK n \in BodyLen, f \in BOOLEAN, e \in BOOLEAN :
          LET direct == f /\ ~e /\ n <= DirectBytes
              s == [NewSession EXCEPT !.pc = "read", !.len = n, !.fixed = f]
          IN \/ /\ direct
                /\ session' = [session EXCEPT ![r] = [s EXCEPT !.kind = "direct"]]
                /\ UNCHANGED upload
             \/ /\ ~direct
                /\ \E u \in Upload :
                     /\ upload[u].state = "free"
                     /\ session' = [session EXCEPT ![r] = [s EXCEPT !.upload = u]]
                     /\ upload' = [upload EXCEPT ![u] = NewRow(FALSE)]
    BY DEF HandlePut
  <1> DEFINE s == [NewSession EXCEPT !.pc = "read", !.len = n, !.fixed = f]
  <1>2. /\ DOMAIN s = DOMAIN NewSession /\ s.beat = 0 /\ s.quiet = 0
        /\ s.pc = "read" /\ s.upload = None /\ s.kind = "put"
    BY DEF NewSession
  <1>3. DOMAIN session = Request /\ DOMAIN upload = Upload
    BY DEF LeaseInvariant, Shape
  <1>4. CASE session' = [session EXCEPT ![r] = [s EXCEPT !.kind = "direct"]] /\ UNCHANGED upload
    <2>1. /\ DOMAIN session'[r] = DOMAIN NewSession /\ session'[r].beat = 0
          /\ session'[r].quiet = 0 /\ session'[r].upload = None
          /\ session' = [session EXCEPT ![r] = session'[r]]
      BY <1>2, <1>3, <1>4 DEF NewSession
    <2>2. SessionKept(r)
      BY <2>1, TimesAssumption DEF SessionKept
    <2> QED BY <2>2, <1>4, NoRow, StepKeeps
  <1>5. ASSUME NEW u \in Upload,
               session' = [session EXCEPT ![r] = [s EXCEPT !.upload = u]],
               upload' = [upload EXCEPT ![u] = NewRow(FALSE)]
        PROVE  LeaseInvariant'
    <2>1. upload'[u] = NewRow(FALSE) /\ OnlyRow(u)
      BY <1>3, <1>5 DEF OnlyRow
    <2>2. RowKept(u) /\ upload'[u].lease = UploadLease
      BY <2>1, NewRowKept
    <2>3. /\ DOMAIN session'[r] = DOMAIN NewSession /\ session'[r].beat = 0
          /\ session'[r].quiet = 0 /\ session'[r].upload = u /\ session'[r].kind = "put"
          /\ session' = [session EXCEPT ![r] = session'[r]]
      BY <1>2, <1>3, <1>5 DEF NewSession
    <2>4. SessionKept(r)
      BY <2>2, <2>3, TimesAssumption DEF SessionKept
    <2> QED BY <2>1, <2>2, <2>4, StepKeeps
  <1> QED BY <1>1, <1>4, <1>5

\* An UploadPart that begins: begin_part renews the lease.
LEMMA HandlePartKeeps ==
    ASSUME LeaseInvariant, NEW r \in Request, HandlePart(r)
    PROVE  LeaseInvariant'
  <1>1. PICK n \in BodyLen, f \in BOOLEAN, c \in BOOLEAN, u \in Upload, p \in PartNo :
          /\ Pending(u) /\ upload[u].multipart
          /\ Overlap \/ \A q \in Request :
                session[q].upload = u /\ session[q].part = p =>
                    session[q].pc \in {"ok", "error", "crashed"}
          /\ session' = [session EXCEPT ![r] =
                [NewSession EXCEPT !.pc = "read", !.kind = "part", !.upload = u,
                                   !.part = p, !.len = n, !.fixed = f, !.checksum = c]]
          /\ upload' = [upload EXCEPT ![u] = BeginPart(@, p)]
          /\ lastTry' = [x \in DOMAIN lastTry \cup {<<u, p>>} |->
                            IF x = <<u, p>> THEN r ELSE lastTry[x]]
    BY DEF HandlePart
  <1>2. DOMAIN session = Request /\ DOMAIN upload = Upload
    BY DEF LeaseInvariant, Shape
  <1>3. upload'[u] = BeginPart(upload[u], p) /\ OnlyRow(u)
    BY <1>1, <1>2 DEF OnlyRow
  <1>4. RowKept(u) /\ upload'[u].lease = UploadLease
    BY <1>3, BegunRowKept
  <1>5. /\ DOMAIN session'[r] = DOMAIN NewSession /\ session'[r].beat = 0
        /\ session'[r].quiet = 0 /\ session'[r].upload = u /\ session'[r].kind = "part"
        /\ session' = [session EXCEPT ![r] = session'[r]]
    BY <1>1, <1>2 DEF NewSession
  <1>6. SessionKept(r)
    BY <1>4, <1>5, TimesAssumption DEF SessionKept
  <1> QED BY <1>3, <1>4, <1>6, StepKeeps

\* push_body: bytes end a silence, which the bound of the next one covers.
LEMMA PushBodyKeeps ==
    ASSUME LeaseInvariant, NEW r \in Request, PushBody(r)
    PROVE  LeaseInvariant'
  <1> DEFINE s == session[r]
  <1>1. PICK k \in 1 .. s.len - s.wire :
          session' = [session EXCEPT ![r] =
              [s EXCEPT !.pc = "stage", !.wire = s.wire + k, !.remaining = k, !.quiet = 0]]
    BY DEF PushBody
  <1>2. s.pc = "read" /\ UNCHANGED upload
    BY DEF PushBody
  <1>3. DOMAIN session = Request /\ DOMAIN s = DOMAIN NewSession
    BY DEF LeaseInvariant, Shape
  <1>4. /\ DOMAIN session'[r] = DOMAIN NewSession /\ session'[r].beat = s.beat
        /\ session'[r].quiet = 0 /\ session'[r].upload = s.upload /\ session'[r].kind = s.kind
        /\ session'[r].pc = "stage" /\ session' = [session EXCEPT ![r] = session'[r]]
    BY <1>1, <1>3 DEF NewSession
  <1>5. /\ s.beat \in Nat /\ s.quiet \in 0 .. BodyIdle + Slack
        /\ s.upload \in Upload \cup {None} /\ (s.kind = "direct" => s.upload = None)
        /\ s.upload # None => s.beat < HeartbeatInterval + s.quiet
    BY <1>2 DEF LeaseInvariant, Clocks, Active
  <1>6. Active(s)
    BY <1>2 DEF Active
  <1> HIDE DEF s
  <1>7. SessionKept(r)
    BY <1>4, <1>5, <1>6, TimesAssumption DEF SessionKept, s
  <1> QED BY <1>2, <1>7, NoRow, StepKeeps

\* A session whose step resets its heartbeat and renews the lease.
LEMMA RenewedSession ==
    ASSUME LeaseInvariant, NEW r \in Request, NEW t, NEW u \in Upload,
           session' = [session EXCEPT ![r] = t], DOMAIN t = DOMAIN NewSession,
           t.beat = 0, t.quiet = session[r].quiet,
           t.kind # "direct", t.upload = u, upload'[u].lease = UploadLease
    PROVE  SessionKept(r)
  <1>1. session'[r] = t /\ session' = [session EXCEPT ![r] = session'[r]]
    BY DEF LeaseInvariant, Shape
  <1>2. t.quiet \in 0 .. BodyIdle + Slack
    BY DEF LeaseInvariant, Clocks
  <1> QED BY <1>1, <1>2, TimesAssumption DEF SessionKept

\* accept_decoded: a stored chunk renews the lease with the heartbeat.
LEMMA AcceptDecodedKeeps ==
    ASSUME LeaseInvariant, NEW r \in Request, AcceptDecoded(r)
    PROVE  LeaseInvariant'
  <1> DEFINE s == session[r]
             n == Slice(r)
             first == s.wire - s.remaining + 1
             data == s.buffer \o Bytes(r, first, first + n - 1)
             left == s.remaining - n
             last == s.part = 0 /\ s.fixed /\ s.wire = s.len /\ left = 0
             store == s.kind # "direct" /\ Len(data) = ChunkBytes /\ ~last
             next == [s EXCEPT !.remaining = left, !.pc = IF left = 0 THEN "renew" ELSE "stage"]
  <1>1. /\ s.pc = "stage"
        /\ \/ /\ ~store
              /\ session' = [session EXCEPT ![r] = [next EXCEPT !.buffer = data]]
              /\ UNCHANGED upload
           \/ /\ store /\ Pending(s.upload)
              /\ session' = [session EXCEPT ![r] = AfterChunk(next, data)]
              /\ upload' = [upload EXCEPT ![s.upload] = PutChunk(@, s.part, s.sequence, data)]
    BY DEF AcceptDecoded
  <1>2. /\ DOMAIN session = Request /\ DOMAIN upload = Upload
        /\ DOMAIN s = DOMAIN NewSession /\ Active(s)
    BY <1>1 DEF LeaseInvariant, Shape, Active
  <1> HIDE DEF data, n, left
  <1>3. /\ DOMAIN next = DOMAIN NewSession /\ next.pc \in {"renew", "stage"}
        /\ next.beat = s.beat /\ next.quiet = s.quiet
        /\ next.upload = s.upload /\ next.kind = s.kind
    BY <1>2 DEF NewSession
  <1> HIDE DEF next
  <1>4. CASE session' = [session EXCEPT ![r] = [next EXCEPT !.buffer = data]] /\ UNCHANGED upload
    <2> DEFINE t == [next EXCEPT !.buffer = data]
    <2>1. /\ DOMAIN t = DOMAIN NewSession /\ t.pc \in {"renew", "stage"}
          /\ t.beat = s.beat /\ t.quiet = s.quiet /\ t.upload = s.upload /\ t.kind = s.kind
      BY <1>3 DEF NewSession
    <2>2. Active(t)
      BY <2>1 DEF Active
    <2> HIDE DEF t
    <2>3. session' = [session EXCEPT ![r] = t]
      BY <1>4 DEF t
    <2>4. SessionKept(r)
      BY <1>2, <2>1, <2>2, <2>3, SameClocks
    <2> QED BY <2>4, <1>4, NoRow, StepKeeps
  <1>5. CASE /\ store /\ Pending(s.upload)
             /\ session' = [session EXCEPT ![r] = AfterChunk(next, data)]
             /\ upload' = [upload EXCEPT ![s.upload] = PutChunk(@, s.part, s.sequence, data)]
    <2> DEFINE t == AfterChunk(next, data)
               u == s.upload
    <2>1. u \in Upload
      BY <1>5 DEF LeaseInvariant, Clocks, Pending
    <2>2. upload'[u] = PutChunk(upload[u], s.part, s.sequence, data) /\ OnlyRow(u)
      BY <1>2, <1>5, <2>1 DEF OnlyRow
    <2>3. RowKept(u) /\ upload'[u].lease = UploadLease
      BY <2>1, <2>2, ChunkRow
    <2>4. /\ DOMAIN t = DOMAIN NewSession /\ t.beat = 0 /\ t.quiet = s.quiet
          /\ t.upload = u /\ t.kind = s.kind
      BY <1>3 DEF AfterChunk, NewSession
    <2>5. session' = [session EXCEPT ![r] = t] /\ t.kind # "direct"
      BY <1>5, <2>4
    <2> HIDE DEF t
    <2>6. SessionKept(r)
      BY <2>1, <2>3, <2>4, <2>5, RenewedSession
    <2> QED BY <2>2, <2>3, <2>6, StepKeeps
  <1> QED BY <1>1, <1>4, <1>5

\* renew_upload_lease_if_due: after it the heartbeat is not due.
LEMMA RenewKeeps ==
    ASSUME LeaseInvariant, NEW r \in Request, RenewUploadLeaseIfDue(r)
    PROVE  LeaseInvariant'
  <1> DEFINE s == session[r]
  <1>1. /\ s.pc = "renew"
        /\ \/ /\ ~RenewDue(s)
              /\ session' = [session EXCEPT ![r].pc = "read"]
              /\ UNCHANGED upload
           \/ /\ RenewDue(s) /\ Pending(s.upload)
              /\ session' = [session EXCEPT ![r].pc = "read", ![r].beat = 0]
              /\ upload' = [upload EXCEPT ![s.upload] = Leased(@)]
    BY DEF RenewUploadLeaseIfDue
  <1>2. /\ DOMAIN session = Request /\ DOMAIN upload = Upload
        /\ DOMAIN s = DOMAIN NewSession /\ Active(s)
        /\ s.beat \in Nat /\ (s.kind = "direct" => s.upload = None)
    BY <1>1 DEF LeaseInvariant, Shape, Active, Clocks
  <1>3. CASE ~RenewDue(s) /\ session' = [session EXCEPT ![r].pc = "read"] /\ UNCHANGED upload
    <2> DEFINE t == [s EXCEPT !.pc = "read"]
    <2>1. /\ DOMAIN t = DOMAIN NewSession /\ t.pc = "read"
          /\ t.beat = s.beat /\ t.quiet = s.quiet /\ t.upload = s.upload /\ t.kind = s.kind
      BY <1>2 DEF NewSession
    <2>2. Active(t) /\ (t.upload = None \/ t.beat < HeartbeatInterval)
      BY <1>2, <1>3, <2>1, TimesAssumption DEF Active, RenewDue
    <2>3. session' = [session EXCEPT ![r] = t]
      BY <1>3
    <2> HIDE DEF t
    <2>4. SessionKept(r)
      BY <1>2, <2>1, <2>2, <2>3, SameClocks
    <2> QED BY <2>4, <1>3, NoRow, StepKeeps
  <1>4. CASE /\ RenewDue(s) /\ Pending(s.upload)
             /\ session' = [session EXCEPT ![r].pc = "read", ![r].beat = 0]
             /\ upload' = [upload EXCEPT ![s.upload] = Leased(@)]
    <2> DEFINE t == [s EXCEPT !.pc = "read", !.beat = 0]
               u == s.upload
    <2>1. u \in Upload
      BY <1>4 DEF LeaseInvariant, Clocks, Pending
    <2>2. upload'[u] = Leased(upload[u]) /\ OnlyRow(u)
      BY <1>2, <1>4, <2>1 DEF OnlyRow
    <2>3. RowKept(u) /\ upload'[u].lease = UploadLease
      BY <2>1, <2>2, LeasedRowKept
    <2>4. /\ DOMAIN t = DOMAIN NewSession /\ t.beat = 0 /\ t.quiet = s.quiet
          /\ t.upload = u /\ t.kind = s.kind
      BY <1>2 DEF NewSession
    <2>5. session' = [session EXCEPT ![r] = t] /\ t.kind # "direct"
      BY <1>2, <1>4, <2>4 DEF RenewDue
    <2> HIDE DEF t
    <2>6. SessionKept(r)
      BY <2>1, <2>3, <2>4, <2>5, RenewedSession
    <2> QED BY <2>2, <2>3, <2>6, StepKeeps
  <1> QED BY <1>1, <1>3, <1>4

\* finish_body of a PutObject: the session ends, and with it its upload.
LEMMA FinishPutKeeps ==
    ASSUME LeaseInvariant, NEW r \in Request, FinishDirect(r) \/ FinishPut(r)
    PROVE  LeaseInvariant'
  <1>1. CASE FinishDirect(r)
    <2>1. session' = [session EXCEPT ![r] = Ended(session[r], "ok", session[r].buffer)]
          /\ UNCHANGED upload
      BY <1>1 DEF FinishDirect
    <2> QED BY <2>1, EndedSession, NoRow, StepKeeps
  <1>2. CASE FinishPut(r)
    <2> DEFINE s == session[r]
               row == IF FinalChunk(s) THEN PutChunk(upload[s.upload], 0, s.sequence, s.buffer)
                      ELSE upload[s.upload]
               body == FlattenSeq(Staged(row, 0))
               u == s.upload
    <2>1. /\ session' = [session EXCEPT ![r] = Ended(s, "ok", body)]
          /\ upload' = [upload EXCEPT ![u] = Deleted(row)]
      BY <1>2 DEF FinishPut
    <2> HIDE DEF row, body
    <2>2. OnlyRow(u)
      BY <2>1 DEF OnlyRow, LeaseInvariant, Shape
    <2>3. ASSUME u \in Upload PROVE RowKept(u)
      <3>1. upload'[u] = Deleted(row)
        BY <2>1, <2>3 DEF LeaseInvariant, Shape
      <3> QED BY <3>1, TimesAssumption DEF RowKept, Deleted, FreeRow
    <2>4. SessionKept(r)
      BY <2>1, EndedSession
    <2> QED BY <2>2, <2>3, <2>4, StepKeeps
  <1> QED BY <1>1, <1>2

\* finish_body of an UploadPart, up to complete_part.
LEMMA FinishPartKeeps ==
    ASSUME LeaseInvariant, NEW r \in Request, FinishPart(r)
    PROVE  LeaseInvariant'
  <1> DEFINE s == session[r]
             u == s.upload
  <1>1. /\ BodyComplete(s)
        /\ \/ /\ FinalChunk(s) /\ Pending(s.upload)
              /\ session' = [session EXCEPT ![r] =
                     [s EXCEPT !.pc = "complete_part", !.buffer = <<>>, !.sequence = @ + 1]]
              /\ upload' = [upload EXCEPT ![s.upload] =
                     PutChunk(@, s.part, s.sequence, s.buffer)]
           \/ /\ ~FinalChunk(s)
              /\ session' = [session EXCEPT ![r].pc = "complete_part"]
              /\ UNCHANGED upload
    BY DEF FinishPart
  <1>2. /\ DOMAIN session = Request /\ DOMAIN upload = Upload
        /\ DOMAIN s = DOMAIN NewSession /\ s.pc = "read" /\ Active(s)
    BY <1>1 DEF LeaseInvariant, Shape, Active, BodyComplete
  <1>3. ASSUME NEW t, session' = [session EXCEPT ![r] = t], DOMAIN t = DOMAIN NewSession,
               t.pc = "complete_part", t.beat = s.beat, t.quiet = s.quiet,
               t.kind = s.kind, t.upload = u
        PROVE  SessionKept(r)
    <2>1. Active(t)
      BY <1>3 DEF Active
    <2> QED BY <1>2, <1>3, <2>1, SameClocks
  <1>4. CASE /\ Pending(u)
             /\ session' = [session EXCEPT ![r] =
                    [s EXCEPT !.pc = "complete_part", !.buffer = <<>>, !.sequence = @ + 1]]
             /\ upload' = [upload EXCEPT ![u] = PutChunk(@, s.part, s.sequence, s.buffer)]
    <2> DEFINE t == [s EXCEPT !.pc = "complete_part", !.buffer = <<>>, !.sequence = @ + 1]
    <2>1. /\ DOMAIN t = DOMAIN NewSession /\ t.pc = "complete_part" /\ t.beat = s.beat
          /\ t.quiet = s.quiet /\ t.kind = s.kind /\ t.upload = u
      BY <1>2 DEF NewSession
    <2>2. session' = [session EXCEPT ![r] = t]
      BY <1>4
    <2> HIDE DEF t
    <2>3. SessionKept(r)
      BY <2>1, <2>2, <1>3
    <2>4. u \in Upload
      BY <1>4 DEF LeaseInvariant, Clocks, Pending
    <2>5. upload'[u] = PutChunk(upload[u], s.part, s.sequence, s.buffer) /\ OnlyRow(u)
      BY <1>2, <1>4, <2>4 DEF OnlyRow
    <2>6. RowKept(u)
      BY <2>4, <2>5, ChunkRow
    <2> QED BY <2>3, <2>5, <2>6, StepKeeps
  <1>5. CASE session' = [session EXCEPT ![r].pc = "complete_part"] /\ UNCHANGED upload
    <2> DEFINE t == [s EXCEPT !.pc = "complete_part"]
    <2>1. /\ DOMAIN t = DOMAIN NewSession /\ t.pc = "complete_part" /\ t.beat = s.beat
          /\ t.quiet = s.quiet /\ t.kind = s.kind /\ t.upload = u
      BY <1>2 DEF NewSession
    <2>2. session' = [session EXCEPT ![r] = t]
      BY <1>5
    <2> HIDE DEF t
    <2>3. SessionKept(r)
      BY <2>1, <2>2, <1>3
    <2> QED BY <2>3, <1>5, NoRow, StepKeeps
  <1> QED BY <1>1, <1>4, <1>5

\* complete_part: the session ends, the row is renewed.
LEMMA CompletePartKeeps ==
    ASSUME LeaseInvariant, NEW r \in Request, CompletePart(r)
    PROVE  LeaseInvariant'
  <1> DEFINE s == session[r]
             u == s.upload
             body == FlattenSeq(Staged(upload[s.upload], s.part))
  <1>1. /\ session' = [session EXCEPT ![r] = Ended(s, "ok", body)]
        /\ upload' = [upload EXCEPT ![u] = CompletePartRow(@, s.part)]
        /\ Pending(u)
    BY DEF CompletePart
  <1> HIDE DEF body
  <1>2. u \in Upload
    BY <1>1 DEF LeaseInvariant, Clocks, Pending
  <1>3. upload'[u] = CompletePartRow(upload[u], s.part) /\ OnlyRow(u)
    BY <1>1, <1>2 DEF OnlyRow, LeaseInvariant, Shape
  <1>4. RowKept(u)
    BY <1>2, <1>3, CompletedRowKept
  <1>5. SessionKept(r)
    BY <1>1, EndedSession
  <1> QED BY <1>3, <1>4, <1>5, StepKeeps

\* A failed session or an aborted body: the session is no longer held.
LEMMA FailKeeps ==
    ASSUME LeaseInvariant, NEW r \in Request, SessionFails(r) \/ AbortBody(r)
    PROVE  LeaseInvariant'
  <1> DEFINE t == [session[r] EXCEPT !.pc = "cleanup"]
  <1>1. session' = [session EXCEPT ![r].pc = "cleanup"] /\ UNCHANGED upload
    BY DEF SessionFails, AbortBody
  <1>2. session' = [session EXCEPT ![r] = t]
    BY <1>1
  <1>3. DOMAIN session[r] = DOMAIN NewSession
    BY DEF LeaseInvariant, Shape
  <1>4. /\ DOMAIN t = DOMAIN NewSession /\ t.pc = "cleanup" /\ t.beat = session[r].beat
        /\ t.quiet = session[r].quiet /\ t.kind = session[r].kind
        /\ t.upload = session[r].upload
    BY <1>3 DEF NewSession
  <1>5. ~Active(t)
    BY <1>4 DEF Active
  <1> HIDE DEF t
  <1>6. SessionKept(r)
    BY <1>2, <1>4, <1>5, SameClocks
  <1> QED BY <1>1, <1>6, NoRow, StepKeeps

\* cleanup: abort_upload or abort_part of a session that ends.
LEMMA CleanupKeeps ==
    ASSUME LeaseInvariant, NEW r \in Request, Cleanup(r)
    PROVE  LeaseInvariant'
  <1> DEFINE s == session[r]
             u == s.upload
  <1>1. /\ session' = [session EXCEPT ![r] = Ended(s, "error", <<>>)]
        /\ \/ UNCHANGED upload
           \/ /\ Pending(u)
              /\ upload' = [upload EXCEPT ![u] =
                     IF s.part = 0 THEN Deleted(@) ELSE BeginPart(@, s.part)]
    BY DEF Cleanup
  <1>2. SessionKept(r)
    BY <1>1, EndedSession
  <1>3. CASE UNCHANGED upload
    BY <1>2, <1>3, NoRow, StepKeeps
  <1>4. CASE /\ Pending(u)
             /\ upload' = [upload EXCEPT ![u] =
                    IF s.part = 0 THEN Deleted(@) ELSE BeginPart(@, s.part)]
    <2>1. u \in Upload
      BY <1>4 DEF LeaseInvariant, Clocks, Pending
    <2>2. /\ upload'[u] = IF s.part = 0 THEN Deleted(upload[u]) ELSE BeginPart(upload[u], s.part)
          /\ OnlyRow(u)
      BY <1>4, <2>1 DEF OnlyRow, LeaseInvariant, Shape
    <2>3. RowKept(u)
      BY <2>1, <2>2, DeletedRowKept, BegunRowKept
    <2> QED BY <1>2, <2>2, <2>3, StepKeeps
  <1> QED BY <1>1, <1>3, <1>4

\* The death of a worker.
LEMMA WorkerDiesKeeps ==
    ASSUME LeaseInvariant, NEW r \in Request, WorkerDies(r)
    PROVE  LeaseInvariant'
  <1>1. session' = [session EXCEPT ![r] = Ended(session[r], "crashed", <<>>)] /\ UNCHANGED upload
    BY DEF WorkerDies
  <1> QED BY <1>1, EndedSession, NoRow, StepKeeps

\* The calls that change one row and no session.
LEMMA RowCallsKeep ==
    ASSUME LeaseInvariant, NEW u \in Upload,
           \/ CreateMultipartUpload(u) \/ SqlPutChunk(u) \/ CompleteMultipartUpload(u)
           \/ AbortMultipartUpload(u) \/ GcPendingUploads(u)
    PROVE  LeaseInvariant'
  <1>1. CASE CreateMultipartUpload(u)
    <2>1. upload' = [upload EXCEPT ![u] = NewRow(TRUE)] /\ UNCHANGED session
      BY <1>1 DEF CreateMultipartUpload
    <2>2. upload'[u] = NewRow(TRUE) /\ OnlyRow(u)
      BY <2>1 DEF OnlyRow, LeaseInvariant, Shape
    <2>3. RowKept(u)
      BY <2>2, NewRowKept
    <2> QED BY <2>1, <2>2, <2>3, RowStepKeeps
  <1>2. CASE SqlPutChunk(u)
    <2>1. PICK n \in SqlSequence :
            upload' = [upload EXCEPT ![u] = PutChunk(@, 0, n, <<<<None, 1>>>>)]
      BY <1>2 DEF SqlPutChunk
    <2>2. upload'[u] = PutChunk(upload[u], 0, n, <<<<None, 1>>>>) /\ OnlyRow(u)
      BY <2>1 DEF OnlyRow, LeaseInvariant, Shape
    <2>3. RowKept(u)
      BY <2>2, ChunkRow
    <2>4. UNCHANGED session
      BY <1>2 DEF SqlPutChunk
    <2> QED BY <2>2, <2>3, <2>4, RowStepKeeps
  <1>3. CASE upload' = [upload EXCEPT ![u] = Deleted(@)] /\ UNCHANGED session
    <2>1. upload'[u] = Deleted(upload[u]) /\ OnlyRow(u)
      BY <1>3 DEF OnlyRow, LeaseInvariant, Shape
    <2>2. RowKept(u)
      BY <2>1, DeletedRowKept
    <2> QED BY <1>3, <2>1, <2>2, RowStepKeeps
  <1> QED
    BY <1>1, <1>2, <1>3 DEF CompleteMultipartUpload, AbortMultipartUpload, GcPendingUploads

\* Time: every lease and every heartbeat move together.
LEMMA TickKeeps ==
    ASSUME LeaseInvariant, Tick
    PROVE  LeaseInvariant'
  <1>1. /\ \A r \in Request : Active(session[r]) => session[r].quiet < BodyIdle + Slack
        /\ session' = [r \in Request |->
               IF Active(session[r])
               THEN [session[r] EXCEPT !.beat = @ + 1, !.quiet = @ + 1]
               ELSE session[r]]
        /\ upload' = [u \in Upload |->
               IF Pending(u)
               THEN [upload[u] EXCEPT !.age = IF @ > MaxAge THEN @ ELSE @ + 1,
                                      !.lease = IF @ = 0 THEN 0 ELSE @ - 1]
               ELSE upload[u]]
    BY DEF Tick
  <1>2. ASSUME NEW r \in Request
        PROVE  LET s == session[r]
                   t == session'[r]
               IN /\ DOMAIN t = DOMAIN NewSession /\ t.pc = s.pc /\ t.kind = s.kind
                  /\ t.upload = s.upload
                  /\ IF Active(s) THEN t.beat = s.beat + 1 /\ t.quiet = s.quiet + 1
                     ELSE t = s
    <2>1. DOMAIN session[r] = DOMAIN NewSession
      BY DEF LeaseInvariant, Shape
    <2>2. CASE Active(session[r])
      <3>1. session'[r] = [session[r] EXCEPT !.beat = @ + 1, !.quiet = @ + 1]
        BY <1>1, <2>2
      <3> QED BY <3>1, <2>1, <2>2 DEF NewSession
    <2>3. CASE ~Active(session[r])
      <3>1. session'[r] = session[r]
        BY <1>1, <2>3
      <3> QED BY <3>1, <2>1, <2>3
    <2> QED BY <2>2, <2>3
  <1>3. ASSUME NEW u \in Upload
        PROVE  LET row == upload[u]
                   new == upload'[u]
               IN /\ DOMAIN new = DOMAIN FreeRow /\ new.state = row.state
                  /\ \/ new.lease = row.lease
                     \/ row.lease # 0 /\ new.lease = row.lease - 1
    <2>1. DOMAIN upload[u] = DOMAIN FreeRow
      BY DEF LeaseInvariant, Shape
    <2>2. CASE Pending(u)
      <3>1. upload'[u] = [upload[u] EXCEPT !.age = IF @ > MaxAge THEN @ ELSE @ + 1,
                                           !.lease = IF @ = 0 THEN 0 ELSE @ - 1]
        BY <1>1, <2>2
      <3> QED BY <3>1, <2>1 DEF FreeRow
    <2>3. CASE ~Pending(u)
      <3>1. upload'[u] = upload[u]
        BY <1>1, <2>3
      <3> QED BY <3>1, <2>1
    <2> QED BY <2>2, <2>3
  <1>4. Shape'
    BY <1>1, <1>2, <1>3 DEF Shape, NewSession, FreeRow
  <1>5. \A r \in Request : Active(session'[r]) <=> Active(session[r])
    BY <1>2 DEF Active
  <1>6. Clocks'
    <2> SUFFICES ASSUME NEW r \in Request
                 PROVE  LET t == session'[r]
                        IN /\ t.beat \in Nat /\ t.quiet \in 0 .. BodyIdle + Slack
                           /\ t.upload \in Upload \cup {None}
                           /\ (t.kind = "direct" => t.upload = None)
                           /\ Active(t) /\ t.upload # None =>
                                /\ t.pc \in {"read", "complete_part"} =>
                                     t.beat < HeartbeatInterval + t.quiet
                                /\ t.beat < HeartbeatInterval + BodyIdle + Slack + t.quiet
      BY DEF Clocks, Active
    <2>1. LET s == session[r]
          IN /\ s.beat \in Nat /\ s.quiet \in 0 .. BodyIdle + Slack
             /\ s.upload \in Upload \cup {None} /\ (s.kind = "direct" => s.upload = None)
             /\ Active(s) /\ s.upload # None =>
                  /\ s.pc \in {"read", "complete_part"} => s.beat < HeartbeatInterval + s.quiet
                  /\ s.beat < HeartbeatInterval + BodyIdle + Slack + s.quiet
      BY DEF LeaseInvariant, Clocks
    <2>2. LET s == session[r]
              t == session'[r]
          IN /\ t.pc = s.pc /\ t.kind = s.kind /\ t.upload = s.upload
             /\ IF Active(s) THEN t.beat = s.beat + 1 /\ t.quiet = s.quiet + 1
                ELSE t = s
      BY <1>2
    <2>3. CASE Active(session[r])
      <3>1. session[r].quiet < BodyIdle + Slack
        BY <1>1, <2>3
      <3> QED BY <1>5, <2>1, <2>2, <2>3, <3>1, TimesAssumption
    <2>4. CASE ~Active(session[r])
      <3>1. session'[r] = session[r]
        BY <2>2, <2>4
      <3> QED BY <2>1, <2>4, <3>1
    <2> QED BY <2>3, <2>4
  <1>7. Leases'
    <2>1. \A u \in Upload : upload'[u].lease \in 0 .. UploadLease
      BY <1>3, TimesAssumption DEF LeaseInvariant, Leases
    <2>2. ASSUME NEW r \in Request, Active(session'[r]), Pending(session[r].upload)'
          PROVE  upload'[session'[r].upload].lease + session'[r].beat >= UploadLease
      <3> DEFINE u == session[r].upload
      <3>1. Active(session[r]) /\ session'[r].upload = u /\ session'[r].beat = session[r].beat + 1
        BY <1>2, <1>5, <2>2
      <3>2. u \in Upload /\ session[r].beat \in Nat
        BY <2>2, <3>1 DEF LeaseInvariant, Clocks, Pending
      <3>3. Pending(u)
        <4>1. upload'[u].state = "pending" /\ u # None
          BY <2>2, <3>1 DEF Pending
        <4>2. upload'[u].state = upload[u].state
          BY <1>3, <3>2
        <4> QED BY <4>1, <4>2 DEF Pending
      <3>4. upload[u].lease + session[r].beat >= UploadLease /\ upload[u].lease \in 0 .. UploadLease
        BY <3>1, <3>2, <3>3 DEF LeaseInvariant, Leases
      <3>5. \/ upload'[u].lease = upload[u].lease
            \/ upload[u].lease # 0 /\ upload'[u].lease = upload[u].lease - 1
        BY <1>3, <3>2
      <3> QED BY <3>1, <3>2, <3>4, <3>5, TimesAssumption
    <2> QED BY <2>1, <2>2 DEF Leases
  <1> QED BY <1>4, <1>6, <1>7 DEF LeaseInvariant

\* The clocks of the sessions and the leases of the rows stay in step.
THEOREM LeaseInvariantHolds == Spec => []LeaseInvariant
  <1>1. Init => LeaseInvariant
    BY TimesAssumption
       DEF Init, LeaseInvariant, Shape, Clocks, Leases, NewSession, FreeRow, Active
  <1>2. LeaseInvariant /\ [Next]_vars => LeaseInvariant'
    <2> SUFFICES ASSUME LeaseInvariant, [Next]_vars
                 PROVE  LeaseInvariant'
      OBVIOUS
    <2>1. ASSUME NEW r \in Request,
                 HandlePut(r) \/ HandlePart(r) \/ PushBody(r) \/ SessionStep(r) \/ WorkerDies(r)
          PROVE  LeaseInvariant'
      BY <2>1, HandlePutKeeps, HandlePartKeeps, PushBodyKeeps, AcceptDecodedKeeps, RenewKeeps,
         FinishPutKeeps, FinishPartKeeps, CompletePartKeeps, FailKeeps, CleanupKeeps,
         WorkerDiesKeeps DEF SessionStep
    <2>2. CASE UNCHANGED vars
      BY <2>2 DEF vars, LeaseInvariant, Shape, Clocks, Leases, Active, Pending
    <2> QED BY <2>1, <2>2, RowCallsKeep, TickKeeps DEF Next
  <1> QED BY <1>1, <1>2, PTL DEF Spec

\* The upload of a session that a worker holds keeps its lease, for every
\* number of requests and uploads, every length of bodies and chunks, and all
\* intervals that satisfy LeaseAssumption: gc_pending_uploads never takes the
\* upload of a body that is still being received.
THEOREM LeaseAlwaysHeld == Spec => []LeaseHeld
  BY LeaseInvariantHolds, LeaseImplies, PTL

-----------------------------------------------------------------------------
(* What a body session stores is what its client sent.                     *)
(*                                                                         *)
(* The bytes a session has taken from the wire are, in order, in the       *)
(* chunks it has stored and in its buffer.  For a PutObject the stored     *)
(* chunks are the ones of the manifest, which the publication compares     *)
(* with the rows, so what other sessions do to the rows does not matter.   *)
(* For an UploadPart they are the rows themselves, and only the last try   *)
(* of a part may work on them: that needs clients that do not overlap the  *)
(* tries of a part.                                                        *)

-----------------------------------------------------------------------------
(* Bytes.                                                                  *)

\* A run of bytes is a body of its length.
LEMMA BytesType ==
    ASSUME NEW r \in Request, NEW a \in Nat, NEW n \in Nat
    PROVE  Bytes(r, a + 1, a + n) \in Bodies /\ Len(Bytes(r, a + 1, a + n)) = n
<1> DEFINE S == (Request \cup {None}) \X Nat
           b == Bytes(r, a + 1, a + n)
<1>1. b = [i \in 1 .. n |-> <<r, a + i>>]
  <2>1. (a + n) - (a + 1) + 1 = n /\ \A i \in 1 .. n : (a + 1) + i - 1 = a + i
    OBVIOUS
  <2> QED BY <2>1 DEF Bytes
<1>2. \A i \in 1 .. n : <<r, a + i>> \in S
  OBVIOUS
<1>3. b \in [1 .. n -> S]
  BY <1>1, <1>2
<1> HIDE DEF b, S
<1> QED BY <1>3, SeqDef DEF Bodies, S, b

\* Two adjacent runs of bytes.
LEMMA BytesJoin ==
    ASSUME NEW r \in Request, NEW t \in Nat, NEW n \in Nat
    PROVE  Bytes(r, 1, t) \o Bytes(r, t + 1, t + n) = Bytes(r, 1, t + n)
<1> DEFINE a == Bytes(r, 1, t)
           b == Bytes(r, t + 1, t + n)
           c == Bytes(r, 1, t + n)
<1>1. a = [i \in 1 .. t |-> <<r, i>>]
  <2>1. t - 1 + 1 = t /\ \A i \in 1 .. t : 1 + i - 1 = i
    OBVIOUS
  <2> QED BY <2>1 DEF Bytes
<1>2. b = [i \in 1 .. n |-> <<r, t + i>>]
  <2>1. (t + n) - (t + 1) + 1 = n /\ \A i \in 1 .. n : (t + 1) + i - 1 = t + i
    OBVIOUS
  <2> QED BY <2>1 DEF Bytes
<1>3. c = [i \in 1 .. t + n |-> <<r, i>>]
  <2>1. (t + n) - 1 + 1 = t + n /\ \A i \in 1 .. t + n : 1 + i - 1 = i
    OBVIOUS
  <2> QED BY <2>1 DEF Bytes
<1>4. a \in Bodies /\ Len(a) = t /\ b \in Bodies /\ Len(b) = n /\ c \in Bodies /\ Len(c) = t + n
  <2>1. b \in Bodies /\ Len(b) = n
    BY BytesType
  <2>2. \A m \in Nat : Bytes(r, 0 + 1, 0 + m) \in Bodies /\ Len(Bytes(r, 0 + 1, 0 + m)) = m
    BY BytesType
  <2> QED BY <2>1, <2>2
<1> HIDE DEF a, b, c
<1>5. /\ a \o b \in Bodies /\ Len(a \o b) = t + n
      /\ \A i \in 1 .. t + n : (a \o b)[i] = IF i <= t THEN a[i] ELSE b[i - t]
  BY <1>4, ConcatProperties DEF Bodies
<1>6. ASSUME NEW i \in 1 .. t + n PROVE (a \o b)[i] = c[i]
  <2>1. i <= t => i \in 1 .. t
    OBVIOUS
  <2>2. ~(i <= t) => i - t \in 1 .. n /\ t + (i - t) = i
    OBVIOUS
  <2>3. c[i] = <<r, i>>
    BY <1>3
  <2>4. CASE i <= t
    BY <1>1, <1>5, <2>1, <2>3, <2>4
  <2>5. CASE ~(i <= t)
    <3>1. b[i - t] = <<r, t + (i - t)>>
      BY <1>2, <2>2, <2>5
    <3> QED BY <1>5, <2>2, <2>3, <2>5, <3>1
  <2> QED BY <2>4, <2>5
<1>7. a \o b = c
  BY <1>4, <1>5, <1>6, SeqEqual DEF Bodies
<1> QED BY <1>7 DEF a, b, c

\* The bytes of nothing.
LEMMA NoBytes ==
    ASSUME NEW r
    PROVE  Bytes(r, 1, 0) = <<>>
BY DEF Bytes

-----------------------------------------------------------------------------
(* A session by itself.                                                    *)

\* A worker has the session, to go on with it or to clean up after it.
Held(s) == Active(s) \/ s.pc = "cleanup"

\* The number of bytes a session has taken from the wire.
Taken(s) == s.wire - s.remaining

\* The values of a session's fields and how they hang together.
Formed(s) ==
    /\ DOMAIN s = DOMAIN NewSession
    /\ s.pc \in {"new", "read", "stage", "renew", "complete_part", "cleanup",
                 "ok", "error", "crashed"}
    /\ s.kind \in Kinds /\ s.upload \in Upload \cup {None} /\ s.part \in PartNo \cup {0}
    /\ s.kind = "part" <=> s.part # 0
    /\ s.kind = "part" => s.upload # None
    /\ s.kind = "direct" => s.upload = None /\ s.len <= DirectBytes
    /\ s.len \in Nat /\ s.wire \in 0 .. s.len /\ s.remaining \in 0 .. s.wire
    /\ s.pc \in {"read", "renew", "complete_part"} => s.remaining = 0
    /\ s.pc = "complete_part" => s.kind = "part" /\ s.wire = s.len /\ s.buffer = <<>>
    /\ s.sequence \in Nat /\ s.manifest \in Seq(Bodies) /\ s.buffer \in Bodies
    /\ Len(s.buffer) <= IF s.kind = "direct" THEN s.len ELSE ChunkBytes

\* The bytes of a PutObject: in the buffer, or in the manifest and the buffer.
Faithful(r, s) ==
    /\ Active(s) /\ s.kind = "direct" => s.buffer = Bytes(r, 1, Taken(s))
    /\ Active(s) /\ s.kind = "put" =>
         FlattenSeq(s.manifest) \o s.buffer = Bytes(r, 1, Taken(s))
    /\ s.pc = "ok" /\ s.kind # "part" => s.etag = Bytes(r, 1, s.len)

\* Both, of one session.
SessionOK(r, s) == Formed(s) /\ Faithful(r, s)

\* The empty sequences.
LEMMA Empties == <<>> \in Bodies /\ Len(<<>>) = 0 /\ <<>> \in Seq(Bodies)
BY DEF Bodies

\* A session that does not exist yet.
LEMMA NewOK ==
    ASSUME NEW r
    PROVE  SessionOK(r, NewSession)
<1> DEFINE e == <<>>
<1>1. /\ NewSession.pc = "new" /\ NewSession.kind = "put" /\ NewSession.upload = None
      /\ NewSession.part = 0 /\ NewSession.len = 0 /\ NewSession.wire = 0
      /\ NewSession.remaining = 0 /\ NewSession.sequence = 0
      /\ NewSession.buffer = e /\ NewSession.manifest = e
  BY DEF NewSession
<1>2. e \in Bodies /\ Len(e) = 0 /\ e \in Seq(Bodies)
  BY Empties
<1> HIDE DEF e
<1>3. Formed(NewSession)
  BY <1>1, <1>2, SizesAssumption DEF Formed, Kinds
<1>4. Faithful(r, NewSession)
  BY <1>1 DEF Faithful, Active
<1> QED BY <1>3, <1>4 DEF SessionOK

\* What is left of a session that has ended.
LEMMA EndedOK ==
    ASSUME NEW r, NEW s, SessionOK(r, s), NEW pc \in {"ok", "error", "crashed"}, NEW etag,
           pc = "ok" /\ s.kind # "part" => etag = Bytes(r, 1, s.len)
    PROVE  /\ SessionOK(r, Ended(s, pc, etag))
           /\ Ended(s, pc, etag).pc = pc /\ Ended(s, pc, etag).etag = etag
           /\ Ended(s, pc, etag).kind = s.kind /\ Ended(s, pc, etag).upload = s.upload
           /\ Ended(s, pc, etag).part = s.part /\ Ended(s, pc, etag).len = s.len
<1> DEFINE e == <<>>
           t == Ended(s, pc, etag)
<1>1. /\ t.pc = pc /\ t.kind = s.kind /\ t.upload = s.upload /\ t.part = s.part
      /\ t.len = s.len /\ t.etag = etag
  BY DEF Ended, NewSession
<1>2. /\ DOMAIN t = DOMAIN NewSession /\ t.wire = 0 /\ t.remaining = 0 /\ t.sequence = 0
      /\ t.buffer = e /\ t.manifest = e
  BY DEF Ended, NewSession
<1>3. e \in Bodies /\ Len(e) = 0 /\ e \in Seq(Bodies)
  BY Empties
<1> HIDE DEF e, t
<1>4. Formed(t)
  BY <1>1, <1>2, <1>3, SizesAssumption DEF Formed, SessionOK
<1>5. Faithful(r, t)
  BY <1>1 DEF Faithful, Active
<1> QED BY <1>1, <1>4, <1>5 DEF SessionOK, t

\* The session of a PutObject that begins, without its kind and its upload.
PutBegun(n, f) == [NewSession EXCEPT !.pc = "read", !.len = n, !.fixed = f]

\* Its fields.
LEMMA PutBegunFields ==
    ASSUME NEW n, NEW f, NEW s, s = PutBegun(n, f)
    PROVE  /\ DOMAIN s = DOMAIN NewSession /\ s.pc = "read" /\ s.kind = "put"
           /\ s.upload = None /\ s.part = 0 /\ s.len = n /\ s.wire = 0 /\ s.remaining = 0
           /\ s.sequence = 0 /\ s.buffer = <<>> /\ s.manifest = <<>>
BY DEF PutBegun, NewSession

\* A PutObject has taken nothing when it begins.
LEMMA NothingTaken ==
    ASSUME NEW r, NEW t, t.wire = 0, t.remaining = 0, t.buffer = <<>>, t.manifest = <<>>,
           t.pc # "ok"
    PROVE  Faithful(r, t)
<1>1. Taken(t) = 0
  BY DEF Taken
<1>2. FlattenSeq(t.manifest) \o t.buffer = <<>>
  BY DEF FlattenSeq
<1>3. Bytes(r, 1, Taken(t)) = <<>>
  BY <1>1, NoBytes
<1> QED BY <1>2, <1>3 DEF Faithful

\* A PutObject that begins and is kept in memory.
LEMMA BegunDirectOK ==
    ASSUME NEW r, NEW n \in BodyLen, NEW f, NEW s, s = PutBegun(n, f), n <= DirectBytes
    PROVE  SessionOK(r, [s EXCEPT !.kind = "direct"]) /\ [s EXCEPT !.kind = "direct"].kind # "part"
<1> DEFINE t == [s EXCEPT !.kind = "direct"]
<1>1. /\ DOMAIN t = DOMAIN NewSession /\ t.pc = "read" /\ t.kind = "direct"
      /\ t.upload = None /\ t.part = 0 /\ t.len = n /\ t.wire = 0
      /\ t.remaining = 0 /\ t.sequence = 0 /\ t.buffer = <<>> /\ t.manifest = <<>>
  BY PutBegunFields DEF NewSession
<1> HIDE DEF t
<1>2. Formed(t)
  BY <1>1, Empties, SizesAssumption DEF Formed, Kinds
<1>3. Faithful(r, t)
  BY <1>1, NothingTaken
<1> QED BY <1>1, <1>2, <1>3 DEF SessionOK, t

\* A PutObject that begins with an upload of its own.
LEMMA BegunPutOK ==
    ASSUME NEW r, NEW n \in BodyLen, NEW f, NEW s, s = PutBegun(n, f), NEW u \in Upload
    PROVE  SessionOK(r, [s EXCEPT !.upload = u]) /\ [s EXCEPT !.upload = u].kind # "part"
<1> DEFINE t == [s EXCEPT !.upload = u]
<1>1. /\ DOMAIN t = DOMAIN NewSession /\ t.pc = "read" /\ t.kind = "put"
      /\ t.upload = u /\ t.part = 0 /\ t.len = n /\ t.wire = 0
      /\ t.remaining = 0 /\ t.sequence = 0 /\ t.buffer = <<>> /\ t.manifest = <<>>
  BY PutBegunFields DEF NewSession
<1> HIDE DEF t
<1>2. Formed(t)
  BY <1>1, Empties, SizesAssumption DEF Formed, Kinds
<1>3. Faithful(r, t)
  BY <1>1, NothingTaken
<1> QED BY <1>1, <1>2, <1>3 DEF SessionOK, t

\* The session of an UploadPart that begins.
PartBegun(n, f, c, u, p) ==
    [NewSession EXCEPT !.pc = "read", !.kind = "part", !.upload = u,
                       !.part = p, !.len = n, !.fixed = f, !.checksum = c]

\* An UploadPart has taken nothing when it begins.
LEMMA BegunPartOK ==
    ASSUME NEW r, NEW n \in BodyLen, NEW f, NEW c, NEW u \in Upload, NEW p \in PartNo, NEW t,
           t = PartBegun(n, f, c, u, p)
    PROVE  /\ SessionOK(r, t) /\ t.pc = "read" /\ t.kind = "part" /\ t.upload = u
           /\ t.part = p /\ t.sequence = 0 /\ t.buffer = <<>> /\ Taken(t) = 0
<1>1. /\ DOMAIN t = DOMAIN NewSession /\ t.pc = "read" /\ t.kind = "part" /\ t.upload = u
      /\ t.part = p /\ t.len = n
  BY DEF NewSession, PartBegun
<1>2. t.wire = 0 /\ t.remaining = 0 /\ t.sequence = 0 /\ t.buffer = <<>> /\ t.manifest = <<>>
  BY DEF NewSession, PartBegun
<1>3. p # 0 /\ u # None
  BY SizesAssumption
<1>4. Formed(t)
  BY <1>1, <1>2, <1>3, Empties, SizesAssumption DEF Formed, Kinds
<1>5. Faithful(r, t)
  BY <1>1 DEF Faithful
<1> QED BY <1>1, <1>2, <1>4, <1>5 DEF SessionOK, Taken

\* The fields of a session that say what it has stored.
DataFields ==
    {"kind", "upload", "part", "len", "wire", "remaining", "sequence", "buffer", "manifest",
     "etag"}

\* A session that keeps them.
SameData(s, t) == DOMAIN t = DOMAIN NewSession /\ \A f \in DataFields : t[f] = s[f]

\* The fields one by one.
LEMMA SameDataFields ==
    ASSUME NEW s, NEW t, SameData(s, t)
    PROVE  /\ DOMAIN t = DOMAIN NewSession /\ t.kind = s.kind /\ t.upload = s.upload
           /\ t.part = s.part /\ t.len = s.len /\ t.wire = s.wire
           /\ t.remaining = s.remaining /\ t.sequence = s.sequence /\ t.buffer = s.buffer
           /\ t.manifest = s.manifest /\ t.etag = s.etag /\ Taken(t) = Taken(s)
BY DEF SameData, DataFields, Taken

\* Steps that only move the control of a session.
Turns(s, t) ==
    \/ t.pc = s.pc
    \/ t.pc = "cleanup"
    \/ s.pc = "renew" /\ t.pc = "read"
    \/ /\ s.pc = "read" /\ t.pc = "complete_part" /\ s.kind = "part"
       /\ s.wire = s.len /\ s.buffer = <<>>

\* A step that only moves the control keeps the session in order.
LEMMA SameDataOK ==
    ASSUME NEW r, NEW s, NEW t, SessionOK(r, s), SameData(s, t), Turns(s, t)
    PROVE  SessionOK(r, t)
<1>1. Formed(t)
  BY SameDataFields DEF SessionOK, Formed, Turns
<1>2. Active(t) => Active(s) \/ s.kind = "part"
  BY DEF Turns, Active
<1>3. t.pc = "ok" => s.pc = "ok"
  BY DEF Turns
<1>4. Faithful(r, t)
  BY <1>2, <1>3, SameDataFields, ZenonT(40) DEF SessionOK, Faithful
<1> QED BY <1>1, <1>4 DEF SessionOK

\* push_body: the bytes on the wire are not taken yet.
Pushed(s, k) == [s EXCEPT !.pc = "stage", !.wire = s.wire + k, !.remaining = k, !.quiet = 0]

\* push_body keeps the session in order and takes nothing yet.
LEMMA PushedOK ==
    ASSUME NEW r, NEW s, SessionOK(r, s), s.pc = "read", NEW k \in 1 .. s.len - s.wire, NEW t,
           t = Pushed(s, k)
    PROVE  /\ SessionOK(r, t) /\ Active(t) /\ t.kind = s.kind /\ t.upload = s.upload
           /\ t.part = s.part /\ t.len = s.len /\ t.sequence = s.sequence
           /\ t.buffer = s.buffer /\ Taken(t) = Taken(s)
<1>1. DOMAIN s = DOMAIN NewSession
  BY DEF SessionOK, Formed
<1>2. /\ DOMAIN t = DOMAIN NewSession /\ t.pc = "stage" /\ t.wire = s.wire + k
      /\ t.remaining = k /\ t.kind = s.kind /\ t.upload = s.upload /\ t.part = s.part
      /\ t.len = s.len /\ t.sequence = s.sequence /\ t.buffer = s.buffer
      /\ t.manifest = s.manifest /\ t.etag = s.etag
  BY <1>1 DEF NewSession, Pushed
<1>3. /\ s.len \in Nat /\ s.wire \in 0 .. s.len /\ s.remaining = 0
  BY DEF SessionOK, Formed
<1>4. Taken(t) = Taken(s)
  BY <1>2, <1>3 DEF Taken
<1>5. t.wire \in 0 .. t.len /\ t.remaining \in 0 .. t.wire
  BY <1>2, <1>3
<1>6. Formed(t)
  BY <1>2, <1>5 DEF SessionOK, Formed
<1>7. Active(t) /\ Active(s)
  BY <1>2 DEF Active
<1>8. Faithful(r, t)
  BY <1>2, <1>4, <1>7 DEF SessionOK, Faithful
<1> QED BY <1>2, <1>4, <1>6, <1>7, <1>8 DEF SessionOK

\* The bytes that a slice of n bytes adds to the buffer.
Grown(r, s, n) == s.buffer \o Bytes(r, Taken(s) + 1, Taken(s) + n)

\* What the buffer and something before it spelled, they still spell.
LEMMA GrownSpells ==
    ASSUME NEW r \in Request, NEW s, Formed(s), NEW n \in 0 .. s.remaining
    PROVE  /\ Grown(r, s, n) \in Bodies /\ Len(Grown(r, s, n)) = Len(s.buffer) + n
           /\ s.buffer = Bytes(r, 1, Taken(s)) => Grown(r, s, n) = Bytes(r, 1, Taken(s) + n)
           /\ \A m \in Bodies : m \o s.buffer = Bytes(r, 1, Taken(s)) =>
                m \o Grown(r, s, n) = Bytes(r, 1, Taken(s) + n)
<1> DEFINE a == s.buffer
           T == Taken(s)
           b == Bytes(r, T + 1, T + n)
<1>1. s.buffer \in Bodies /\ s.wire \in 0 .. s.len /\ s.len \in Nat /\ s.remaining \in 0 .. s.wire
  BY DEF Formed
<1>2. T \in Nat /\ n \in Nat
  BY <1>1 DEF Taken
<1>3. b \in Bodies /\ Len(b) = n
  BY <1>2, BytesType
<1>4. Bytes(r, 1, T) \o b = Bytes(r, 1, T + n)
  BY <1>2, BytesJoin
<1>5. Grown(r, s, n) = a \o b
  BY DEF Grown
<1>6. a \in Bodies
  BY <1>1
<1> HIDE DEF a, b, T
<1>7. a \o b \in Bodies /\ Len(a \o b) = Len(a) + n
  BY <1>3, <1>6, ConcatProperties DEF Bodies
<1>8. ASSUME NEW m \in Bodies, m \o a = Bytes(r, 1, T)
      PROVE  m \o (a \o b) = Bytes(r, 1, T + n)
  <2> DEFINE S == (Request \cup {None}) \X Nat
  <2>1. m \in Seq(S) /\ a \in Seq(S) /\ b \in Seq(S)
    BY <1>3, <1>6 DEF Bodies
  <2> HIDE DEF S
  <2>2. (m \o a) \o b = m \o (a \o b)
    BY <2>1, ConcatAssociative, SMTT(40)
  <2> QED BY <1>4, <1>8, <2>2
<1> QED BY <1>4, <1>5, <1>7, <1>8 DEF a, T

\* accept_decoded, a slice that stays in the buffer.
LEMMA BufferedOK ==
    ASSUME NEW r \in Request, NEW s, SessionOK(r, s), s.pc = "stage",
           NEW n \in 0 .. s.remaining, s.kind # "direct" => Len(s.buffer) + n <= ChunkBytes,
           NEW t, DOMAIN t = DOMAIN NewSession, t.pc \in {"stage", "renew"},
           t.pc = "renew" => s.remaining = n, t.remaining = s.remaining - n,
           t.buffer = Grown(r, s, n),
           t.kind = s.kind, t.upload = s.upload, t.part = s.part, t.len = s.len,
           t.wire = s.wire, t.sequence = s.sequence, t.manifest = s.manifest
    PROVE  SessionOK(r, t) /\ Taken(t) = Taken(s) + n
<1>1. /\ s.len \in Nat /\ s.wire \in 0 .. s.len /\ s.remaining \in 0 .. s.wire
      /\ Formed(s) /\ Faithful(r, s)
  BY DEF SessionOK, Formed
<1>2. Taken(t) = Taken(s) + n /\ t.remaining \in 0 .. t.wire
  BY <1>1 DEF Taken
<1>3. Active(s) /\ Active(t) /\ t.pc # "ok"
  BY DEF Active
<1>4. t.buffer \in Bodies /\ Len(t.buffer) = Len(s.buffer) + n
  BY <1>1, GrownSpells
<1>5. t.kind = "direct" => t.buffer = Bytes(r, 1, Taken(t))
  BY <1>1, <1>2, <1>3, GrownSpells DEF Faithful
<1>6. t.kind = "put" => FlattenSeq(t.manifest) \o t.buffer = Bytes(r, 1, Taken(t))
  <2>1. FlattenSeq(s.manifest) \in Bodies
    BY <1>1, FlattenType DEF Formed, Bodies
  <2> DEFINE m == FlattenSeq(s.manifest)
  <2>2. s.kind = "put" => m \o s.buffer = Bytes(r, 1, Taken(s))
    BY <1>1, <1>3 DEF Faithful
  <2>3. m \in Bodies
    BY <2>1
  <2> HIDE DEF m
  <2>4. s.kind = "put" => m \o Grown(r, s, n) = Bytes(r, 1, Taken(s) + n)
    BY <1>1, <2>2, <2>3, GrownSpells
  <2> QED BY <1>2, <2>4 DEF m
<1>7. Faithful(r, t)
  BY <1>3, <1>5, <1>6 DEF Faithful
<1>8. t.kind = "direct" => Len(t.buffer) <= t.len
  <2> SUFFICES ASSUME t.kind = "direct" PROVE Len(t.buffer) <= t.len
    OBVIOUS
  <2>1. Taken(t) \in Nat /\ Taken(t) <= t.len
    BY <1>1, <1>2 DEF Taken
  <2>2. Len(Bytes(r, 0 + 1, 0 + Taken(t))) = Taken(t)
    BY <2>1, BytesType
  <2>3. Bytes(r, 0 + 1, 0 + Taken(t)) = Bytes(r, 1, Taken(t))
    BY <2>1
  <2> QED BY <1>5, <2>1, <2>2, <2>3
<1>9. t.kind # "direct" => Len(t.buffer) <= ChunkBytes
  BY <1>4
<1>10. Formed(t)
  BY <1>1, <1>2, <1>4, <1>8, <1>9 DEF Formed
<1> QED BY <1>2, <1>7, <1>10 DEF SessionOK

\* accept_decoded, a full buffer that is stored: a chunk of the manifest.
LEMMA StoredOK ==
    ASSUME NEW r \in Request, NEW s, SessionOK(r, s), s.pc = "stage", s.kind # "direct",
           NEW n \in 0 .. s.remaining,
           NEW t, DOMAIN t = DOMAIN NewSession, t.pc \in {"stage", "renew"},
           t.pc = "renew" => s.remaining = n, t.remaining = s.remaining - n,
           t.buffer = <<>>, t.sequence = s.sequence + 1,
           t.manifest = IF s.part = 0 THEN Append(s.manifest, Grown(r, s, n)) ELSE s.manifest,
           t.kind = s.kind, t.upload = s.upload, t.part = s.part, t.len = s.len,
           t.wire = s.wire
    PROVE  SessionOK(r, t) /\ Taken(t) = Taken(s) + n
<1>1. /\ s.len \in Nat /\ s.wire \in 0 .. s.len /\ s.remaining \in 0 .. s.wire
      /\ Formed(s) /\ Faithful(r, s) /\ s.manifest \in Seq(Bodies) /\ s.sequence \in Nat
  BY DEF SessionOK, Formed
<1>2. Taken(t) = Taken(s) + n /\ t.remaining \in 0 .. t.wire /\ t.sequence \in Nat
  <2>1. s.wire - (s.remaining - n) = (s.wire - s.remaining) + n
    BY <1>1
  <2>2. s.remaining - n \in 0 .. s.wire /\ s.sequence + 1 \in Nat
    BY <1>1
  <2> QED BY <2>1, <2>2 DEF Taken
<1>3. Active(s) /\ Active(t) /\ t.pc # "ok"
  BY DEF Active
<1>4. Grown(r, s, n) \in Bodies
  BY <1>1, GrownSpells
<1>5. t.manifest \in Seq(Bodies)
  BY <1>1, <1>4
<1>6. t.kind = "put" => FlattenSeq(t.manifest) \o t.buffer = Bytes(r, 1, Taken(t))
  <2> SUFFICES ASSUME t.kind = "put"
               PROVE  FlattenSeq(t.manifest) \o t.buffer = Bytes(r, 1, Taken(t))
    OBVIOUS
  <2> DEFINE S == (Request \cup {None}) \X Nat
             g == Grown(r, s, n)
             m == FlattenSeq(s.manifest)
  <2>1. s.part = 0
    BY <1>1 DEF Formed
  <2>2. s.manifest \in Seq(Seq(S)) /\ g \in Seq(S)
    BY <1>1, <1>4 DEF Bodies
  <2> HIDE DEF S, g
  <2>3. m \in Seq(S)
    BY <2>2, FlattenType
  <2>4. FlattenSeq(t.manifest) = m \o g
    BY <2>1, <2>2, FlattenAppend DEF g
  <2>5. m \o g \in Seq(S)
    BY <2>2, <2>3, ConcatProperties
  <2>6. (m \o g) \o <<>> = m \o g
    BY <2>5, ConcatEmptySeq
  <2>7. m \o s.buffer = Bytes(r, 1, Taken(s))
    BY <1>1, <1>3 DEF Faithful
  <2>8. m \in Bodies
    BY <2>3 DEF Bodies, S
  <2>9. m \o g = Bytes(r, 1, Taken(s) + n)
    BY <1>1, <2>7, <2>8, GrownSpells DEF g
  <2> HIDE DEF m
  <2> QED BY <1>2, <2>4, <2>6, <2>9
<1>7. Faithful(r, t)
  BY <1>3, <1>6 DEF Faithful
<1>8. Formed(t)
  BY <1>1, <1>2, <1>5, Empties, SizesAssumption DEF Formed
<1> QED BY <1>2, <1>7, <1>8 DEF SessionOK

-----------------------------------------------------------------------------
(* A row by itself.                                                        *)

\* The type of an upload row.
RowOK(row) ==
    /\ DOMAIN row = RowNames
    /\ row.state \in {"free", "pending", "gone"}
    /\ row.age \in 0 .. MaxAge + 1

\* A row that is pending after a step was before it, with the same chunks of a
\* part and the same part.
KeepsPart(old, row, p) ==
    row.state = "pending" =>
        /\ old.state = "pending"
        /\ ChunksOf(row, p) = ChunksOf(old, p)
        /\ \A x \in ChunksOf(old, p) : row.chunk[x] = old.chunk[x]
        /\ p \in DOMAIN row.part <=> p \in DOMAIN old.part
        /\ p \in DOMAIN old.part => row.part[p] = old.part[p]

\* renew_upload and the calls that do more.
LEMMA TouchedFields ==
    ASSUME NEW row, RowOK(row)
    PROVE  /\ RowOK(Leased(row)) /\ RowOK(Touched(row))
           /\ Leased(row).state = row.state /\ Touched(row).state = row.state
           /\ Leased(row).chunk = row.chunk /\ Touched(row).chunk = row.chunk
           /\ Leased(row).part = row.part /\ Touched(row).part = row.part
<1> DEFINE l == Leased(row)
<1>1. /\ DOMAIN l = RowNames /\ l.state = row.state /\ l.chunk = row.chunk
      /\ l.part = row.part /\ l.age = row.age
  BY DEF Leased, RowOK, RowNames
<1>2. Touched(row) = [l EXCEPT !.age = 0]
  BY DEF Touched
<1> HIDE DEF l
<1> DEFINE t == [l EXCEPT !.age = 0]
<1>3. /\ DOMAIN t = RowNames /\ t.state = row.state /\ t.chunk = row.chunk
      /\ t.part = row.part /\ t.age = 0
  BY <1>1 DEF RowNames
<1> HIDE DEF t
<1>4. RowOK(l) /\ RowOK(t)
  BY <1>1, <1>3, TimesAssumption DEF RowOK
<1> QED BY <1>1, <1>2, <1>3, <1>4 DEF l, t

\* A row that begins and a row that ends.
LEMMA NewRowOK ==
    ASSUME NEW m
    PROVE  RowOK(NewRow(m)) /\ NewRow(m).state = "pending"
BY TimesAssumption DEF RowOK, NewRow, FreeRow, RowNames

\* A deleted row is gone and keeps nothing.
LEMMA DeletedOK ==
    ASSUME NEW row
    PROVE  RowOK(Deleted(row)) /\ Deleted(row).state = "gone"
BY TimesAssumption DEF RowOK, Deleted, FreeRow, RowNames

\* begin_part and abort_part: nothing of the part is left, the others stay.
LEMMA BegunRow ==
    ASSUME NEW row, RowOK(row), NEW p, NEW b, b = BeginPart(row, p)
    PROVE  /\ RowOK(b) /\ b.state = row.state
           /\ ChunksOf(b, p) = {}
           /\ \A q : q # p => KeepsPart(row, b, q)
<1> DEFINE t == Touched(row)
           part == WithoutPart(row, p)
           chunk == Restrict(row.chunk, DOMAIN row.chunk \ ChunksOf(row, p))
<1>1. RowOK(t) /\ t.state = row.state
  BY TouchedFields
<1>2. b = [t EXCEPT !.part = part, !.chunk = chunk]
  BY DEF BeginPart
<1>3. /\ DOMAIN part = DOMAIN row.part \ {p}
      /\ \A q \in DOMAIN part : part[q] = row.part[q]
  BY DEF WithoutPart, Restrict
<1>4. /\ DOMAIN chunk = DOMAIN row.chunk \ ChunksOf(row, p)
      /\ \A x \in DOMAIN chunk : chunk[x] = row.chunk[x]
  BY DEF Restrict
<1> HIDE DEF t, part, chunk
<1>5. /\ DOMAIN b = RowNames /\ b.state = row.state /\ b.age = t.age
      /\ b.part = part /\ b.chunk = chunk
  BY <1>1, <1>2 DEF RowOK, RowNames
<1>6. RowOK(b)
  BY <1>1, <1>5 DEF RowOK
<1>7. ChunksOf(b, p) = {}
  BY <1>4, <1>5 DEF ChunksOf
<1>8. ASSUME NEW q, q # p PROVE KeepsPart(row, b, q)
  <2>1. ChunksOf(b, q) = ChunksOf(row, q)
    BY <1>4, <1>5, <1>8 DEF ChunksOf
  <2>2. \A x \in ChunksOf(row, q) : x \in DOMAIN chunk
    BY <1>4, <1>8 DEF ChunksOf
  <2> QED BY <1>3, <1>4, <1>5, <1>8, <2>1, <2>2 DEF KeepsPart
<1> QED BY <1>5, <1>6, <1>7, <1>8

\* put_chunk.
LEMMA PutRow ==
    ASSUME NEW row, RowOK(row), NEW p, NEW n, NEW data, NEW b, b = PutChunk(row, p, n, data)
    PROVE  /\ RowOK(b) /\ b.state = row.state
           /\ DOMAIN b.chunk = DOMAIN row.chunk \cup {<<p, n>>}
           /\ b.chunk[<<p, n>>] = data
           /\ \A x \in DOMAIN row.chunk : x # <<p, n>> => b.chunk[x] = row.chunk[x]
           /\ \A q : q # p => KeepsPart(row, b, q)
<1> DEFINE t == Touched(row)
           part == WithoutPart(row, p)
           chunk == [x \in DOMAIN row.chunk \cup {<<p, n>>} |->
                        IF x = <<p, n>> THEN data ELSE row.chunk[x]]
<1>1. RowOK(t) /\ t.state = row.state
  BY TouchedFields
<1>2. b = [t EXCEPT !.chunk = chunk, !.part = part]
  BY DEF PutChunk
<1>3. /\ DOMAIN part = DOMAIN row.part \ {p}
      /\ \A q \in DOMAIN part : part[q] = row.part[q]
  BY DEF WithoutPart, Restrict
<1>4. /\ DOMAIN chunk = DOMAIN row.chunk \cup {<<p, n>>} /\ chunk[<<p, n>>] = data
      /\ \A x \in DOMAIN row.chunk : x # <<p, n>> => chunk[x] = row.chunk[x]
  OBVIOUS
<1> HIDE DEF t, part, chunk
<1>5. /\ DOMAIN b = RowNames /\ b.state = row.state /\ b.age = t.age
      /\ b.part = part /\ b.chunk = chunk
  BY <1>1, <1>2 DEF RowOK, RowNames
<1>6. RowOK(b)
  BY <1>1, <1>5 DEF RowOK
<1>7. ASSUME NEW q, q # p PROVE KeepsPart(row, b, q)
  <2>1. <<p, n>>[1] = p
    OBVIOUS
  <2>2. \A x : x[1] = q => x # <<p, n>>
    BY <1>7, <2>1
  <2>3. ChunksOf(b, q) = ChunksOf(row, q)
    BY <1>4, <1>5, <2>2 DEF ChunksOf
  <2>4. \A x \in ChunksOf(row, q) : b.chunk[x] = row.chunk[x]
    BY <1>4, <1>5, <2>2 DEF ChunksOf
  <2> QED BY <1>3, <1>5, <1>7, <2>3, <2>4 DEF KeepsPart
<1> QED BY <1>4, <1>5, <1>6, <1>7

\* complete_part.
LEMMA CompletedRow ==
    ASSUME NEW row, RowOK(row), NEW p, NEW b, b = CompletePartRow(row, p)
    PROVE  /\ RowOK(b) /\ b.state = row.state
           /\ p \in DOMAIN b.part /\ b.part[p] = FlattenSeq(Staged(row, p))
           /\ \A q : q # p => KeepsPart(row, b, q)
<1> DEFINE t == BeginPart(row, p)
           body == FlattenSeq(Staged(row, p))
           part == [q \in DOMAIN row.part \cup {p} |-> IF q = p THEN body ELSE row.part[q]]
<1>1. RowOK(t) /\ t.state = row.state /\ \A q : q # p => KeepsPart(row, t, q)
  BY BegunRow
<1>2. b = [t EXCEPT !.part = part]
  BY DEF CompletePartRow
<1> HIDE DEF body
<1>3. /\ DOMAIN part = DOMAIN row.part \cup {p} /\ part[p] = body
      /\ \A q \in DOMAIN row.part : q # p => part[q] = row.part[q]
  OBVIOUS
<1> HIDE DEF t, part
<1>4. /\ DOMAIN b = RowNames /\ b.state = row.state /\ b.age = t.age
      /\ b.part = part /\ b.chunk = t.chunk
  BY <1>1, <1>2 DEF RowOK, RowNames
<1>5. RowOK(b)
  BY <1>1, <1>4 DEF RowOK
<1>6. ASSUME NEW q, q # p PROVE KeepsPart(row, b, q)
  BY <1>1, <1>3, <1>4, <1>6 DEF KeepsPart, ChunksOf
<1> QED BY <1>3, <1>4, <1>5, <1>6 DEF body

\* The keys of the first n chunks of a part, and those chunks.
Keys(p, n) == {<<p, i - 1>> : i \in 1 .. n}
Stage(row, p, n) == [i \in 1 .. n |-> row.chunk[<<p, i - 1>>]]

\* The row has exactly the first n chunks of a part, and they are bodies.
Holding(row, p, n) == ChunksOf(row, p) = Keys(p, n) /\ Stage(row, p, n) \in Seq(Bodies)

\* complete_part takes the chunks that are there.
LEMMA StagedIsStage ==
    ASSUME NEW row, NEW p, NEW n \in Nat, ChunksOf(row, p) = Keys(p, n)
    PROVE  Staged(row, p) = Stage(row, p, n)
<1> DEFINE f == [i \in 1 .. n |-> <<p, i - 1>>]
<1>1. f \in Bijection(1 .. n, Keys(p, n))
  <2>1. f \in [1 .. n -> Keys(p, n)]
    BY DEF Keys
  <2>2. \A i, j \in 1 .. n : f[i] = f[j] => i = j
    OBVIOUS
  <2>3. \A k \in Keys(p, n) : \E i \in 1 .. n : f[i] = k
    BY DEF Keys
  <2> HIDE DEF f
  <2> QED BY <2>1, <2>2, <2>3, Zenon DEF Bijection, Injection, Surjection, IsInjective
<1> HIDE DEF f
<1>2. IsFiniteSet(1 .. n) /\ Cardinality(1 .. n) = n
  BY FS_Interval
<1>3. Cardinality(Keys(p, n)) = n
  <2>1. ExistsBijection(1 .. n, Keys(p, n))
    BY <1>1 DEF ExistsBijection
  <2> QED BY <1>2, <2>1, FS_Bijection
<1> QED BY <1>3 DEF Staged, Stage

\* put_chunk appends to what is staged.
LEMMA PutStages ==
    ASSUME NEW row, RowOK(row), NEW p, NEW n \in Nat, NEW data \in Bodies, Holding(row, p, n),
           NEW b, b = PutChunk(row, p, n, data)
    PROVE  /\ Holding(b, p, n + 1)
           /\ FlattenSeq(Stage(b, p, n + 1)) = FlattenSeq(Stage(row, p, n)) \o data
<1>1. /\ DOMAIN b.chunk = DOMAIN row.chunk \cup {<<p, n>>} /\ b.chunk[<<p, n>>] = data
      /\ \A x \in DOMAIN row.chunk : x # <<p, n>> => b.chunk[x] = row.chunk[x]
  BY PutRow
<1>2. ChunksOf(row, p) = Keys(p, n) /\ Stage(row, p, n) \in Seq(Bodies)
  BY DEF Holding
<1>3. Keys(p, n + 1) = Keys(p, n) \cup {<<p, n>>}
  <2>1. \A i \in 1 .. n + 1 : i \in 1 .. n \/ i - 1 = n
    OBVIOUS
  <2>2. n + 1 \in 1 .. n + 1 /\ (n + 1) - 1 = n /\ \A i \in 1 .. n : i \in 1 .. n + 1
    OBVIOUS
  <2>3. ASSUME NEW x \in Keys(p, n + 1) PROVE x \in Keys(p, n) \cup {<<p, n>>}
    BY <2>1 DEF Keys
  <2>4. ASSUME NEW x \in Keys(p, n) \cup {<<p, n>>} PROVE x \in Keys(p, n + 1)
    BY <2>2 DEF Keys
  <2> QED BY <2>3, <2>4
<1>4. ChunksOf(b, p) = Keys(p, n + 1)
  BY <1>1, <1>2, <1>3 DEF ChunksOf
<1>5. Stage(b, p, n + 1) = Append(Stage(row, p, n), data)
  <2> DEFINE s == Stage(row, p, n)
             t == Stage(b, p, n + 1)
  <2>1. s \in Seq(Bodies) /\ Len(s) = n /\ \A i \in 1 .. n : s[i] = row.chunk[<<p, i - 1>>]
    BY <1>2 DEF Stage
  <2>2. t = [i \in 1 .. n + 1 |-> b.chunk[<<p, i - 1>>]]
    BY DEF Stage
  <2>3. ASSUME NEW i \in 1 .. n PROVE b.chunk[<<p, i - 1>>] = s[i]
    <3>1. <<p, i - 1>> \in Keys(p, n)
      BY DEF Keys
    <3>2. <<p, i - 1>> \in DOMAIN row.chunk /\ <<p, i - 1>> # <<p, n>>
      BY <1>2, <3>1 DEF ChunksOf
    <3> QED BY <1>1, <2>1, <3>2
  <2>4. b.chunk[<<p, (n + 1) - 1>>] = data
    BY <1>1
  <2> HIDE DEF s
  <2>5. /\ Append(s, data) \in Seq(Bodies) /\ Len(Append(s, data)) = n + 1
        /\ Append(s, data)[n + 1] = data /\ \A i \in 1 .. n : Append(s, data)[i] = s[i]
    BY <2>1
  <2> DEFINE a == Append(s, data)
  <2>6. a = [i \in 1 .. n + 1 |-> a[i]]
    <3>1. a \in Seq(Bodies) /\ Len(a) = n + 1
      BY <2>5
    <3> HIDE DEF a
    <3> QED BY <3>1
  <2> HIDE DEF a
  <2>7. \A i \in 1 .. n + 1 : a[i] = b.chunk[<<p, i - 1>>]
    <3> SUFFICES ASSUME NEW i \in 1 .. n + 1 PROVE a[i] = b.chunk[<<p, i - 1>>]
      OBVIOUS
    <3>1. CASE i = n + 1
      BY <2>4, <2>5, <3>1 DEF a
    <3>2. CASE i # n + 1
      BY <2>3, <2>5, <3>2 DEF a
    <3> QED BY <3>1, <3>2
  <2>8. t = a
    BY <2>2, <2>6, <2>7
  <2> QED BY <2>8 DEF s, a
<1>6. Stage(b, p, n + 1) \in Seq(Bodies)
  BY <1>2, <1>5
<1>7. FlattenSeq(Append(Stage(row, p, n), data)) = FlattenSeq(Stage(row, p, n)) \o data
  <2> DEFINE S == (Request \cup {None}) \X Nat
             g == Stage(row, p, n)
  <2>1. g \in Seq(Seq(S)) /\ data \in Seq(S)
    BY <1>2 DEF Bodies
  <2> HIDE DEF S, g
  <2> QED BY <2>1, FlattenAppend DEF g
<1> QED BY <1>4, <1>5, <1>6, <1>7 DEF Holding

-----------------------------------------------------------------------------
(* The invariants.                                                         *)

\* Every session and every row by itself.
Typing ==
    /\ DOMAIN session = Request /\ DOMAIN upload = Upload
    /\ \A r \in Request : SessionOK(r, session[r])
    /\ \A u \in Upload : RowOK(upload[u])
    /\ DOMAIN lastTry \subseteq Upload \X PartNo

\* The bytes of an UploadPart: in the staged chunks of its part and the buffer.
Staging(r) ==
    LET s == session[r]
        row == upload[s.upload]
    IN Active(s) /\ s.kind = "part" /\ Pending(s.upload) =>
         /\ Holding(row, s.part, s.sequence)
         /\ FlattenSeq(Stage(row, s.part, s.sequence)) \o s.buffer = Bytes(r, 1, Taken(s))

\* The answer of an UploadPart is the ETag of its body.
EtagRight(r) ==
    session[r].pc = "ok" /\ session[r].kind = "part" => session[r].etag = BodyOf(r)

\* Only the last try of a part is still in the hands of a worker.
Tries ==
    /\ \A x \in DOMAIN lastTry :
         LET r == lastTry[x]
         IN /\ r \in Request /\ session[r].pc # "new" /\ session[r].kind = "part"
            /\ session[r].upload = x[1] /\ session[r].part = x[2]
    /\ \A r \in Request :
         session[r].kind = "part" =>
           /\ upload[session[r].upload].state # "free"
           /\ Held(session[r]) =>
                LET x == <<session[r].upload, session[r].part>>
                IN x \in DOMAIN lastTry /\ lastTry[x] = r

\* What is published was sent by requests that have been answered.
ObjectOK(o) ==
    /\ o.sent \in Seq(Request)
    /\ \A i \in DOMAIN o.sent : session[o.sent[i]].pc = "ok"
    /\ o.body = FlattenSeq([i \in DOMAIN o.sent |-> BodyOf(o.sent[i])])

\* The data invariant: what is staged, who tries which part, what an answered part
\* is, and what is published.
Data ==
    /\ \A r \in Request : Staging(r) /\ EtagRight(r)
    /\ Tries
    /\ AnsweredPartKept
    /\ \A o \in object : ObjectOK(o)

-----------------------------------------------------------------------------
(* Steps.                                                                  *)

\* A session that a step leaves alone, but for its clocks.
Waits(q) == SameData(session[q], session'[q]) /\ session'[q].pc = session[q].pc

\* A session that a step moves on.
Advances(q) ==
    /\ SessionOK(q, session'[q]) /\ session'[q].pc # "new"
    /\ session[q].pc \notin {"ok", "error", "crashed"}
    /\ session[q].pc = "new" => session'[q].kind # "part"
    /\ session[q].pc # "new" =>
         /\ session'[q].kind = session[q].kind /\ session'[q].upload = session[q].upload
         /\ session'[q].part = session[q].part /\ session'[q].len = session[q].len

\* A worker holds the session of this part of this upload.
Owns(q, u, p) ==
    /\ session[q].kind = "part" /\ Held(session[q])
    /\ session[q].upload = u /\ session[q].part = p

\* What a step of the sessions in M does to a row: a part changes only by the
\* session that owns it.
RowSteps(M, u) ==
    /\ RowOK(upload'[u])
    /\ upload[u].state # "free" => upload'[u].state # "free"
    /\ upload[u].state # "free" =>
         \A p \in PartNo : \/ KeepsPart(upload[u], upload'[u], p)
                            \/ \E q \in M : Owns(q, u, p)

\* A step that moves the sessions in M and leaves the others waiting.
Effects(M) ==
    /\ M \subseteq Request
    /\ DOMAIN session' = Request /\ DOMAIN upload' = Upload
    /\ \A q \in Request : IF q \in M THEN Advances(q) ELSE Waits(q)
    /\ \A u \in Upload : RowSteps(M, u)

\* What a session that moves on owes, if it is an UploadPart.
Delivers(q) ==
    /\ Staging(q)'
    /\ EtagRight(q)'
    /\ session'[q].pc = "ok" /\ session'[q].kind = "part" /\ upload'[session'[q].upload].state = "pending" =>
         /\ session'[q].part \in DOMAIN upload'[session'[q].upload].part
         /\ upload'[session'[q].upload].part[session'[q].part] = Bytes(q, 1, session'[q].len)

\* Such steps keep the types.
LEMMA EffectsType ==
    ASSUME Typing, NEW M, Effects(M), UNCHANGED lastTry
    PROVE  Typing'
<1>1. ASSUME NEW q \in Request PROVE SessionOK(q, session'[q])
  <2>1. SessionOK(q, session[q])
    BY DEF Typing
  <2>2. CASE Waits(q)
    BY <2>1, <2>2, SameDataOK DEF Waits, Turns
  <2>3. CASE Advances(q)
    BY <2>3 DEF Advances
  <2> QED BY <2>2, <2>3 DEF Effects
<1> QED BY <1>1 DEF Typing, Effects, RowSteps

\* A session that has begun and not ended is in the hands of a worker.
LEMMA HeldOrDone ==
    ASSUME NEW s, Formed(s)
    PROVE  Held(s) <=> s.pc \notin {"new", "ok", "error", "crashed"}
BY DEF Formed, Held, Active

\* A session that waits, in terms of its fields.
LEMMA WaitsFields ==
    ASSUME NEW q, Waits(q)
    PROVE  /\ session'[q].pc = session[q].pc /\ session'[q].kind = session[q].kind
           /\ session'[q].upload = session[q].upload /\ session'[q].part = session[q].part
           /\ session'[q].len = session[q].len /\ session'[q].sequence = session[q].sequence
           /\ session'[q].buffer = session[q].buffer /\ session'[q].etag = session[q].etag
           /\ Taken(session'[q]) = Taken(session[q])
BY SameDataFields DEF Waits

\* A row that keeps a part keeps what is staged of it.
LEMMA KeptStage ==
    ASSUME NEW old, NEW row, NEW p, NEW n, KeepsPart(old, row, p), row.state = "pending",
           Holding(old, p, n)
    PROVE  Holding(row, p, n) /\ Stage(row, p, n) = Stage(old, p, n)
<1>1. /\ ChunksOf(row, p) = ChunksOf(old, p)
      /\ \A x \in ChunksOf(old, p) : row.chunk[x] = old.chunk[x]
  BY DEF KeepsPart
<1>2. ChunksOf(old, p) = Keys(p, n)
  BY DEF Holding
<1>3. \A i \in 1 .. n : <<p, i - 1>> \in Keys(p, n)
  BY DEF Keys
<1>4. \A i \in 1 .. n : row.chunk[<<p, i - 1>>] = old.chunk[<<p, i - 1>>]
  BY <1>1, <1>2, <1>3
<1>5. Stage(row, p, n) = Stage(old, p, n)
  BY <1>4 DEF Stage
<1> QED BY <1>1, <1>5 DEF Holding

\* A part is taken by one session, the last try of it.
LEMMA OneOwner ==
    ASSUME Tries, NEW q \in Request, NEW r \in Request, NEW u, NEW p,
           Owns(q, u, p), Owns(r, u, p)
    PROVE  q = r
<1>1. lastTry[<<session[q].upload, session[q].part>>] = q
  BY DEF Tries, Owns
<1>2. lastTry[<<session[r].upload, session[r].part>>] = r
  BY DEF Tries, Owns
<1> QED BY <1>1, <1>2 DEF Owns

\* The upload and the part of an UploadPart.
LEMMA PartOf ==
    ASSUME Typing, NEW q \in Request, session[q].kind = "part"
    PROVE  session[q].upload \in Upload /\ session[q].part \in PartNo
BY DEF Typing, SessionOK, Formed

\* Such steps keep the bytes, if the sessions that move on deliver.
LEMMA EffectsData ==
    ASSUME Typing, Data, NEW M, Effects(M), UNCHANGED lastTry,
           \A q \in M : Delivers(q),
           \A o \in object' : o \in object \/ ObjectOK(o)'
    PROVE  Data'
<1>1. Typing'
  BY EffectsType
<1>2. M \subseteq Request /\ \A q \in Request : IF q \in M THEN Advances(q) ELSE Waits(q)
  BY DEF Effects
<1>3. Tries
  BY DEF Data
<1>4. ASSUME NEW q \in Request PROVE Staging(q)'
  <2>1. CASE q \in M
    BY <2>1 DEF Delivers
  <2>2. CASE Waits(q) /\ q \notin M
    <3> DEFINE u == session[q].upload
               p == session[q].part
    <3> SUFFICES ASSUME Active(session'[q]), session'[q].kind = "part", Pending(session[q].upload)'
                 PROVE  /\ Holding(upload'[u], p, session[q].sequence)
                        /\ FlattenSeq(Stage(upload'[u], p, session[q].sequence)) \o session[q].buffer
                              = Bytes(q, 1, Taken(session[q]))
      BY <2>2, WaitsFields DEF Staging
    <3>1. /\ Active(session[q]) /\ session[q].kind = "part" /\ session'[q].upload = u
          /\ upload'[u].state = "pending"
      BY <2>2, WaitsFields DEF Active, Pending
    <3>2. u \in Upload /\ p \in PartNo /\ u # None
      BY <3>1, PartOf, SizesAssumption
    <3>3. Owns(q, u, p)
      BY <3>1 DEF Owns, Held
    <3>4. KeepsPart(upload[u], upload'[u], p)
      <4>1. ASSUME NEW r \in M, Owns(r, u, p) PROVE FALSE
        <5>1. r = q
          BY <1>2, <1>3, <3>3, <4>1, OneOwner
        <5> QED BY <2>2, <4>1, <5>1
      <4>2. upload[u].state # "free"
        BY <1>3, <3>1 DEF Tries
      <4> QED BY <3>2, <4>1, <4>2 DEF Effects, RowSteps
    <3>5. Pending(u)
      BY <3>1, <3>2, <3>4 DEF KeepsPart, Pending
    <3>6. /\ Holding(upload[u], p, session[q].sequence)
          /\ FlattenSeq(Stage(upload[u], p, session[q].sequence)) \o session[q].buffer
                = Bytes(q, 1, Taken(session[q]))
      BY <3>1, <3>5 DEF Data, Staging
    <3> DEFINE n == session[q].sequence
               b == session[q].buffer
    <3> HIDE DEF u, p, n, b
    <3>7. Holding(upload[u], p, n) /\ FlattenSeq(Stage(upload[u], p, n)) \o b = Bytes(q, 1, Taken(session[q]))
      BY <3>6 DEF n, b
    <3>8. Holding(upload'[u], p, n) /\ Stage(upload'[u], p, n) = Stage(upload[u], p, n)
      BY <3>1, <3>4, <3>7, KeptStage
    <3>9. FlattenSeq(Stage(upload'[u], p, n)) \o b = Bytes(q, 1, Taken(session[q]))
      BY <3>7, <3>8
    <3> QED BY <3>8, <3>9 DEF n, b
  <2> QED BY <1>2, <2>1, <2>2
<1>5. ASSUME NEW q \in Request PROVE EtagRight(q)'
  <2>1. CASE q \in M
    BY <2>1 DEF Delivers
  <2>2. CASE Waits(q)
    <3>1. EtagRight(q)
      BY DEF Data
    <3> QED BY <2>2, <3>1, WaitsFields DEF EtagRight, BodyOf
  <2> QED BY <1>2, <2>1, <2>2
<1>6. ASSUME NEW q \in Request, session[q].pc # "new"
      PROVE  /\ session'[q].kind = session[q].kind /\ session'[q].upload = session[q].upload
             /\ session'[q].part = session[q].part /\ session'[q].len = session[q].len
  BY <1>2, <1>6, WaitsFields DEF Advances
<1>7. ASSUME NEW q \in Request, session[q].pc = "ok"
      PROVE  session'[q].pc = "ok"
  BY <1>2, <1>7, WaitsFields DEF Advances
<1>8. ASSUME NEW q \in Request, session'[q].kind = "part"
      PROVE  /\ session[q].kind = "part" /\ session'[q].upload = session[q].upload
             /\ session'[q].part = session[q].part
             /\ Held(session'[q]) => Held(session[q])
  <2>1. CASE Waits(q)
    BY <1>8, <2>1, WaitsFields DEF Held, Active
  <2>2. CASE Advances(q)
    <3>1. session[q].pc \notin {"new", "ok", "error", "crashed"}
      BY <1>8, <2>2 DEF Advances
    <3>2. Formed(session[q])
      BY DEF Typing, SessionOK
    <3>3. Held(session[q])
      BY <3>1, <3>2, HeldOrDone
    <3> QED BY <1>6, <1>8, <3>1, <3>3
  <2> QED BY <1>2, <2>1, <2>2
<1>9. Tries'
  <2>1. ASSUME NEW x \in DOMAIN lastTry'
        PROVE  /\ lastTry'[x] \in Request /\ session'[lastTry'[x]].pc # "new"
               /\ session'[lastTry'[x]].kind = "part"
               /\ session'[lastTry'[x]].upload = x[1] /\ session'[lastTry'[x]].part = x[2]
    <3> DEFINE r == lastTry[x]
    <3>1. /\ lastTry'[x] = r /\ r \in Request /\ session[r].pc # "new" /\ session[r].kind = "part"
          /\ session[r].upload = x[1] /\ session[r].part = x[2]
      BY <1>3 DEF Tries
    <3>2. session'[r].pc # "new"
      <4>1. CASE Waits(r)
        BY <3>1, <4>1, WaitsFields
      <4>2. CASE Advances(r)
        <5>1. session'[r].kind = "part" /\ session'[r].upload = session[r].upload
          BY <1>6, <3>1
        <5> QED BY <3>1, <4>2, <5>1 DEF Advances
      <4> QED BY <1>2, <3>1, <4>1, <4>2
    <3> QED BY <1>6, <3>1, <3>2
  <2>2. ASSUME NEW q \in Request, session'[q].kind = "part"
        PROVE  /\ upload'[session'[q].upload].state # "free"
               /\ Held(session'[q]) =>
                    /\ <<session'[q].upload, session'[q].part>> \in DOMAIN lastTry'
                    /\ lastTry'[<<session'[q].upload, session'[q].part>>] = q
    <3>1. /\ session[q].kind = "part" /\ session'[q].upload = session[q].upload
          /\ session'[q].part = session[q].part /\ (Held(session'[q]) => Held(session[q]))
      BY <1>8, <2>2
    <3>2. session[q].upload \in Upload
      BY <3>1, PartOf
    <3>3. /\ upload[session[q].upload].state # "free"
          /\ Held(session[q]) =>
               /\ <<session[q].upload, session[q].part>> \in DOMAIN lastTry
               /\ lastTry[<<session[q].upload, session[q].part>>] = q
      BY <1>3, <3>1 DEF Tries
    <3>4. upload'[session[q].upload].state # "free"
      BY <3>2, <3>3 DEF Effects, RowSteps
    <3> QED BY <3>1, <3>3, <3>4
  <2> QED BY <2>1, <2>2 DEF Tries
<1>10. AnsweredPartKept'
  <2> SUFFICES ASSUME NEW x \in DOMAIN lastTry', Pending(x[1])', session'[lastTry'[x]].pc = "ok"
               PROVE  /\ x[2] \in DOMAIN upload'[x[1]].part
                      /\ upload'[x[1]].part[x[2]] = Bytes(lastTry'[x], 1, session'[lastTry'[x]].len)
    BY DEF AnsweredPartKept, BodyOf
  <2> DEFINE r == lastTry[x]
             u == x[1]
             p == x[2]
  <2>1. /\ lastTry'[x] = r /\ r \in Request /\ session[r].pc # "new" /\ session[r].kind = "part"
        /\ session[r].upload = u /\ session[r].part = p /\ x \in DOMAIN lastTry
    BY <1>3 DEF Tries
  <2>2. u \in Upload /\ p \in PartNo /\ upload'[u].state = "pending" /\ u # None
    BY <2>1, PartOf, SizesAssumption DEF Pending
  <2>3. /\ session'[r].kind = "part" /\ session'[r].upload = u /\ session'[r].part = p
        /\ session'[r].len = session[r].len /\ session'[r].pc = "ok"
    BY <1>6, <2>1
  <2>4. CASE r \in M
    <3>1. Delivers(r)
      BY <2>1, <2>4
    <3> HIDE DEF r, u, p
    <3> QED BY <2>1, <2>2, <2>3, <3>1 DEF Delivers, u, p
  <2>5. CASE r \notin M
    <3>1. session[r].pc = "ok"
      BY <1>2, <2>1, <2>3, <2>5, WaitsFields
    <3>2. KeepsPart(upload[u], upload'[u], p)
      <4>1. ASSUME NEW q \in M, Owns(q, u, p) PROVE FALSE
        <5> DEFINE y == <<session[q].upload, session[q].part>>
        <5>1. y \in DOMAIN lastTry /\ lastTry[y] = q
          BY <1>2, <1>3, <4>1 DEF Tries, Owns
        <5>2. x = <<x[1], x[2]>>
          BY DEF Typing
        <5>3. y = x
          BY <4>1, <5>2 DEF Owns
        <5>4. Held(session[r])
          BY <4>1, <5>1, <5>3 DEF Owns
        <5> QED BY <3>1, <5>4 DEF Held, Active
      <4>2. upload[u].state # "free"
        BY <1>3, <2>1, ZenonT(40) DEF Tries
      <4> QED BY <2>2, <4>1, <4>2 DEF Effects, RowSteps
    <3>3. Pending(u)
      BY <2>2, <3>2 DEF KeepsPart, Pending
    <3>4. p \in DOMAIN upload[u].part /\ upload[u].part[p] = Bytes(r, 1, session[r].len)
      BY <2>1, <3>1, <3>3 DEF Data, AnsweredPartKept, BodyOf
    <3>5. p \in DOMAIN upload'[u].part /\ upload'[u].part[p] = upload[u].part[p]
      BY <2>2, <3>2, <3>4 DEF KeepsPart
    <3> QED BY <2>1, <2>3, <3>4, <3>5
  <2> QED BY <2>4, <2>5
<1>11. ASSUME NEW o \in object' PROVE ObjectOK(o)'
  <2>1. CASE o \in object
    <3>1. /\ o.sent \in Seq(Request) /\ \A i \in DOMAIN o.sent : session[o.sent[i]].pc = "ok"
          /\ o.body = FlattenSeq([i \in DOMAIN o.sent |-> BodyOf(o.sent[i])])
      BY <2>1 DEF Data, ObjectOK
    <3>2. ASSUME NEW i \in DOMAIN o.sent
          PROVE  session'[o.sent[i]].pc = "ok" /\ BodyOf(o.sent[i])' = BodyOf(o.sent[i])
      <4>1. o.sent[i] \in Request /\ session[o.sent[i]].pc = "ok"
        BY <3>1
      <4> QED BY <1>6, <1>7, <4>1 DEF BodyOf
    <3>3. [i \in DOMAIN o.sent |-> BodyOf(o.sent[i])'] = [i \in DOMAIN o.sent |-> BodyOf(o.sent[i])]
      BY <3>2
    <3> QED BY <3>1, <3>2, <3>3 DEF ObjectOK
  <2> QED BY <2>1
<1> QED BY <1>4, <1>5, <1>9, <1>10, <1>11 DEF Data

\* A row that keeps its state, chunks and parts.
LEMMA SameRow ==
    ASSUME NEW M, NEW u, RowOK(upload'[u]), upload'[u].state = upload[u].state,
           upload'[u].chunk = upload[u].chunk, upload'[u].part = upload[u].part
    PROVE  RowSteps(M, u)
BY DEF RowSteps, KeepsPart, ChunksOf

\* A step of one session, or of none, and at most one row.
LEMMA SmallStep ==
    ASSUME Typing, NEW M, M \subseteq Request, DOMAIN session' = Request,
           \A q \in M : Advances(q),
           \A q \in Request \ M : session'[q] = session[q],
           NEW u, OnlyRow(u), u \in Upload => RowSteps(M, u)
    PROVE  Effects(M)
<1>1. ASSUME NEW q \in Request \ M PROVE Waits(q)
  <2>1. session'[q] = session[q] /\ Formed(session[q])
    BY DEF Typing, SessionOK
  <2> QED BY <2>1 DEF Waits, SameData, Formed
<1>2. ASSUME NEW v \in Upload PROVE RowSteps(M, v)
  <2>1. CASE v = u
    BY <2>1
  <2>2. CASE v # u
    <3>1. upload'[v] = upload[v] /\ RowOK(upload[v])
      BY <2>2 DEF OnlyRow, Typing
    <3> QED BY <3>1, SameRow
  <2> QED BY <2>1, <2>2
<1> QED BY <1>1, <1>2 DEF Effects, OnlyRow

\* A step that leaves the rows alone.
LEMMA RowsAlone ==
    ASSUME Typing, UNCHANGED upload
    PROVE  OnlyRow(None) /\ None \notin Upload
BY SizesAssumption DEF Typing, OnlyRow

-----------------------------------------------------------------------------
(* The actions.                                                            *)

\* A step keeps the types and the bytes.
StepOK == Typing' /\ (Data => Data')

\* Only an UploadPart that goes on or is answered owes anything.
LEMMA OwesNothing ==
    ASSUME NEW r,
           session'[r].kind # "part" \/ session'[r].pc \in {"cleanup", "error", "crashed"}
    PROVE  Delivers(r)
BY DEF Delivers, Staging, EtagRight, Active

\* One session moves on.
LEMMA OneMoves ==
    ASSUME Typing, NEW r \in Request, NEW t, session' = [session EXCEPT ![r] = t],
           Advances(r), NEW u, OnlyRow(u), u \in Upload => RowSteps({r}, u),
           UNCHANGED lastTry, Data => Delivers(r),
           Data => \A o \in object' : o \in object \/ ObjectOK(o)'
    PROVE  StepOK
<1>1. /\ DOMAIN session' = Request /\ \A q \in Request \ {r} : session'[q] = session[q]
  BY DEF Typing
<1>2. Effects({r})
  BY <1>1, SmallStep
<1> QED BY <1>2, EffectsType, EffectsData DEF StepOK

\* The session of a step, before it.
LEMMA SessionTyped ==
    ASSUME Typing, NEW r \in Request
    PROVE  /\ SessionOK(r, session[r]) /\ Formed(session[r]) /\ Faithful(r, session[r])
           /\ DOMAIN session[r] = DOMAIN NewSession
           /\ \A t : session' = [session EXCEPT ![r] = t] => session'[r] = t
BY DEF Typing, SessionOK, Formed

\* A step that leaves the chunks and the bytes taken alone.
LEMMA StagingKept ==
    ASSUME Data, NEW r \in Request, Active(session[r]),
           session'[r].kind = session[r].kind, session'[r].upload = session[r].upload,
           session'[r].part = session[r].part, session'[r].sequence = session[r].sequence,
           session'[r].buffer = session[r].buffer, Taken(session'[r]) = Taken(session[r]),
           session'[r].pc # "ok",
           upload'[session[r].upload].state = upload[session[r].upload].state,
           upload'[session[r].upload].chunk = upload[session[r].upload].chunk
    PROVE  Delivers(r)
<1>1. Staging(r)
  BY DEF Data
<1>2. Staging(r)'
  BY <1>1 DEF Staging, Pending, Holding, Stage, ChunksOf
<1> QED BY <1>2 DEF Delivers, EtagRight

\* prepare of a PutObject: direct, or staged under a new upload.
LEMMA HandlePutData ==
    ASSUME Typing, NEW r \in Request, HandlePut(r)
    PROVE  StepOK
<1>1. PICK n \in BodyLen, f \in BOOLEAN, e \in BOOLEAN :
        LET direct == f /\ ~e /\ n <= DirectBytes
            s == PutBegun(n, f)
        IN \/ /\ direct
              /\ session' = [session EXCEPT ![r] = [s EXCEPT !.kind = "direct"]]
              /\ UNCHANGED upload
           \/ /\ ~direct
              /\ \E u \in Upload :
                   /\ upload[u].state = "free"
                   /\ session' = [session EXCEPT ![r] = [s EXCEPT !.upload = u]]
                   /\ upload' = [upload EXCEPT ![u] = NewRow(FALSE)]
  BY DEF HandlePut, PutBegun
<1>2. session[r].pc = "new" /\ UNCHANGED <<lastTry, object>>
  BY DEF HandlePut
<1> DEFINE s == PutBegun(n, f)
<1>3. CASE n <= DirectBytes /\ session' = [session EXCEPT ![r] = [s EXCEPT !.kind = "direct"]]
           /\ UNCHANGED upload
  <2> DEFINE t == [s EXCEPT !.kind = "direct"]
  <2>1. SessionOK(r, t) /\ t.kind # "part"
    BY <1>3, BegunDirectOK
  <2>2. t.pc = "read"
    BY PutBegunFields DEF NewSession
  <2>3. session' = [session EXCEPT ![r] = t]
    BY <1>3
  <2> HIDE DEF t
  <2>4. session'[r] = t
    BY <2>3, SessionTyped
  <2>5. Advances(r)
    BY <1>2, <2>1, <2>2, <2>4 DEF Advances
  <2> QED BY <1>2, <1>3, <2>1, <2>3, <2>4, <2>5, OneMoves, OwesNothing, RowsAlone
<1>4. ASSUME NEW u \in Upload, upload[u].state = "free",
             session' = [session EXCEPT ![r] = [s EXCEPT !.upload = u]],
             upload' = [upload EXCEPT ![u] = NewRow(FALSE)]
      PROVE  StepOK
  <2> DEFINE t == [s EXCEPT !.upload = u]
  <2>1. SessionOK(r, t) /\ t.kind # "part"
    BY BegunPutOK
  <2>2. t.pc = "read"
    BY PutBegunFields DEF NewSession
  <2>3. session' = [session EXCEPT ![r] = t]
    BY <1>4
  <2> HIDE DEF t
  <2>4. session'[r] = t
    BY <2>3, SessionTyped
  <2>5. Advances(r)
    BY <1>2, <2>1, <2>2, <2>4 DEF Advances
  <2>6. OnlyRow(u) /\ upload'[u] = NewRow(FALSE)
    BY <1>4 DEF Typing, OnlyRow
  <2>7. RowSteps({r}, u)
    BY <1>4, <2>6, NewRowOK DEF RowSteps
  <2> QED BY <1>2, <2>1, <2>3, <2>4, <2>5, <2>6, <2>7, OneMoves, OwesNothing
<1> QED BY <1>1, <1>3, <1>4

\* push_body: bytes arrive and wait to be staged.
LEMMA PushBodyData ==
    ASSUME Typing, NEW r \in Request, PushBody(r)
    PROVE  StepOK
<1> DEFINE s == session[r]
<1>1. PICK k \in 1 .. s.len - s.wire : session' = [session EXCEPT ![r] = Pushed(s, k)]
  BY Zenon DEF PushBody, Pushed
<1>2. s.pc = "read" /\ UNCHANGED <<upload, lastTry, object>>
  BY DEF PushBody
<1> DEFINE t == Pushed(s, k)
<1>3. SessionOK(r, s)
  BY SessionTyped
<1>4. t.pc = "stage"
  BY SessionTyped DEF NewSession, Pushed
<1>5. session' = [session EXCEPT ![r] = t]
  BY <1>1
<1>6. t = Pushed(s, k) /\ k \in 1 .. s.len - s.wire
  BY <1>1
<1> HIDE DEF t, s
<1>7. /\ SessionOK(r, t) /\ Active(t) /\ t.kind = s.kind /\ t.upload = s.upload
      /\ t.part = s.part /\ t.len = s.len /\ t.sequence = s.sequence
      /\ t.buffer = s.buffer /\ Taken(t) = Taken(s)
  BY <1>2, <1>3, <1>6, PushedOK
<1>8. session'[r] = t
  BY <1>5, SessionTyped
<1>9. Advances(r)
  BY <1>2, <1>4, <1>7, <1>8 DEF Advances, s
<1>10. Data => Delivers(r)
  <2>1. Active(session[r])
    BY <1>2 DEF Active, s
  <2> QED BY <1>2, <1>4, <1>7, <1>8, <2>1, StagingKept DEF s
<1> QED BY <1>2, <1>5, <1>9, <1>10, OneMoves, RowsAlone

\* A session that is given up: its control moves to the cleanup.
LEMMA GivesUp ==
    ASSUME Typing, NEW r \in Request,
           session[r].pc \in {"read", "stage", "renew", "complete_part"},
           session' = [session EXCEPT ![r].pc = "cleanup"], UNCHANGED <<upload, lastTry, object>>
    PROVE  StepOK
<1> DEFINE s == session[r]
           t == [s EXCEPT !.pc = "cleanup"]
<1>1. SessionOK(r, s) /\ DOMAIN s = DOMAIN NewSession
  BY SessionTyped
<1>2. session' = [session EXCEPT ![r] = t]
  OBVIOUS
<1>3. session'[r] = t
  BY <1>2, SessionTyped
<1>4. t.pc = "cleanup" /\ SameData(s, t)
  BY <1>1 DEF NewSession, SameData, DataFields
<1> HIDE DEF t
<1>5. SessionOK(r, t)
  BY <1>1, <1>4, SameDataOK DEF Turns
<1>6. Advances(r)
  BY <1>3, <1>4, <1>5, SameDataFields DEF Advances
<1>7. Delivers(r)
  BY <1>3, <1>4, OwesNothing
<1> QED BY <1>2, <1>6, <1>7, OneMoves, RowsAlone

\* fail_session.
LEMMA SessionFailsData ==
    ASSUME Typing, NEW r \in Request, SessionFails(r)
    PROVE  StepOK
BY GivesUp DEF SessionFails, BodyComplete

\* abort_body.
LEMMA AbortBodyData ==
    ASSUME Typing, NEW r \in Request, AbortBody(r)
    PROVE  StepOK
BY GivesUp DEF AbortBody

\* A session that ends.
LEMMA EndsAdvance ==
    ASSUME Typing, NEW r \in Request, Held(session[r]),
           NEW pc \in {"ok", "error", "crashed"}, NEW etag,
           session' = [session EXCEPT ![r] = Ended(session[r], pc, etag)],
           pc = "ok" /\ session[r].kind # "part" => etag = Bytes(r, 1, session[r].len)
    PROVE  /\ Advances(r) /\ session'[r].pc = pc /\ session'[r].etag = etag
           /\ session'[r].kind = session[r].kind /\ session'[r].upload = session[r].upload
           /\ session'[r].part = session[r].part /\ session'[r].len = session[r].len
<1> DEFINE t == Ended(session[r], pc, etag)
<1>1. SessionOK(r, session[r]) /\ Formed(session[r])
  BY SessionTyped
<1>2. /\ SessionOK(r, t) /\ t.pc = pc /\ t.etag = etag /\ t.kind = session[r].kind
      /\ t.upload = session[r].upload /\ t.part = session[r].part /\ t.len = session[r].len
  BY <1>1, EndedOK
<1>3. session'[r] = t
  BY SessionTyped
<1> HIDE DEF t
<1>4. session[r].pc \notin {"new", "ok", "error", "crashed"}
  BY <1>1, HeldOrDone
<1> QED BY <1>2, <1>3, <1>4 DEF Advances

\* A worker that dies leaves the rows as they are.
LEMMA WorkerDiesData ==
    ASSUME Typing, NEW r \in Request, WorkerDies(r)
    PROVE  StepOK
<1> DEFINE t == Ended(session[r], "crashed", <<>>)
<1>1. /\ Held(session[r]) /\ session' = [session EXCEPT ![r] = t]
      /\ UNCHANGED <<upload, lastTry, object>>
  BY DEF WorkerDies, Held
<1>2. Advances(r) /\ session'[r].pc = "crashed"
  BY <1>1, EndsAdvance
<1> HIDE DEF t
<1> QED BY <1>1, <1>2, OwesNothing, OneMoves, RowsAlone

\* cleanup: the upload of a PutObject, or the chunks of a part, are dropped.
LEMMA CleanupData ==
    ASSUME Typing, NEW r \in Request, Cleanup(r)
    PROVE  StepOK
<1> DEFINE s == session[r]
           u == s.upload
           t == Ended(s, "error", <<>>)
           b == IF s.part = 0 THEN Deleted(upload[u]) ELSE BeginPart(upload[u], s.part)
<1>1. /\ s.pc = "cleanup" /\ session' = [session EXCEPT ![r] = t]
      /\ UNCHANGED <<lastTry, object>>
      /\ UNCHANGED upload \/ (Pending(u) /\ upload' = [upload EXCEPT ![u] = b])
  BY DEF Cleanup
<1>2. Held(s)
  BY <1>1 DEF Held
<1>3. Advances(r) /\ session'[r].pc = "error"
  BY <1>1, <1>2, EndsAdvance
<1>4. Delivers(r)
  BY <1>3, OwesNothing
<1> HIDE DEF t
<1>5. CASE UNCHANGED upload
  BY <1>1, <1>3, <1>4, <1>5, OneMoves, RowsAlone
<1>6. CASE Pending(u) /\ upload' = [upload EXCEPT ![u] = b]
  <2>1. u \in Upload /\ u # None /\ s.part \in PartNo \cup {0} /\ (s.kind = "part" <=> s.part # 0)
    BY <1>6, SessionTyped DEF Pending, Formed
  <2>2. OnlyRow(u) /\ upload'[u] = b
    BY <1>6, <2>1 DEF Typing, OnlyRow
  <2>3. RowOK(upload[u]) /\ upload[u].state = "pending"
    BY <1>6, <2>1 DEF Typing, Pending
  <2>4. CASE s.part = 0
    <3>1. RowOK(b) /\ b.state = "gone"
      BY <2>4, DeletedOK
    <3>2. RowSteps({r}, u)
      BY <2>2, <3>1 DEF RowSteps, KeepsPart
    <3> QED BY <1>1, <1>3, <1>4, <2>1, <2>2, <3>2, OneMoves
  <2>5. CASE s.part # 0
    <3>1. b = BeginPart(upload[u], s.part)
      BY <2>5
    <3>2. RowOK(b) /\ b.state = "pending" /\ \A q : q # s.part => KeepsPart(upload[u], b, q)
      BY <2>3, <3>1, BegunRow
    <3>3. Owns(r, u, s.part)
      BY <1>2, <2>1, <2>5 DEF Owns
    <3> HIDE DEF b, u, s
    <3>4. RowSteps({r}, u)
      BY <2>2, <2>3, <3>2, <3>3 DEF RowSteps
    <3> QED BY <1>1, <1>3, <1>4, <2>1, <2>2, <3>4, OneMoves DEF s
  <2> QED BY <2>4, <2>5
<1> QED BY <1>1, <1>5, <1>6

\* A renewal moves the control and may reset the heartbeat.
Renewals(s) == {[s EXCEPT !.pc = "read"], [s EXCEPT !.pc = "read", !.beat = 0]}

\* A session after its renewal.
LEMMA RenewedData ==
    ASSUME Typing, NEW r \in Request, session[r].pc = "renew",
           NEW t \in Renewals(session[r]), session' = [session EXCEPT ![r] = t]
    PROVE  /\ Advances(r) /\ session'[r].pc = "read" /\ SameData(session[r], session'[r])
<1> DEFINE s == session[r]
<1>1. SessionOK(r, s) /\ DOMAIN s = DOMAIN NewSession
  BY SessionTyped
<1>2. session'[r] = t
  BY SessionTyped
<1>3. t.pc = "read" /\ SameData(s, t)
  BY <1>1 DEF NewSession, SameData, DataFields, Renewals
<1>4. SessionOK(r, t)
  BY <1>1, <1>3, SameDataOK DEF Turns
<1>5. Advances(r)
  BY <1>2, <1>3, <1>4, SameDataFields DEF Advances
<1> QED BY <1>2, <1>3, <1>5

\* renew_upload_lease_if_due touches the clocks of the row and of the session.
LEMMA RenewData ==
    ASSUME Typing, NEW r \in Request, RenewUploadLeaseIfDue(r)
    PROVE  StepOK
<1> DEFINE s == session[r]
           u == s.upload
           t1 == [s EXCEPT !.pc = "read"]
           t2 == [s EXCEPT !.pc = "read", !.beat = 0]
<1>1. /\ s.pc = "renew" /\ UNCHANGED <<lastTry, object>>
      /\ \/ session' = [session EXCEPT ![r] = t1] /\ UNCHANGED upload
         \/ /\ Pending(u) /\ session' = [session EXCEPT ![r] = t2]
            /\ upload' = [upload EXCEPT ![u] = Leased(upload[u])]
  BY DEF RenewUploadLeaseIfDue
<1>2. Active(s) /\ s.upload \in Upload \cup {None}
  BY <1>1, SessionTyped DEF Active, Formed
<1>3. CASE session' = [session EXCEPT ![r] = t1] /\ UNCHANGED upload
  <2>1. t1 \in Renewals(s)
    BY DEF Renewals
  <2> HIDE DEF t1, t2
  <2>2. Advances(r) /\ session'[r].pc = "read" /\ SameData(s, session'[r])
    BY <1>1, <1>3, <2>1, RenewedData
  <2>3. Data => Delivers(r)
    BY <1>2, <1>3, <2>2, SameDataFields, StagingKept
  <2> QED BY <1>1, <1>3, <2>2, <2>3, OneMoves, RowsAlone
<1>4. CASE /\ Pending(u) /\ session' = [session EXCEPT ![r] = t2]
           /\ upload' = [upload EXCEPT ![u] = Leased(upload[u])]
  <2>1. t2 \in Renewals(s)
    BY DEF Renewals
  <2> HIDE DEF t1, t2
  <2>2. Advances(r) /\ session'[r].pc = "read" /\ SameData(s, session'[r])
    BY <1>1, <1>4, <2>1, RenewedData
  <2>3. u \in Upload
    BY <1>2, <1>4 DEF Pending
  <2>4. OnlyRow(u) /\ upload'[u] = Leased(upload[u]) /\ RowOK(upload[u])
    BY <1>4, <2>3 DEF Typing, OnlyRow
  <2>5. /\ RowOK(upload'[u]) /\ upload'[u].state = upload[u].state
        /\ upload'[u].chunk = upload[u].chunk /\ upload'[u].part = upload[u].part
    BY <2>4, TouchedFields
  <2>6. Data => Delivers(r)
    BY <1>2, <2>2, <2>5, SameDataFields, StagingKept
  <2>7. RowSteps({r}, u)
    BY <2>5, SameRow
  <2> QED BY <1>1, <1>4, <2>2, <2>4, <2>6, <2>7, OneMoves
<1> QED BY <1>1, <1>3, <1>4

\* The slice of accept_decoded fits into the buffer.
LEMMA SliceFits ==
    ASSUME NEW r \in Request, Formed(session[r])
    PROVE  /\ Slice(r) \in 0 .. session[r].remaining
           /\ session[r].kind # "direct" => Len(session[r].buffer) + Slice(r) <= ChunkBytes
<1> DEFINE s == session[r]
<1>1. /\ s.remaining \in Nat /\ Len(s.buffer) \in Nat
      /\ s.kind # "direct" => Len(s.buffer) <= ChunkBytes
  BY DEF Formed, Bodies
<1>2. ChunkBytes \in Nat
  BY SizesAssumption
<1> QED BY <1>1, <1>2 DEF Slice

\* The bytes that accept_decoded adds are the next ones of the body.
LEMMA SliceBytes ==
    ASSUME NEW r, NEW s, Formed(s), NEW n \in Nat
    PROVE  s.buffer \o Bytes(r, s.wire - s.remaining + 1, s.wire - s.remaining + 1 + n - 1)
              = Grown(r, s, n)
<1>1. \A a, b \in Int : a - b + 1 + n - 1 = a - b + n
  OBVIOUS
<1>2. s.wire \in Int /\ s.remaining \in Int
  BY DEF Formed
<1>3. s.wire - s.remaining + 1 + n - 1 = s.wire - s.remaining + n
  BY <1>1, <1>2
<1> QED BY <1>3 DEF Grown, Taken

\* The session of accept_decoded after a slice of n bytes.
Sliced(s, n) ==
    [s EXCEPT !.remaining = s.remaining - n,
              !.pc = IF s.remaining - n = 0 THEN "renew" ELSE "stage"]

\* Its fields.
LEMMA SlicedFields ==
    ASSUME NEW s, DOMAIN s = DOMAIN NewSession, NEW n, NEW t, t = Sliced(s, n)
    PROVE  /\ DOMAIN t = DOMAIN NewSession /\ t.remaining = s.remaining - n
           /\ t.pc = IF s.remaining - n = 0 THEN "renew" ELSE "stage"
           /\ t.kind = s.kind /\ t.upload = s.upload /\ t.part = s.part /\ t.len = s.len
           /\ t.wire = s.wire /\ t.sequence = s.sequence /\ t.manifest = s.manifest
           /\ t.buffer = s.buffer /\ t.etag = s.etag
BY DEF Sliced, NewSession

\* accept_decoded in terms of these.
LEMMA AcceptDecodedCases ==
    ASSUME Typing, NEW r \in Request, AcceptDecoded(r)
    PROVE  /\ session[r].pc = "stage" /\ UNCHANGED <<lastTry, object>>
           /\ \/ /\ session' = [session EXCEPT ![r] = [Sliced(session[r], Slice(r)) EXCEPT
                                   !.buffer = Grown(r, session[r], Slice(r))]]
                 /\ UNCHANGED upload
              \/ /\ session[r].kind # "direct" /\ Pending(session[r].upload)
                 /\ session' = [session EXCEPT ![r] =
                        AfterChunk(Sliced(session[r], Slice(r)), Grown(r, session[r], Slice(r)))]
                 /\ upload' = [upload EXCEPT ![session[r].upload] =
                        PutChunk(upload[session[r].upload], session[r].part,
                                 session[r].sequence, Grown(r, session[r], Slice(r)))]
<1> DEFINE s == session[r]
           n == Slice(r)
           first == s.wire - s.remaining + 1
           data == s.buffer \o Bytes(r, first, first + n - 1)
           left == s.remaining - n
           next == [s EXCEPT !.remaining = left, !.pc = IF left = 0 THEN "renew" ELSE "stage"]
<1>1. /\ s.pc = "stage" /\ UNCHANGED <<lastTry, object>>
      /\ \/ /\ session' = [session EXCEPT ![r] = [next EXCEPT !.buffer = data]]
            /\ UNCHANGED upload
         \/ /\ s.kind # "direct" /\ Pending(s.upload)
            /\ session' = [session EXCEPT ![r] = AfterChunk(next, data)]
            /\ upload' = [upload EXCEPT ![s.upload] =
                              PutChunk(upload[s.upload], s.part, s.sequence, data)]
  BY DEF AcceptDecoded
<1>2. Formed(s) /\ n \in Nat
  BY SessionTyped, SliceFits DEF Formed
<1>3. data = Grown(r, s, n)
  BY <1>2, SliceBytes
<1>4. next = Sliced(s, n)
  BY DEF Sliced
<1> HIDE DEF s, n, data, next
<1> QED BY <1>1, <1>3, <1>4 DEF s, n

\* An UploadPart that is not answered yet owes its staging.
LEMMA OwesStaging ==
    ASSUME NEW r, session'[r].pc # "ok",
           session'[r].kind = "part" /\ upload'[session'[r].upload].state = "pending" =>
             /\ Holding(upload'[session'[r].upload], session'[r].part, session'[r].sequence)
             /\ FlattenSeq(Stage(upload'[session'[r].upload], session'[r].part,
                                 session'[r].sequence)) \o session'[r].buffer
                   = Bytes(r, 1, Taken(session'[r]))
    PROVE  Delivers(r)
<1>1. Staging(r)'
  BY DEF Staging, Pending
<1> QED BY <1>1 DEF Delivers, EtagRight

\* What an UploadPart has staged, and what it spells with more of the body.
LEMMA SpelledSoFar ==
    ASSUME Typing, Data, NEW r \in Request, Active(session[r]), session[r].kind = "part",
           Pending(session[r].upload), NEW m,
           m = FlattenSeq(Stage(upload[session[r].upload], session[r].part, session[r].sequence))
    PROVE  /\ Holding(upload[session[r].upload], session[r].part, session[r].sequence)
           /\ m \in Bodies /\ m \o session[r].buffer = Bytes(r, 1, Taken(session[r]))
           /\ \A n \in 0 .. session[r].remaining :
                m \o Grown(r, session[r], n) = Bytes(r, 1, Taken(session[r]) + n)
<1> DEFINE g == Stage(upload[session[r].upload], session[r].part, session[r].sequence)
<1>1. /\ Holding(upload[session[r].upload], session[r].part, session[r].sequence)
      /\ m \o session[r].buffer = Bytes(r, 1, Taken(session[r]))
  BY DEF Data, Staging
<1>2. g \in Seq(Bodies)
  BY <1>1 DEF Holding
<1> HIDE DEF g
<1>3. m \in Bodies
  BY <1>2, FlattenType DEF Bodies, g
<1>4. Formed(session[r])
  BY SessionTyped
<1> QED BY <1>1, <1>3, <1>4, GrownSpells

\* The one row that a step changes, and what it becomes.
RowBecomes(u, b) == upload' = [upload EXCEPT ![u] = b]

\* put_chunk and put_part leave the other parts of the row alone.
LEMMA PutKeeps ==
    ASSUME NEW row, RowOK(row), NEW p, NEW n, NEW data
    PROVE  /\ RowOK(PutChunk(row, p, n, data)) /\ PutChunk(row, p, n, data).state = row.state
           /\ \A q : q # p => KeepsPart(row, PutChunk(row, p, n, data), q)
<1>1. PICK b : b = PutChunk(row, p, n, data)
  OBVIOUS
<1>2. RowOK(b) /\ b.state = row.state
  <2>1. RowOK(b)
    BY <1>1, PutRow, Zenon
  <2>2. b.state = row.state
    BY <1>1, TouchedFields DEF PutChunk, RowOK, RowNames
  <2> QED BY <2>1, <2>2
<1>3. ASSUME NEW q, q # p PROVE KeepsPart(row, b, q)
  BY <1>1, <1>3, PutRow
<1> QED BY <1>1, <1>2, <1>3

\* A chunk changes the part of its session only.
LEMMA ChunkSteps ==
    ASSUME Typing, NEW r \in Request, Held(session[r]), NEW u, u = session[r].upload, Pending(u),
           NEW n, NEW data, RowBecomes(u, PutChunk(upload[u], session[r].part, n, data))
    PROVE  /\ u \in Upload /\ OnlyRow(u) /\ RowSteps({r}, u) /\ upload'[u].state = "pending"
           /\ upload'[u] = PutChunk(upload[u], session[r].part, n, data)
<1> DEFINE p == session[r].part
           b == PutChunk(upload[u], p, n, data)
<1>1. u \in Upload /\ p \in PartNo \cup {0} /\ (session[r].kind = "part" <=> p # 0) /\ 0 \notin PartNo
  BY SessionTyped, SizesAssumption DEF Formed, Pending
<1>2. OnlyRow(u) /\ upload'[u] = b /\ RowOK(upload[u]) /\ upload[u].state = "pending"
  BY <1>1 DEF Typing, OnlyRow, Pending, RowBecomes
<1>3. ASSUME p \in PartNo PROVE Owns(r, u, p)
  BY <1>1, <1>3 DEF Owns
<1>4. RowOK(b) /\ b.state = "pending" /\ \A q : q # p => KeepsPart(upload[u], b, q)
  BY <1>2, PutKeeps
<1> HIDE DEF b, p
<1>5. RowSteps({r}, u)
  BY <1>1, <1>2, <1>3, <1>4 DEF RowSteps
<1> QED BY <1>1, <1>2, <1>4, <1>5 DEF b, p

\* An UploadPart that stores the next chunk delivers.
LEMMA ChunkDelivers ==
    ASSUME Typing, Data, NEW r \in Request, Active(session[r]), session[r].kind = "part",
           Pending(session[r].upload), NEW data \in Bodies, NEW u, u = session[r].upload,
           upload'[u] = PutChunk(upload[u], session[r].part, session[r].sequence, data),
           session'[r].pc # "ok", session'[r].upload = u, session'[r].part = session[r].part,
           session'[r].sequence = session[r].sequence + 1, session'[r].buffer = <<>>,
           FlattenSeq(Stage(upload[u], session[r].part, session[r].sequence)) \o data
              = Bytes(r, 1, Taken(session'[r]))
    PROVE  Delivers(r)
<1> DEFINE p == session[r].part
           n == session[r].sequence
           m == FlattenSeq(Stage(upload[u], p, n))
           b == upload'[u]
<1>1. Holding(upload[u], p, n) /\ m \in Bodies
  BY SpelledSoFar
<1>2. RowOK(upload[u]) /\ n \in Nat
  BY SessionTyped DEF Typing, Pending, Formed
<1>3. b = PutChunk(upload[u], p, n, data) /\ m \o data = Bytes(r, 1, Taken(session'[r]))
  OBVIOUS
<1> HIDE DEF m, b, n, p
<1>4. Holding(b, p, n + 1) /\ FlattenSeq(Stage(b, p, n + 1)) = m \o data
  <2> DEFINE row == upload[u]
  <2>1. RowOK(row) /\ Holding(row, p, n) /\ b = PutChunk(row, p, n, data)
    BY <1>1, <1>2, <1>3
  <2>2. m = FlattenSeq(Stage(row, p, n))
    BY DEF m
  <2> HIDE DEF row
  <2> QED BY <1>2, <2>1, <2>2, PutStages
<1>5. (m \o data) \o <<>> = m \o data
  <2> DEFINE S == (Request \cup {None}) \X Nat
  <2>1. m \in Seq(S) /\ data \in Seq(S)
    BY <1>1 DEF Bodies
  <2> HIDE DEF S
  <2>2. m \o data \in Seq(S)
    BY <2>1, ConcatProperties
  <2> QED BY <2>2, ConcatEmptySeq
<1>6. /\ Holding(upload'[session'[r].upload], session'[r].part, session'[r].sequence)
      /\ FlattenSeq(Stage(upload'[session'[r].upload], session'[r].part, session'[r].sequence))
            \o session'[r].buffer = Bytes(r, 1, Taken(session'[r]))
  <2>1. /\ upload'[session'[r].upload] = b /\ session'[r].part = p
        /\ session'[r].sequence = n + 1 /\ session'[r].buffer = <<>>
    BY DEF b, p, n
  <2> QED BY <1>3, <1>4, <1>5, <2>1
<1> QED BY <1>6, OwesStaging

\* accept_decoded: one slice into the buffer, and a full buffer into a chunk.
LEMMA AcceptDecodedData ==
    ASSUME Typing, NEW r \in Request, AcceptDecoded(r)
    PROVE  StepOK
<1> DEFINE s == session[r]
           n == Slice(r)
           g == Grown(r, s, n)
           c == Sliced(s, n)
           u == s.upload
           t1 == [c EXCEPT !.buffer = g]
           t2 == AfterChunk(c, g)
<1>1. /\ s.pc = "stage" /\ UNCHANGED <<lastTry, object>>
      /\ \/ session' = [session EXCEPT ![r] = t1] /\ UNCHANGED upload
         \/ /\ s.kind # "direct" /\ Pending(u) /\ session' = [session EXCEPT ![r] = t2]
            /\ upload' = [upload EXCEPT ![u] = PutChunk(upload[u], s.part, s.sequence, g)]
  BY AcceptDecodedCases
<1>2. SessionOK(r, s) /\ Formed(s) /\ DOMAIN s = DOMAIN NewSession
  BY SessionTyped
<1>3. n \in 0 .. s.remaining /\ (s.kind # "direct" => Len(s.buffer) + n <= ChunkBytes)
  BY <1>2, SliceFits
<1>4. Active(s) /\ Held(s)
  BY <1>1 DEF Active, Held
<1>5. g \in Bodies
  BY <1>2, <1>3, GrownSpells
<1>6. /\ DOMAIN c = DOMAIN NewSession /\ c.remaining = s.remaining - n
      /\ c.pc = IF s.remaining - n = 0 THEN "renew" ELSE "stage"
      /\ c.kind = s.kind /\ c.upload = s.upload /\ c.part = s.part /\ c.len = s.len
      /\ c.wire = s.wire /\ c.sequence = s.sequence /\ c.manifest = s.manifest
  BY <1>2, SlicedFields
<1> HIDE DEF c, n, g
<1>7. /\ c.pc \in {"stage", "renew"} /\ (c.pc = "renew" => s.remaining = n)
  <2>1. s.remaining \in Int /\ n \in Int
    BY <1>2, <1>3 DEF Formed
  <2> QED BY <1>6, <2>1
<1>8. CASE session' = [session EXCEPT ![r] = t1] /\ UNCHANGED upload
  <2>1. /\ DOMAIN t1 = DOMAIN NewSession /\ t1.remaining = c.remaining /\ t1.pc = c.pc
        /\ t1.kind = s.kind /\ t1.upload = s.upload /\ t1.part = s.part /\ t1.len = s.len
        /\ t1.wire = s.wire /\ t1.sequence = s.sequence /\ t1.manifest = s.manifest
        /\ t1.buffer = g
    BY <1>6 DEF NewSession
  <2>2. session'[r] = t1
    BY <1>8, SessionTyped
  <2> HIDE DEF t1, t2, s
  <2>3. SessionOK(r, t1) /\ Taken(t1) = Taken(s) + n
    BY <1>1, <1>2, <1>3, <1>6, <1>7, <2>1, BufferedOK DEF g
  <2>4. Advances(r)
    BY <1>1, <1>7, <2>1, <2>2, <2>3 DEF Advances, s
  <2>5. Data => Delivers(r)
    <3> SUFFICES ASSUME Data, s.kind = "part", Pending(u)
                 PROVE  /\ Holding(upload[u], s.part, s.sequence)
                        /\ FlattenSeq(Stage(upload[u], s.part, s.sequence)) \o g
                              = Bytes(r, 1, Taken(t1))
      <4>1. s.kind = "part" /\ upload[u].state = "pending" => Pending(u)
        BY <1>2, SizesAssumption DEF Pending, Formed
      <4>2. t1.pc # "ok"
        BY <1>7, <2>1
      <4> QED BY <1>8, <2>1, <2>2, <4>1, <4>2, OwesStaging
    <3> QED BY <1>3, <1>4, <2>3, SpelledSoFar DEF s, g
  <2> QED BY <1>1, <1>8, <2>4, <2>5, OneMoves, RowsAlone
<1>9. CASE /\ s.kind # "direct" /\ Pending(u) /\ session' = [session EXCEPT ![r] = t2]
           /\ upload' = [upload EXCEPT ![u] = PutChunk(upload[u], s.part, s.sequence, g)]
  <2>1. /\ DOMAIN t2 = DOMAIN NewSession /\ t2.remaining = c.remaining /\ t2.pc = c.pc
        /\ t2.kind = s.kind /\ t2.upload = s.upload /\ t2.part = s.part /\ t2.len = s.len
        /\ t2.wire = s.wire /\ t2.sequence = s.sequence + 1 /\ t2.buffer = <<>>
        /\ t2.manifest = IF s.part = 0 THEN Append(s.manifest, g) ELSE s.manifest
    BY <1>6 DEF NewSession, AfterChunk
  <2>2. session'[r] = t2
    BY <1>9, SessionTyped
  <2>3. /\ u \in Upload /\ OnlyRow(u) /\ RowSteps({r}, u) /\ upload'[u].state = "pending"
        /\ upload'[u] = PutChunk(upload[u], s.part, s.sequence, g)
    <3>1. /\ u = session[r].upload /\ Held(session[r]) /\ Pending(u)
          /\ RowBecomes(u, PutChunk(upload[u], session[r].part, session[r].sequence, g))
      BY <1>4, <1>9 DEF RowBecomes
    <3> HIDE DEF t1, t2, u
    <3> QED BY <3>1, ChunkSteps
  <2> HIDE DEF t1, t2, s
  <2>4. SessionOK(r, t2) /\ Taken(t2) = Taken(s) + n
    BY <1>1, <1>2, <1>3, <1>6, <1>7, <1>9, <2>1, StoredOK DEF g
  <2>5. Advances(r)
    BY <1>1, <1>7, <2>1, <2>2, <2>4 DEF Advances, s
  <2>6. Data => Delivers(r)
    <3>1. CASE s.kind # "part"
      BY <2>1, <2>2, <3>1, OwesNothing
    <3>2. CASE s.kind = "part"
      <4> SUFFICES ASSUME Data PROVE Delivers(r)
        OBVIOUS
      <4>1. FlattenSeq(Stage(upload[u], s.part, s.sequence)) \o g = Bytes(r, 1, Taken(t2))
        BY <1>3, <1>4, <1>9, <2>4, <3>2, SpelledSoFar DEF s, g
      <4>2. t2.pc # "ok"
        BY <1>7, <2>1
      <4> QED BY <1>4, <1>5, <1>9, <2>1, <2>2, <2>3, <3>2, <4>1, <4>2, ChunkDelivers DEF s
    <3> QED BY <3>1, <3>2
  <2> QED BY <1>1, <1>9, <2>3, <2>5, <2>6, OneMoves
<1> QED BY <1>1, <1>8, <1>9

\* An object that one answered request sent.
LEMMA OneSent ==
    ASSUME NEW r \in Request, session'[r].pc = "ok", NEW o, o.sent = <<r>>, o.body \in Bodies,
           o.body = Bytes(r, 1, session'[r].len)
    PROVE  ObjectOK(o)'
<1> DEFINE l == <<r>>
           b == o.body
<1>1. l \in Seq(Request) /\ DOMAIN l = {1} /\ l[1] = r
  OBVIOUS
<1>2. [i \in DOMAIN l |-> BodyOf(l[i])'] = <<b>>
  <2>1. \A i \in DOMAIN l : BodyOf(l[i])' = b
    BY <1>1 DEF BodyOf
  <2> HIDE DEF b
  <2>2. [i \in DOMAIN l |-> BodyOf(l[i])'] = [i \in {1} |-> b]
    BY <1>1, <2>1
  <2>3. [i \in {1} |-> b] = <<b>>
    OBVIOUS
  <2> QED BY <2>2, <2>3
<1>3. FlattenSeq(<<b>>) = b
  BY FlattenOne DEF Bodies
<1> HIDE DEF l
<1>4. o.sent = l /\ o.body = b
  BY DEF l
<1> HIDE DEF b
<1> QED BY <1>1, <1>2, <1>3, <1>4 DEF ObjectOK

\* When the entity is complete, all of it has been taken.
LEMMA AllTaken ==
    ASSUME NEW s, Formed(s), BodyComplete(s)
    PROVE  Taken(s) = s.len /\ Active(s) /\ Held(s) /\ s.pc = "read"
BY DEF Formed, BodyComplete, Taken, Active, Held

\* finish_body of a direct PutObject publishes its buffer.
LEMMA FinishDirectData ==
    ASSUME Typing, NEW r \in Request, FinishDirect(r)
    PROVE  StepOK
<1> DEFINE s == session[r]
           t == Ended(s, "ok", s.buffer)
<1>1. /\ BodyComplete(s) /\ s.kind = "direct" /\ session' = [session EXCEPT ![r] = t]
      /\ object' = object \cup {[sent |-> <<r>>, body |-> s.buffer]}
      /\ UNCHANGED <<upload, lastTry>>
  BY DEF FinishDirect
<1>2. Formed(s) /\ Faithful(r, s)
  BY SessionTyped
<1>3. Taken(s) = s.len /\ Active(s) /\ Held(s)
  BY <1>1, <1>2, AllTaken
<1>4. s.buffer = Bytes(r, 1, s.len) /\ s.buffer \in Bodies
  BY <1>1, <1>2, <1>3 DEF Faithful, Formed
<1>5. Advances(r) /\ session'[r].pc = "ok" /\ session'[r].kind = s.kind /\ session'[r].len = s.len
  BY <1>1, <1>3, <1>4, EndsAdvance
<1> HIDE DEF t
<1>7. ASSUME NEW o \in object' PROVE o \in object \/ ObjectOK(o)'
  <2>1. CASE o = [sent |-> <<r>>, body |-> s.buffer]
    <3>1. o.sent = <<r>> /\ o.body = s.buffer
      BY <2>1
    <3> QED BY <1>4, <1>5, <3>1, OneSent
  <2> QED BY <1>1, <2>1
<1> HIDE DEF s
<1>8. Delivers(r)
  BY <1>1, <1>5, OwesNothing
<1> QED BY <1>1, <1>5, <1>7, <1>8, OneMoves, RowsAlone

\* finish_body of a staged PutObject publishes the manifest and the last buffer.
LEMMA FinishPutData ==
    ASSUME Typing, NEW r \in Request, FinishPut(r)
    PROVE  StepOK
<1> DEFINE s == session[r]
           u == s.upload
           row == IF FinalChunk(s) THEN PutChunk(upload[u], 0, s.sequence, s.buffer)
                  ELSE upload[u]
           manifest == IF FinalChunk(s) THEN Append(s.manifest, s.buffer) ELSE s.manifest
           body == FlattenSeq(Staged(row, 0))
           t == Ended(s, "ok", body)
<1>1. /\ BodyComplete(s) /\ s.kind = "put" /\ Sealed(s, row, manifest)
      /\ session' = [session EXCEPT ![r] = t]
      /\ object' = object \cup {[sent |-> <<r>>, body |-> body]}
      /\ upload' = [upload EXCEPT ![u] = Deleted(row)]
      /\ UNCHANGED lastTry
  BY DEF FinishPut
<1>2. Formed(s) /\ Faithful(r, s)
  BY SessionTyped
<1>3. Taken(s) = s.len /\ Active(s) /\ Held(s)
  BY <1>1, <1>2, AllTaken
<1>4. body = FlattenSeq(manifest)
  BY <1>1 DEF Sealed
<1>5. FlattenSeq(manifest) = FlattenSeq(s.manifest) \o s.buffer /\ FlattenSeq(manifest) \in Bodies
  <2> DEFINE S == (Request \cup {None}) \X Nat
             m == s.manifest
             b == s.buffer
  <2>1. m \in Seq(Seq(S)) /\ b \in Seq(S)
    BY <1>2 DEF Formed, Bodies
  <2>2. ~FinalChunk(s) => b = <<>>
    BY DEF FinalChunk
  <2>3. manifest = IF FinalChunk(s) THEN Append(m, b) ELSE m
    OBVIOUS
  <2> HIDE DEF S, m, b, s, manifest
  <2>4. FlattenSeq(m) \in Seq(S) /\ FlattenSeq(Append(m, b)) = FlattenSeq(m) \o b
    BY <2>1, FlattenType, FlattenAppend
  <2>5. FlattenSeq(m) \o b \in Seq(S) /\ FlattenSeq(m) \o <<>> = FlattenSeq(m)
    BY <2>1, <2>4, ConcatProperties, ConcatEmptySeq
  <2>6. FlattenSeq(manifest) = FlattenSeq(m) \o b
    BY <2>2, <2>3, <2>4, <2>5
  <2> QED BY <2>5, <2>6 DEF m, b, S, Bodies
<1>6. body = Bytes(r, 1, s.len) /\ body \in Bodies
  BY <1>1, <1>2, <1>3, <1>4, <1>5 DEF Faithful
<1>7. OnlyRow(u) /\ (u \in Upload => upload'[u] = Deleted(row))
  BY <1>1 DEF Typing, OnlyRow
<1> HIDE DEF body, row, manifest
<1>8. Advances(r) /\ session'[r].pc = "ok" /\ session'[r].kind = s.kind /\ session'[r].len = s.len
  BY <1>1, <1>3, <1>6, EndsAdvance
<1>9. ASSUME NEW o \in object' PROVE o \in object \/ ObjectOK(o)'
  <2>1. CASE o = [sent |-> <<r>>, body |-> body]
    <3>1. o.sent = <<r>> /\ o.body = body
      BY <2>1
    <3> QED BY <1>6, <1>8, <3>1, OneSent
  <2> QED BY <1>1, <2>1
<1>10. u \in Upload => RowSteps({r}, u)
  BY <1>7, DeletedOK DEF RowSteps, KeepsPart
<1> HIDE DEF t, s, u
<1>11. Delivers(r)
  BY <1>1, <1>8, OwesNothing
<1> QED BY <1>1, <1>7, <1>8, <1>9, <1>10, <1>11, OneMoves

\* finish_body of an UploadPart whose last chunk has been stored.
PartStored(s) == [s EXCEPT !.pc = "complete_part", !.buffer = <<>>, !.sequence = s.sequence + 1]

\* It is in order and has taken what it had.
LEMMA PartStoredOK ==
    ASSUME NEW r, NEW s, SessionOK(r, s), s.pc = "read", s.wire = s.len, s.kind = "part",
           NEW t, t = PartStored(s)
    PROVE  /\ SessionOK(r, t) /\ t.pc = "complete_part" /\ t.kind = s.kind
           /\ t.upload = s.upload /\ t.part = s.part /\ t.len = s.len
           /\ t.sequence = s.sequence + 1 /\ t.buffer = <<>> /\ Taken(t) = Taken(s)
<1>1. Formed(s) /\ DOMAIN s = DOMAIN NewSession /\ s.sequence \in Nat /\ s.remaining = 0
  BY DEF SessionOK, Formed
<1>2. /\ DOMAIN t = DOMAIN NewSession /\ t.pc = "complete_part" /\ t.kind = s.kind
      /\ t.upload = s.upload /\ t.part = s.part /\ t.len = s.len /\ t.wire = s.wire
      /\ t.remaining = s.remaining /\ t.sequence = s.sequence + 1 /\ t.manifest = s.manifest
      /\ t.buffer = <<>>
  BY <1>1 DEF PartStored, NewSession
<1>3. t.sequence \in Nat
  BY <1>1, <1>2
<1>4. Formed(t)
  BY <1>1, <1>2, <1>3, Empties, SizesAssumption DEF Formed
<1>5. Faithful(r, t)
  BY <1>2 DEF Faithful
<1> QED BY <1>2, <1>4, <1>5 DEF SessionOK, Taken

\* finish_body of an UploadPart stores the last chunk, if there is one.
LEMMA FinishPartData ==
    ASSUME Typing, NEW r \in Request, FinishPart(r)
    PROVE  StepOK
<1> DEFINE s == session[r]
           u == s.upload
           t1 == PartStored(s)
           t2 == [s EXCEPT !.pc = "complete_part"]
<1>1. /\ BodyComplete(s) /\ s.kind = "part" /\ UNCHANGED <<lastTry, object>>
      /\ \/ /\ Pending(u) /\ session' = [session EXCEPT ![r] = t1]
            /\ RowBecomes(u, PutChunk(upload[u], s.part, s.sequence, s.buffer))
         \/ ~FinalChunk(s) /\ session' = [session EXCEPT ![r] = t2] /\ UNCHANGED upload
  BY DEF FinishPart, PartStored, RowBecomes
<1>2. SessionOK(r, s) /\ Formed(s) /\ DOMAIN s = DOMAIN NewSession
  BY SessionTyped
<1>3. Taken(s) = s.len /\ Active(s) /\ Held(s) /\ s.pc = "read" /\ s.wire = s.len
  BY <1>1, <1>2, AllTaken DEF BodyComplete
<1>4. CASE /\ Pending(u) /\ session' = [session EXCEPT ![r] = t1]
           /\ RowBecomes(u, PutChunk(upload[u], s.part, s.sequence, s.buffer))
  <2>1. session'[r] = t1
    BY <1>4, SessionTyped
  <2> DEFINE b == s.buffer
  <2>2. /\ u = session[r].upload /\ Held(session[r]) /\ Pending(u) /\ b = s.buffer
        /\ RowBecomes(u, PutChunk(upload[u], session[r].part, session[r].sequence, b))
    BY <1>3, <1>4
  <2> HIDE DEF t1, t2, u, b
  <2>3. /\ u \in Upload /\ OnlyRow(u) /\ RowSteps({r}, u) /\ upload'[u].state = "pending"
        /\ upload'[u] = PutChunk(upload[u], session[r].part, session[r].sequence, b)
    BY <2>2, ChunkSteps
  <2> HIDE DEF s
  <2>4. /\ SessionOK(r, t1) /\ t1.pc = "complete_part" /\ t1.kind = s.kind
        /\ t1.upload = s.upload /\ t1.part = s.part /\ t1.len = s.len
        /\ t1.sequence = s.sequence + 1 /\ t1.buffer = <<>> /\ Taken(t1) = Taken(s)
    BY <1>1, <1>2, <1>3, PartStoredOK DEF t1
  <2>5. Advances(r)
    BY <1>3, <2>1, <2>4 DEF Advances, s
  <2>6. ASSUME Data PROVE Delivers(r)
    <3>1. b \in Bodies
      BY <1>2, <2>2 DEF Formed
    <3>2. FlattenSeq(Stage(upload[u], session[r].part, session[r].sequence)) \o b
             = Bytes(r, 1, Taken(session[r]))
      BY <1>1, <1>3, <2>2, <2>6, SpelledSoFar DEF s
    <3>3. /\ session'[r].pc # "ok" /\ session'[r].upload = u
          /\ session'[r].part = session[r].part
          /\ session'[r].sequence = session[r].sequence + 1 /\ session'[r].buffer = <<>>
          /\ Taken(session'[r]) = Taken(session[r])
      BY <2>1, <2>2, <2>4 DEF s
    <3>4. Active(session[r]) /\ session[r].kind = "part" /\ Pending(session[r].upload)
      BY <1>1, <1>3, <2>2 DEF s
    <3>5. FlattenSeq(Stage(upload[u], session[r].part, session[r].sequence)) \o b
             = Bytes(r, 1, Taken(session'[r]))
      BY <3>2, <3>3
    <3> QED BY <2>2, <2>3, <2>6, <3>1, <3>3, <3>4, <3>5, ChunkDelivers
  <2> QED BY <1>1, <1>4, <2>3, <2>5, <2>6, OneMoves
<1>5. CASE ~FinalChunk(s) /\ session' = [session EXCEPT ![r] = t2] /\ UNCHANGED upload
  <2>1. session'[r] = t2
    BY <1>5, SessionTyped
  <2>2. t2.pc = "complete_part" /\ SameData(s, t2)
    BY <1>2 DEF NewSession, SameData, DataFields
  <2> HIDE DEF t1, t2
  <2>3. s.buffer = <<>>
    BY <1>5 DEF FinalChunk
  <2>4. SessionOK(r, t2)
    BY <1>1, <1>2, <1>3, <2>2, <2>3, SameDataOK DEF Turns
  <2>5. Advances(r)
    BY <1>3, <2>1, <2>2, <2>4, SameDataFields DEF Advances
  <2>6. Data => Delivers(r)
    BY <1>3, <1>5, <2>1, <2>2, SameDataFields, StagingKept
  <2> QED BY <1>1, <1>5, <2>5, <2>6, OneMoves, RowsAlone
<1> QED BY <1>1, <1>4, <1>5

\* complete_part: the ETag it answers is of the chunks that the request staged.
LEMMA CompletePartData ==
    ASSUME Typing, NEW r \in Request, CompletePart(r)
    PROVE  StepOK
<1> DEFINE s == session[r]
           u == s.upload
           p == s.part
           body == FlattenSeq(Staged(upload[u], p))
           t == Ended(s, "ok", body)
<1>1. /\ s.pc = "complete_part" /\ Pending(u) /\ session' = [session EXCEPT ![r] = t]
      /\ upload' = [upload EXCEPT ![u] = CompletePartRow(upload[u], p)]
      /\ UNCHANGED <<lastTry, object>>
  BY DEF CompletePart
<1>2. Formed(s)
  BY SessionTyped
<1>3. /\ Active(s) /\ Held(s) /\ s.kind = "part" /\ s.buffer = <<>> /\ Taken(s) = s.len
      /\ u \in Upload /\ p \in PartNo /\ s.sequence \in Nat
  <2>1. s.kind = "part" /\ s.buffer = <<>> /\ s.wire = s.len /\ s.remaining = 0
    BY <1>1, <1>2 DEF Formed
  <2>2. Taken(s) = s.len
    BY <1>2, <2>1 DEF Formed, Taken
  <2> QED BY <1>1, <1>2, <2>1, <2>2, PartOf DEF Active, Held, Formed
<1> HIDE DEF body
<1>4. /\ Advances(r) /\ session'[r].pc = "ok" /\ session'[r].etag = body
      /\ session'[r].kind = "part" /\ session'[r].upload = u
      /\ session'[r].part = p /\ session'[r].len = s.len
  <2>1. /\ Held(session[r]) /\ session[r].kind = "part"
        /\ session' = [session EXCEPT ![r] = Ended(session[r], "ok", body)]
    BY <1>1, <1>3
  <2>2. Advances(r) /\ session'[r].pc = "ok" /\ session'[r].etag = body
    <3>1. Advances(r)
      BY <2>1, EndsAdvance
    <3>2. session'[r] = Ended(session[r], "ok", body)
      BY <2>1, SessionTyped
    <3> QED BY <3>1, <3>2 DEF Ended, NewSession
  <2>3. /\ session'[r].kind = session[r].kind /\ session'[r].upload = session[r].upload
        /\ session'[r].part = session[r].part /\ session'[r].len = session[r].len
    BY <2>1, EndsAdvance
  <2> QED BY <2>1, <2>2, <2>3
<1> DEFINE row == upload[u]
           b == CompletePartRow(row, p)
<1>5. OnlyRow(u) /\ upload'[u] = b /\ RowOK(row) /\ row.state = "pending" /\ Owns(r, u, p)
  BY <1>1, <1>3 DEF Typing, OnlyRow, Pending, Owns
<1>6. b = CompletePartRow(row, p) /\ body = FlattenSeq(Staged(row, p))
  BY DEF body
<1> HIDE DEF t, b, row, p, u, s
<1>7. /\ RowOK(b) /\ b.state = row.state /\ p \in DOMAIN b.part /\ b.part[p] = body
      /\ \A q : q # p => KeepsPart(row, b, q)
  BY <1>5, <1>6, CompletedRow
<1>8. RowSteps({r}, u)
  BY <1>5, <1>7 DEF RowSteps, row
<1>9. ASSUME Data PROVE Delivers(r)
  <2> DEFINE m == FlattenSeq(Stage(row, p, s.sequence))
  <2>1. Holding(row, p, s.sequence) /\ m \in Bodies /\ m \o s.buffer = Bytes(r, 1, Taken(s))
    BY <1>1, <1>3, <1>9, SpelledSoFar DEF s, u, p, row
  <2>2. Staged(row, p) = Stage(row, p, s.sequence)
    BY <1>3, <2>1, StagedIsStage DEF Holding
  <2>3. body = m
    BY <1>6, <2>2
  <2> HIDE DEF m
  <2>4. m \o <<>> = m
    BY <2>1, ConcatEmptySeq DEF Bodies
  <2>5. body = Bytes(r, 1, s.len)
    BY <1>3, <2>1, <2>3, <2>4
  <2>6. EtagRight(r)' /\ Staging(r)'
    BY <1>4, <2>5 DEF EtagRight, BodyOf, Staging, Active
  <2> QED BY <1>4, <1>5, <1>7, <2>5, <2>6 DEF Delivers
<1> QED BY <1>1, <1>4, <1>5, <1>8, <1>9, OneMoves

-----------------------------------------------------------------------------
(* Steps without a session.                                                *)

\* A step that changes one row and no session.
LEMMA RowMoves ==
    ASSUME Typing, UNCHANGED <<session, lastTry>>, NEW u, OnlyRow(u),
           u \in Upload => RowSteps({}, u),
           Data => \A o \in object' : o \in object \/ ObjectOK(o)'
    PROVE  StepOK
<1>1. DOMAIN session' = Request /\ \A q \in Request : session'[q] = session[q]
  BY DEF Typing
<1>2. Effects({})
  BY <1>1, SmallStep
<1> QED BY <1>2, EffectsType, EffectsData DEF StepOK

\* An upload that ends takes its chunks and parts along.
LEMMA DeletedSteps ==
    ASSUME Typing, NEW u \in Upload, NEW row, RowBecomes(u, Deleted(row))
    PROVE  OnlyRow(u) /\ RowSteps({}, u)
<1>1. OnlyRow(u) /\ upload'[u] = Deleted(row)
  BY DEF Typing, OnlyRow, RowBecomes
<1> QED BY <1>1, DeletedOK DEF RowSteps, KeepsPart

\* The SQL calls that change one upload row and publish nothing.
LEMMA RowCallsData ==
    ASSUME Typing, NEW u \in Upload,
           \/ CreateMultipartUpload(u) \/ SqlPutChunk(u)
           \/ AbortMultipartUpload(u) \/ GcPendingUploads(u)
    PROVE  StepOK
<1>1. UNCHANGED <<session, lastTry, object>>
  BY DEF CreateMultipartUpload, SqlPutChunk, AbortMultipartUpload, GcPendingUploads
<1>2. CASE CreateMultipartUpload(u)
  <2>1. upload[u].state = "free" /\ OnlyRow(u) /\ upload'[u] = NewRow(TRUE)
    BY <1>2 DEF CreateMultipartUpload, Typing, OnlyRow
  <2>2. RowSteps({}, u)
    BY <2>1, NewRowOK DEF RowSteps
  <2> QED BY <1>1, <2>1, <2>2, RowMoves
<1>3. CASE SqlPutChunk(u)
  <2> DEFINE d == <<<<None, 1>>>>
  <2>1. PICK n \in SqlSequence : RowBecomes(u, PutChunk(upload[u], 0, n, d))
    BY <1>3 DEF SqlPutChunk, RowBecomes
  <2> HIDE DEF d
  <2>2. /\ OnlyRow(u) /\ upload'[u] = PutChunk(upload[u], 0, n, d) /\ RowOK(upload[u])
        /\ upload[u].state = "pending"
    BY <1>3, <2>1 DEF SqlPutChunk, Pending, Typing, OnlyRow, RowBecomes
  <2>3. /\ RowOK(upload'[u]) /\ upload'[u].state = "pending"
        /\ \A q : q # 0 => KeepsPart(upload[u], upload'[u], q)
    BY <2>2, PutKeeps
  <2>4. RowSteps({}, u)
    BY <2>2, <2>3, SizesAssumption DEF RowSteps
  <2> QED BY <1>1, <2>2, <2>4, RowMoves
<1>4. CASE AbortMultipartUpload(u) \/ GcPendingUploads(u)
  <2>1. RowBecomes(u, Deleted(upload[u]))
    BY <1>4 DEF AbortMultipartUpload, GcPendingUploads, RowBecomes
  <2>2. OnlyRow(u) /\ RowSteps({}, u)
    BY <2>1, DeletedSteps
  <2> QED BY <1>1, <2>2, RowMoves
<1> QED BY <1>2, <1>3, <1>4

\* The ETag of an answered request is the one of its body.
LEMMA AnswerRight ==
    ASSUME Typing, Data, NEW r \in Request, session[r].pc = "ok"
    PROVE  session[r].etag = BodyOf(r)
<1>1. EtagRight(r)
  BY DEF Data
<1>2. Faithful(r, session[r])
  BY SessionTyped
<1> QED BY <1>1, <1>2 DEF EtagRight, Faithful, BodyOf

\* CompleteMultipartUpload publishes the listed parts, each as its request sent it.
LEMMA CompleteMultipartUploadData ==
    ASSUME Typing, NEW u \in Upload, CompleteMultipartUpload(u)
    PROVE  StepOK
<1> DEFINE row == upload[u]
           Listed(l) == [i \in DOMAIN l |-> row.part[session[l[i]].part]]
<1>1. PICK list \in UNION {[1 .. n -> Request] : n \in 1 .. Cardinality(PartNo)} :
        /\ \A i \in DOMAIN list : session[list[i]].pc = "ok" /\ EtagMatches(row, list[i])
        /\ object' = object \cup {[sent |-> list, body |-> FlattenSeq(Listed(list))]}
  BY DEF CompleteMultipartUpload
<1>2. RowBecomes(u, Deleted(upload[u])) /\ UNCHANGED <<session, lastTry>>
  BY DEF CompleteMultipartUpload, RowBecomes
<1>3. OnlyRow(u) /\ RowSteps({}, u)
  BY <1>2, DeletedSteps
<1>4. list \in Seq(Request)
  <2>1. PICK n \in 1 .. Cardinality(PartNo) : list \in [1 .. n -> Request]
    BY <1>1
  <2>2. n \in Nat
    BY <2>1
  <2> QED BY <2>1, <2>2, SeqDef
<1>5. ASSUME Data PROVE \A o \in object' : o \in object \/ ObjectOK(o)'
  <2>1. ASSUME NEW i \in DOMAIN list
        PROVE  /\ session'[list[i]].pc = "ok"
               /\ row.part[session[list[i]].part] = BodyOf(list[i])'
    <3>1. list[i] \in Request /\ session[list[i]].pc = "ok" /\ EtagMatches(row, list[i])
      BY <1>1, <1>4
    <3>2. session[list[i]].etag = BodyOf(list[i])
      BY <1>5, <3>1, AnswerRight
    <3> QED BY <1>2, <3>1, <3>2 DEF EtagMatches, BodyOf
  <2>2. Listed(list) = [i \in DOMAIN list |-> BodyOf(list[i])']
    BY <2>1
  <2> HIDE DEF Listed
  <2> SUFFICES ASSUME NEW o, o = [sent |-> list, body |-> FlattenSeq(Listed(list))]
               PROVE  ObjectOK(o)'
    BY <1>1
  <2>3. o.sent = list /\ o.body = FlattenSeq(Listed(list))
    OBVIOUS
  <2> QED BY <1>4, <2>1, <2>2, <2>3 DEF ObjectOK
<1> QED BY <1>2, <1>3, <1>5, RowMoves

\* A clock tick changes no data.
Later(s) == [s EXCEPT !.beat = @ + 1, !.quiet = @ + 1]

\* The same for a row.
LaterRow(row) ==
    [row EXCEPT !.age = IF @ > MaxAge THEN @ ELSE @ + 1, !.lease = IF @ = 0 THEN 0 ELSE @ - 1]

\* Tick in terms of these.
LEMMA TickSteps ==
    ASSUME Tick
    PROVE  /\ session' = [r \in Request |-> IF Active(session[r]) THEN Later(session[r])
                                            ELSE session[r]]
           /\ upload' = [u \in Upload |-> IF Pending(u) THEN LaterRow(upload[u]) ELSE upload[u]]
           /\ UNCHANGED <<lastTry, object>>
BY Zenon DEF Tick, Later, LaterRow

\* Tick keeps the invariant.
LEMMA TickData ==
    ASSUME Typing, Tick
    PROVE  StepOK
<1>1. ASSUME NEW q \in Request PROVE Waits(q)
  <2> DEFINE s == session[q]
             t == Later(s)
  <2>1. DOMAIN s = DOMAIN NewSession
    BY SessionTyped
  <2>2. session'[q] = IF Active(s) THEN t ELSE s
    BY TickSteps
  <2>3. SameData(s, t) /\ t.pc = s.pc /\ SameData(s, s)
    BY <2>1 DEF SameData, DataFields, NewSession, Later
  <2> HIDE DEF t
  <2> QED BY <2>2, <2>3 DEF Waits
<1>2. ASSUME NEW u \in Upload PROVE RowSteps({}, u)
  <2> DEFINE row == upload[u]
             t == LaterRow(row)
  <2>1. RowOK(row)
    BY DEF Typing
  <2>2. upload'[u] = IF Pending(u) THEN t ELSE row
    BY TickSteps
  <2>3. /\ DOMAIN t = RowNames /\ t.state = row.state /\ t.chunk = row.chunk
        /\ t.part = row.part /\ t.age = IF row.age > MaxAge THEN row.age ELSE row.age + 1
    BY <2>1 DEF RowOK, RowNames, LaterRow
  <2> HIDE DEF t
  <2>4. t.age \in 0 .. MaxAge + 1
    BY <2>1, <2>3, TimesAssumption DEF RowOK
  <2>5. RowOK(t)
    BY <2>1, <2>3, <2>4 DEF RowOK
  <2> QED BY <2>1, <2>2, <2>3, <2>5, SameRow
<1>3. /\ DOMAIN session' = Request /\ DOMAIN upload' = Upload
      /\ UNCHANGED <<lastTry, object>>
  BY TickSteps
<1>4. Effects({})
  BY <1>1, <1>2, <1>3 DEF Effects
<1> QED BY <1>3, <1>4, EffectsType, EffectsData DEF StepOK

-----------------------------------------------------------------------------
(* A new try of a part.                                                    *)

\* No worker holds a session of the part.
NoTry(u, p) ==
    \A q \in Request : session[q].upload = u /\ session[q].part = p =>
        session[q].pc \in {"ok", "error", "crashed"}

\* HandlePart: the session, its part and its upload.
PartBegins(r, t, u, p) ==
    /\ session[r].pc = "new" /\ Pending(u) /\ (Overlap \/ NoTry(u, p))
    /\ SessionOK(r, t) /\ t.pc = "read" /\ t.kind = "part" /\ t.upload = u
    /\ t.part = p /\ t.sequence = 0 /\ t.buffer = <<>> /\ Taken(t) = 0
    /\ DOMAIN session' = Request /\ session'[r] = t
    /\ \A q \in Request \ {r} : session'[q] = session[q]
    /\ OnlyRow(u) /\ upload'[u] = BeginPart(upload[u], p)
    /\ DOMAIN lastTry' = DOMAIN lastTry \cup {<<u, p>>} /\ lastTry'[<<u, p>>] = r
    /\ \A x \in DOMAIN lastTry : x # <<u, p>> => lastTry'[x] = lastTry[x]
    /\ UNCHANGED object

\* prepare of an UploadPart is such a beginning.
LEMMA HandlePartBegins ==
    ASSUME Typing, NEW r \in Request, HandlePart(r)
    PROVE  \E t, u, p : u \in Upload /\ p \in PartNo /\ PartBegins(r, t, u, p)
<1>0. PICK n \in BodyLen, f \in BOOLEAN, c \in BOOLEAN, u \in Upload, p \in PartNo :
        /\ Pending(u) /\ upload[u].multipart
        /\ Overlap \/ \A q \in Request :
              session[q].upload = u /\ session[q].part = p =>
                  session[q].pc \in {"ok", "error", "crashed"}
        /\ session' = [session EXCEPT ![r] =
              [NewSession EXCEPT !.pc = "read", !.kind = "part", !.upload = u,
                                 !.part = p, !.len = n, !.fixed = f, !.checksum = c]]
        /\ upload' = [upload EXCEPT ![u] = BeginPart(@, p)]
        /\ lastTry' = [x \in DOMAIN lastTry \cup {<<u, p>>} |->
                          IF x = <<u, p>> THEN r ELSE lastTry[x]]
  BY Zenon DEF HandlePart
<1>1. /\ Pending(u) /\ (Overlap \/ NoTry(u, p))
      /\ session' = [session EXCEPT ![r] = PartBegun(n, f, c, u, p)]
      /\ upload' = [upload EXCEPT ![u] = BeginPart(upload[u], p)]
      /\ lastTry' = [x \in DOMAIN lastTry \cup {<<u, p>>} |->
                        IF x = <<u, p>> THEN r ELSE lastTry[x]]
  BY <1>0 DEF NoTry, PartBegun
<1>2. session[r].pc = "new" /\ UNCHANGED object
  BY DEF HandlePart
<1> DEFINE t == PartBegun(n, f, c, u, p)
<1>3. /\ SessionOK(r, t) /\ t.pc = "read" /\ t.kind = "part" /\ t.upload = u
      /\ t.part = p /\ t.sequence = 0 /\ t.buffer = <<>> /\ Taken(t) = 0
  BY BegunPartOK
<1> HIDE DEF t
<1>4. /\ DOMAIN session' = Request /\ session'[r] = t
      /\ \A q \in Request \ {r} : session'[q] = session[q]
  BY <1>1 DEF Typing, t
<1>5. OnlyRow(u) /\ upload'[u] = BeginPart(upload[u], p)
  BY <1>1 DEF Typing, OnlyRow
<1>6. /\ DOMAIN lastTry' = DOMAIN lastTry \cup {<<u, p>>} /\ lastTry'[<<u, p>>] = r
      /\ \A x \in DOMAIN lastTry : x # <<u, p>> => lastTry'[x] = lastTry[x]
  BY <1>1
<1>7. Pending(u) /\ (Overlap \/ NoTry(u, p))
  BY <1>1
<1>8. PartBegins(r, t, u, p)
  BY <1>2, <1>3, <1>4, <1>5, <1>6, <1>7 DEF PartBegins
<1> QED BY <1>8

\* A beginning keeps the types and empties its part, and no other.
LEMMA PartBeginsType ==
    ASSUME Typing, NEW r \in Request, NEW t, NEW u \in Upload, NEW p \in PartNo,
           PartBegins(r, t, u, p)
    PROVE  /\ Typing' /\ upload'[u].state = "pending" /\ ChunksOf(upload'[u], p) = {}
           /\ \A v \in Upload, q \in PartNo :
                <<v, q>> # <<u, p>> => KeepsPart(upload[v], upload'[v], q)
<1>1. /\ OnlyRow(u) /\ upload'[u] = BeginPart(upload[u], p) /\ RowOK(upload[u])
      /\ upload[u].state = "pending"
  BY DEF PartBegins, Typing, Pending
<1>2. /\ RowOK(upload'[u]) /\ upload'[u].state = "pending" /\ ChunksOf(upload'[u], p) = {}
      /\ \A q : q # p => KeepsPart(upload[u], upload'[u], q)
  BY <1>1, BegunRow
<1>3. ASSUME NEW v \in Upload, v # u
      PROVE  upload'[v] = upload[v] /\ \A q : KeepsPart(upload[v], upload'[v], q)
  BY <1>1, <1>3 DEF OnlyRow, KeepsPart
<1>4. ASSUME NEW q \in Request PROVE SessionOK(q, session'[q])
  BY DEF PartBegins, Typing
<1>5. ASSUME NEW v \in Upload PROVE RowOK(upload'[v])
  BY <1>2, <1>3 DEF Typing
<1>6. DOMAIN session' = Request /\ DOMAIN upload' = Upload /\ DOMAIN lastTry' \subseteq Upload \X PartNo
  BY DEF PartBegins, OnlyRow, Typing
<1>7. Typing'
  BY <1>4, <1>5, <1>6 DEF Typing
<1>8. ASSUME NEW v \in Upload, NEW q \in PartNo, <<v, q>> # <<u, p>>
      PROVE  KeepsPart(upload[v], upload'[v], q)
  BY <1>2, <1>3, <1>8
<1> QED BY <1>2, <1>7, <1>8

\* A try that begins has staged nothing and taken nothing.
LEMMA NothingStaged ==
    ASSUME NEW r, NEW row, NEW p, ChunksOf(row, p) = {}
    PROVE  /\ Holding(row, p, 0)
           /\ FlattenSeq(Stage(row, p, 0)) \o <<>> = Bytes(r, 1, 0)
<1>1. Keys(p, 0) = {}
  BY DEF Keys
<1>2. Stage(row, p, 0) = <<>>
  BY DEF Stage
<1>3. FlattenSeq(<<>>) \o <<>> = <<>>
  BY DEF FlattenSeq
<1> QED BY <1>1, <1>2, <1>3, Empties, NoBytes DEF Holding

\* Without overlapping tries, a beginning takes nothing from a request in progress.
LEMMA PartBeginsData ==
    ASSUME Typing, Data, ~Overlap, NEW r \in Request, NEW t, NEW u \in Upload, NEW p \in PartNo,
           PartBegins(r, t, u, p)
    PROVE  Data'
<1>1. /\ Typing' /\ upload'[u].state = "pending" /\ ChunksOf(upload'[u], p) = {}
      /\ \A v \in Upload, q \in PartNo :
           <<v, q>> # <<u, p>> => KeepsPart(upload[v], upload'[v], q)
  BY PartBeginsType
<1>2. /\ session[r].pc = "new" /\ NoTry(u, p) /\ session'[r] = t /\ u # None
      /\ t.pc = "read" /\ t.kind = "part" /\ t.upload = u /\ t.part = p
      /\ t.sequence = 0 /\ t.buffer = <<>> /\ Taken(t) = 0
      /\ \A q \in Request \ {r} : session'[q] = session[q]
  BY DEF PartBegins, Pending
<1>3. /\ DOMAIN lastTry' = DOMAIN lastTry \cup {<<u, p>>} /\ lastTry'[<<u, p>>] = r
      /\ \A x \in DOMAIN lastTry : x # <<u, p>> => lastTry'[x] = lastTry[x]
  BY DEF PartBegins
<1>4. Tries
  BY DEF Data
<1>5. ASSUME NEW q \in Request, session[q].kind = "part", Held(session[q])
      PROVE  /\ session[q].upload \in Upload /\ session[q].part \in PartNo
             /\ <<session[q].upload, session[q].part>> # <<u, p>>
  <2>1. session[q].pc \notin {"ok", "error", "crashed"}
    BY <1>5 DEF Held, Active
  <2> QED BY <1>2, <1>5, <2>1, PartOf DEF NoTry
<1>6. ASSUME NEW q \in Request PROVE Staging(q)'
  <2>1. CASE q = r
    <3>1. /\ Holding(upload'[u], p, 0)
          /\ FlattenSeq(Stage(upload'[u], p, 0)) \o <<>> = Bytes(r, 1, 0)
      BY <1>1, NothingStaged
    <3> QED BY <1>2, <2>1, <3>1 DEF Staging
  <2>2. CASE q # r
    <3> DEFINE s == session[q]
               v == s.upload
    <3> SUFFICES ASSUME Active(s), s.kind = "part", upload'[v].state = "pending"
                 PROVE  /\ Holding(upload'[v], s.part, s.sequence)
                        /\ FlattenSeq(Stage(upload'[v], s.part, s.sequence)) \o s.buffer
                              = Bytes(q, 1, Taken(s))
      BY <1>2, <2>2 DEF Staging, Pending
    <3>1. v \in Upload /\ s.part \in PartNo /\ <<v, s.part>> # <<u, p>>
      BY <1>5 DEF Held
    <3>2. KeepsPart(upload[v], upload'[v], s.part)
      BY <1>1, <3>1
    <3>3. Pending(v)
      BY <3>1, <3>2, SizesAssumption DEF KeepsPart, Pending
    <3>4. /\ Holding(upload[v], s.part, s.sequence)
          /\ FlattenSeq(Stage(upload[v], s.part, s.sequence)) \o s.buffer = Bytes(q, 1, Taken(s))
      BY <3>3 DEF Data, Staging
    <3> DEFINE n == s.sequence
               b == s.buffer
               k == s.part
    <3>5. Holding(upload[v], k, n) /\ FlattenSeq(Stage(upload[v], k, n)) \o b = Bytes(q, 1, Taken(s))
      BY <3>4
    <3>6. KeepsPart(upload[v], upload'[v], k) /\ upload'[v].state = "pending"
      BY <3>2
    <3> HIDE DEF n, b, k, v, s
    <3>7. Holding(upload'[v], k, n) /\ Stage(upload'[v], k, n) = Stage(upload[v], k, n)
      BY <3>5, <3>6, KeptStage
    <3>8. FlattenSeq(Stage(upload'[v], k, n)) \o b = Bytes(q, 1, Taken(s))
      BY <3>5, <3>7
    <3> QED BY <3>7, <3>8 DEF n, b, k
  <2> QED BY <2>1, <2>2
<1>7. ASSUME NEW q \in Request PROVE EtagRight(q)'
  <2>1. EtagRight(q)
    BY DEF Data
  <2>2. CASE q = r
    BY <1>2, <2>2 DEF EtagRight
  <2>3. CASE q # r
    BY <1>2, <2>1, <2>3 DEF EtagRight, BodyOf
  <2> QED BY <2>2, <2>3
<1>8. ASSUME NEW x \in DOMAIN lastTry, x # <<u, p>>
      PROVE  LET q == lastTry[x]
             IN /\ q \in Request /\ q # r /\ session'[q] = session[q] /\ lastTry'[x] = q
                /\ session[q].pc # "new" /\ session[q].kind = "part"
                /\ session[q].upload = x[1] /\ session[q].part = x[2]
  BY <1>2, <1>3, <1>4, <1>8 DEF Tries
<1>9. Tries'
  <2>1. ASSUME NEW x \in DOMAIN lastTry'
        PROVE  /\ lastTry'[x] \in Request /\ session'[lastTry'[x]].pc # "new"
               /\ session'[lastTry'[x]].kind = "part"
               /\ session'[lastTry'[x]].upload = x[1] /\ session'[lastTry'[x]].part = x[2]
    <3>1. CASE x = <<u, p>>
      BY <1>2, <1>3, <3>1
    <3>2. CASE x # <<u, p>>
      BY <1>3, <1>8, <3>2
    <3> QED BY <3>1, <3>2
  <2>2. ASSUME NEW q \in Request, session'[q].kind = "part"
        PROVE  /\ upload'[session'[q].upload].state # "free"
               /\ Held(session'[q]) =>
                    /\ <<session'[q].upload, session'[q].part>> \in DOMAIN lastTry'
                    /\ lastTry'[<<session'[q].upload, session'[q].part>>] = q
    <3>1. CASE q = r
      BY <1>1, <1>2, <1>3, <3>1
    <3>2. CASE q # r
      <4>1. session'[q] = session[q] /\ session[q].kind = "part"
        BY <1>2, <2>2, <3>2
      <4>2. /\ upload[session[q].upload].state # "free"
            /\ Held(session[q]) =>
                 /\ <<session[q].upload, session[q].part>> \in DOMAIN lastTry
                 /\ lastTry[<<session[q].upload, session[q].part>>] = q
        BY <1>4, <4>1 DEF Tries
      <4>3. session[q].upload \in Upload
        BY <4>1, PartOf
      <4>4. upload'[session[q].upload].state # "free"
        <5>1. CASE session[q].upload = u
          BY <1>1, <5>1
        <5>2. CASE session[q].upload # u
          BY <4>2, <4>3, <5>2 DEF PartBegins, OnlyRow
        <5> QED BY <5>1, <5>2
      <4>5. ASSUME Held(session[q])
            PROVE  /\ <<session[q].upload, session[q].part>> \in DOMAIN lastTry'
                   /\ lastTry'[<<session[q].upload, session[q].part>>] = q
        BY <1>3, <1>5, <4>1, <4>2, <4>5
      <4> QED BY <4>1, <4>4, <4>5
    <3> QED BY <3>1, <3>2
  <2> QED BY <2>1, <2>2 DEF Tries
<1>10. AnsweredPartKept'
  <2> SUFFICES ASSUME NEW x \in DOMAIN lastTry', upload'[x[1]].state = "pending",
                      session'[lastTry'[x]].pc = "ok"
               PROVE  /\ x[2] \in DOMAIN upload'[x[1]].part
                      /\ upload'[x[1]].part[x[2]] = Bytes(lastTry'[x], 1, session'[lastTry'[x]].len)
    BY DEF AnsweredPartKept, BodyOf, Pending
  <2> DEFINE q == lastTry[x]
             v == x[1]
             k == x[2]
  <2>1. x \in DOMAIN lastTry /\ x # <<u, p>>
    BY <1>2, <1>3
  <2>2. /\ q \in Request /\ session'[q] = session[q] /\ lastTry'[x] = q /\ session[q].kind = "part"
        /\ session[q].upload = v /\ session[q].part = k
    BY <1>8, <2>1
  <2>3. v \in Upload /\ k \in PartNo /\ x = <<v, k>> /\ v # None
    BY <2>1, SizesAssumption DEF Typing
  <2>4. KeepsPart(upload[v], upload'[v], k)
    BY <1>1, <2>1, <2>3
  <2>5. Pending(v) /\ session[q].pc = "ok"
    BY <2>2, <2>3, <2>4 DEF KeepsPart, Pending
  <2>6. k \in DOMAIN upload[v].part /\ upload[v].part[k] = Bytes(q, 1, session[q].len)
    BY <2>1, <2>5 DEF Data, AnsweredPartKept, BodyOf
  <2>7. k \in DOMAIN upload'[v].part /\ upload'[v].part[k] = upload[v].part[k]
    BY <2>4, <2>6 DEF KeepsPart
  <2> QED BY <2>2, <2>6, <2>7
<1>11. ASSUME NEW o \in object' PROVE ObjectOK(o)'
  <2>1. o \in object
    BY DEF PartBegins
  <2>2. /\ o.sent \in Seq(Request) /\ \A i \in DOMAIN o.sent : session[o.sent[i]].pc = "ok"
        /\ o.body = FlattenSeq([i \in DOMAIN o.sent |-> BodyOf(o.sent[i])])
    BY <2>1 DEF Data, ObjectOK
  <2>3. ASSUME NEW i \in DOMAIN o.sent
        PROVE  session'[o.sent[i]].pc = "ok" /\ BodyOf(o.sent[i])' = BodyOf(o.sent[i])
    <3>1. o.sent[i] \in Request /\ session[o.sent[i]].pc = "ok" /\ o.sent[i] # r
      BY <1>2, <2>2
    <3> QED BY <1>2, <3>1 DEF BodyOf
  <2>4. [i \in DOMAIN o.sent |-> BodyOf(o.sent[i])'] = [i \in DOMAIN o.sent |-> BodyOf(o.sent[i])]
    BY <2>3
  <2> QED BY <2>2, <2>3, <2>4 DEF ObjectOK
<1> QED BY <1>6, <1>7, <1>9, <1>10, <1>11 DEF Data

\* prepare of an UploadPart keeps the invariant when tries do not overlap.
LEMMA HandlePartData ==
    ASSUME Typing, NEW r \in Request, HandlePart(r)
    PROVE  Typing' /\ (~Overlap /\ Data => Data')
BY HandlePartBegins, PartBeginsType, PartBeginsData

-----------------------------------------------------------------------------
(* The theorems.                                                           *)

\* No request has begun, and no row exists.
LEMMA InitData == Init => Typing /\ Data
<1> SUFFICES ASSUME Init PROVE Typing /\ Data
  OBVIOUS
<1>1. /\ DOMAIN session = Request /\ DOMAIN upload = Upload
      /\ \A r \in Request : session[r] = NewSession
      /\ \A u \in Upload : upload[u] = FreeRow
      /\ DOMAIN lastTry = {} /\ object = {}
  BY DEF Init
<1>2. RowOK(FreeRow)
  BY TimesAssumption DEF RowOK, FreeRow, RowNames
<1>3. Typing
  BY <1>1, <1>2, NewOK DEF Typing
<1>4. NewSession.pc = "new" /\ NewSession.kind = "put"
  BY DEF NewSession
<1>5. Data
  BY <1>1, <1>4 DEF Data, Staging, EtagRight, Tries, AnsweredPartKept, Active
<1> QED BY <1>3, <1>5

\* Every step but a new try keeps types and bytes.
LEMMA NextData ==
    ASSUME Typing, [Next]_vars
    PROVE  Typing' /\ (~Overlap /\ Data => Data')
<1>1. CASE UNCHANGED vars
  BY <1>1 DEF vars, Typing, Data, Staging, EtagRight, Tries, AnsweredPartKept, ObjectOK,
              BodyOf, Pending
<1>2. ASSUME NEW r \in Request, HandlePart(r) PROVE Typing' /\ (~Overlap /\ Data => Data')
  BY <1>2, HandlePartData
<1>3. ASSUME NEW r \in Request, HandlePut(r) \/ PushBody(r) \/ SessionStep(r) \/ WorkerDies(r)
      PROVE  StepOK
  <2>1. CASE HandlePut(r)
    BY <2>1, HandlePutData
  <2>2. CASE PushBody(r)
    BY <2>2, PushBodyData
  <2>3. CASE AcceptDecoded(r)
    BY <2>3, AcceptDecodedData
  <2>4. CASE RenewUploadLeaseIfDue(r)
    BY <2>4, RenewData
  <2>5. CASE FinishDirect(r)
    BY <2>5, FinishDirectData
  <2>6. CASE FinishPut(r)
    BY <2>6, FinishPutData
  <2>7. CASE FinishPart(r)
    BY <2>7, FinishPartData
  <2>8. CASE CompletePart(r)
    BY <2>8, CompletePartData
  <2>9. CASE SessionFails(r)
    BY <2>9, SessionFailsData
  <2>10. CASE AbortBody(r)
    BY <2>10, AbortBodyData
  <2>11. CASE Cleanup(r)
    BY <2>11, CleanupData
  <2>12. CASE WorkerDies(r)
    BY <2>12, WorkerDiesData
  <2> QED BY <1>3, <2>1, <2>2, <2>3, <2>4, <2>5, <2>6, <2>7, <2>8, <2>9, <2>10, <2>11, <2>12
          DEF SessionStep
<1>4. ASSUME NEW u \in Upload,
             \/ CreateMultipartUpload(u) \/ SqlPutChunk(u) \/ CompleteMultipartUpload(u)
             \/ AbortMultipartUpload(u) \/ GcPendingUploads(u)
      PROVE  StepOK
  BY <1>4, RowCallsData, CompleteMultipartUploadData
<1>5. CASE Tick
  BY <1>5, TickData DEF StepOK
<1> QED BY <1>1, <1>2, <1>3, <1>4, <1>5 DEF Next, StepOK

\* Every session and every row by itself is well formed, and a PutObject has
\* the bytes it has taken in its buffer, or in its manifest and its buffer,
\* whatever SQL sessions do to the rows and whether or not tries overlap.
THEOREM SessionsWellFormed == Spec => []Typing
<1>1. Init => Typing
  BY InitData
<1>2. Typing /\ [Next]_vars => Typing'
  BY NextData
<1> QED BY <1>1, <1>2, PTL DEF Spec

\* TypeOK of the body sessions holds for all constants, overlapping tries
\* included: no buffer outgrows staging_chunk_bytes, or direct_put_bytes, and
\* no session is silent longer than the workers allow.
THEOREM BodiesTypeCorrect == Spec => []TypeOK
<1>1. Typing /\ LeaseInvariant => TypeOK
  <2> SUFFICES ASSUME Typing, LeaseInvariant PROVE TypeOK
    OBVIOUS
  <2>1. ASSUME NEW r \in Request
        PROVE  /\ session[r].pc \in {"new", "read", "stage", "renew", "complete_part",
                                     "cleanup", "ok", "error", "crashed"}
               /\ session[r].kind \in Kinds /\ session[r].upload \in Upload \cup {None}
               /\ session[r].part \in PartNo \cup {0}
               /\ session[r].remaining \in 0 .. session[r].wire
               /\ session[r].wire \in 0 .. session[r].len
               /\ session[r].buffer \in Bodies
    BY SessionTyped DEF Formed
  <2>2. ASSUME NEW r \in Request
        PROVE  Len(session[r].buffer) <=
                   IF session[r].kind = "direct" THEN DirectBytes ELSE ChunkBytes
    <3>1. /\ session[r].len \in Nat /\ Len(session[r].buffer) \in Nat
          /\ session[r].kind = "direct" => session[r].len <= DirectBytes
          /\ Len(session[r].buffer) <= IF session[r].kind = "direct" THEN session[r].len
                                       ELSE ChunkBytes
      BY SessionTyped DEF Formed, Bodies
    <3> QED BY <3>1, SizesAssumption
  <2>3. ASSUME NEW r \in Request
        PROVE  session[r].beat \in Nat /\ session[r].quiet \in 0 .. BodyIdle + Slack
    BY DEF LeaseInvariant, Clocks
  <2>4. ASSUME NEW u \in Upload
        PROVE  /\ upload[u].state \in {"free", "pending", "gone"}
               /\ upload[u].age \in 0 .. MaxAge + 1 /\ upload[u].lease \in 0 .. UploadLease
    BY DEF Typing, RowOK, LeaseInvariant, Leases
  <2>5. DOMAIN lastTry \subseteq Upload \X PartNo
    BY DEF Typing
  <2> QED BY <2>1, <2>2, <2>3, <2>4, <2>5 DEF TypeOK
<1> QED BY <1>1, SessionsWellFormed, LeaseInvariantHolds, PTL

\* Without overlapping tries of a part: what the sessions hold, have stored and
\* have published is what their requests sent.
THEOREM BytesAccountedFor == ~Overlap => (Spec => []Data)
<1> SUFFICES ASSUME ~Overlap PROVE Spec => []Data
  OBVIOUS
<1>1. Init => Typing /\ Data
  BY InitData
<1>2. Typing /\ Data /\ [Next]_vars => Typing' /\ Data'
  BY NextData
<1> QED BY <1>1, <1>2, PTL DEF Spec

\* Every published object is, byte for byte, what its requests sent, for bodies,
\* chunks and manifests of every size and any number of requests, provided
\* clients begin a part again only when the last try of it has ended.
THEOREM ObjectsAreWhatWasSent == ~Overlap => (Spec => []ObjectIsWhatWasSent)
<1> SUFFICES ASSUME ~Overlap PROVE Spec => []ObjectIsWhatWasSent
  OBVIOUS
<1>1. Data => ObjectIsWhatWasSent
  BY DEF Data, ObjectOK, ObjectIsWhatWasSent
<1>2. Spec => []Data
  BY BytesAccountedFor
<1> QED BY <1>1, <1>2, PTL

\* An answered part stays complete, with the bytes of the request that was
\* answered, until its upload ends or another try begins, under the same
\* proviso.
THEOREM AnsweredPartsKept == ~Overlap => (Spec => []AnsweredPartKept)
<1> SUFFICES ASSUME ~Overlap PROVE Spec => []AnsweredPartKept
  OBVIOUS
<1>1. Data => AnsweredPartKept
  BY DEF Data
<1>2. Spec => []Data
  BY BytesAccountedFor
<1> QED BY <1>1, <1>2, PTL

=============================================================================
