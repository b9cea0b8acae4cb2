-------------------------- MODULE HttpWorkerProofs --------------------------
(***************************************************************************)
(* The HTTP worker settles every body session and counts its requests      *)
(* exactly, for any finite number of connections, any requests and any     *)
(* number of processes that replace each other.                            *)
(***************************************************************************)
EXTENDS HttpWorker, LeastElements, FiniteSetTheorems

\* The type of each field of a connection, and the names of the fields.
FieldType ==
    [todo |-> Seq(Tokens), wire |-> Seq(Tokens), eof |-> BOOLEAN, broken |-> BOOLEAN,
     stalled |-> BOOLEAN, sent |-> 0 .. MaxBatches,
     phase |-> Phases, session |-> Sessions, left |-> Nat, status |-> Statuses,
     op |-> Operations, cont |-> BOOLEAN, close |-> BOOLEAN,
     active |-> BOOLEAN, started |-> BOOLEAN, metric |-> Operations,
     written |-> BOOLEAN, idle |-> BOOLEAN, out |-> Outcomes]

\* The fields of a connection, and the type of one of them.
Names == DOMAIN FieldType
TypeOf(f) == FieldType[f]

\* A connection field by field, the form in which the provers see through EXCEPT.
Typed(k) ==
    /\ k = [f \in Names |-> k[f]]
    /\ \A f \in Names : k[f] \in TypeOf(f)

\* The types one by one.
LEMMA FieldTypes ==
    /\ TypeOf("todo") = Seq(Tokens) /\ TypeOf("wire") = Seq(Tokens)
    /\ TypeOf("eof") = BOOLEAN /\ TypeOf("broken") = BOOLEAN /\ TypeOf("stalled") = BOOLEAN
    /\ TypeOf("sent") = 0 .. MaxBatches /\ TypeOf("phase") = Phases
    /\ TypeOf("session") = Sessions /\ TypeOf("left") = Nat /\ TypeOf("status") = Statuses
    /\ TypeOf("op") = Operations /\ TypeOf("cont") = BOOLEAN /\ TypeOf("close") = BOOLEAN
    /\ TypeOf("active") = BOOLEAN /\ TypeOf("started") = BOOLEAN
    /\ TypeOf("metric") = Operations /\ TypeOf("written") = BOOLEAN
    /\ TypeOf("idle") = BOOLEAN /\ TypeOf("out") = Outcomes
BY DEF TypeOf, FieldType

\* The names one by one.
LEMMA FieldNames ==
    {"todo", "wire", "eof", "broken", "stalled", "sent", "phase", "session", "left", "status",
     "op", "cont", "close", "active", "started", "metric", "written", "idle", "out"} = Names
BY DEF Names, FieldType

\* This is the set Connection of the specification.
LEMMA TypedIsConnection ==
    ASSUME NEW k
    PROVE  Typed(k) <=> k \in Connection
<1>1. Typed(k) => k \in Connection
  BY DEF Typed, Names, TypeOf, FieldType, Connection
<1>2. k \in Connection => Typed(k)
  <2> SUFFICES ASSUME k \in Connection PROVE Typed(k)
    OBVIOUS
  <2>1. k = [f \in Names |-> k[f]]
    BY DEF Connection, Names, FieldType
  <2>2. ASSUME NEW f \in Names PROVE k[f] \in TypeOf(f)
    BY FieldTypes, FieldNames DEF Connection
  <2> QED BY <2>1, <2>2 DEF Typed
<1> QED BY <1>1, <1>2

\* The sets the fields range over.
LEMMA Ranges ==
    /\ {"head", "body", "response", "queued", "free"} \subseteq Phases
    /\ {"none", "open", "finished", "failed", "aborted", "lost"} \subseteq Sessions
    /\ {0, 200, 400, 408, 413, 417, 500} \subseteq Statuses
    /\ {"go", "pending", "complete", "closed", "ioerror", "panic"} \subseteq Outcomes
    /\ InvalidRequest \in Operations
BY HttpWorkerAssumption DEF Phases, Sessions, Statuses, Outcomes

-----------------------------------------------------------------------------
(* One drive.                                                              *)

\* What holds of a connection k that a drive which found k0 has reached: it
\* began a request exactly if there was none, it has a session exactly while
\* it takes a body, and the outcome fits the request.
Driven(k0, k) ==
    /\ Typed(k)
    /\ k.metric = k0.metric
    /\ k0.active => k.active /\ ~k.started
    /\ ~k0.active => (k.started <=> k.active)
    /\ k.phase \notin {"free", "queued"}
    /\ k.phase \in {"body", "response"} => k.active
    /\ (k.phase = "body") <=> (k.session = "open")
    /\ k.out = "closed" => ~k.active
    /\ k.out = "complete" => k.active

\* The same of a connection inside a request that is ready for its response.
Ended(k0, k) ==
    /\ Typed(k)
    /\ k.metric = k0.metric
    /\ k0.active => ~k.started
    /\ ~k0.active => k.started
    /\ k.active
    /\ k.session # "open"
    /\ k.out # "closed"

\* queue_response changes three fields.
LEMMA QueueFields ==
    ASSUME NEW k, Typed(k), NEW s \in Statuses, NEW c \in BOOLEAN
    PROVE  /\ Typed(queue_response(k, s, c))
           /\ queue_response(k, s, c).phase = "response"
           /\ \A f \in Names \ {"phase", "status", "close"} : queue_response(k, s, c)[f] = k[f]
<1> DEFINE b == k.close \/ s >= 400 \/ c
<1>1. queue_response(k, s, c) = [k EXCEPT !.phase = "response", !.status = s, !.close = b]
  BY DEF queue_response
<1>2. b \in BOOLEAN
  OBVIOUS
<1> HIDE DEF b
<1>3. Typed([k EXCEPT !.phase = "response", !.status = s, !.close = b])
  BY <1>2, FieldTypes, FieldNames, ZenonT(40) DEF Typed, Phases
<1>4. [k EXCEPT !.phase = "response", !.status = s, !.close = b].phase = "response"
  BY FieldNames DEF Typed
<1>5. \A f \in Names \ {"phase", "status", "close"} :
        [k EXCEPT !.phase = "response", !.status = s, !.close = b][f] = k[f]
  BY DEF Typed
<1> QED BY <1>1, <1>3, <1>4, <1>5

\* A response is queued once no session is open.
LEMMA QueueDriven ==
    ASSUME NEW k0, NEW k, Ended(k0, k), NEW s \in Statuses, NEW c \in BOOLEAN
    PROVE  Driven(k0, queue_response(k, s, c))
<1> DEFINE q == queue_response(k, s, c)
<1>1. /\ Typed(q) /\ q.phase = "response"
      /\ \A f \in Names \ {"phase", "status", "close"} : q[f] = k[f]
  BY QueueFields DEF Ended
<1> HIDE DEF q
<1>2. /\ q.metric = k.metric /\ q.active = k.active /\ q.started = k.started
      /\ q.session = k.session /\ q.out = k.out
  BY <1>1, FieldNames
<1>3. Driven(k0, q)
  BY <1>1, <1>2 DEF Driven, Ended
<1> QED BY <1>3 DEF q

\* Without a body there is no session to end.
LEMMA NoSession ==
    ASSUME NEW k0, NEW k, Driven(k0, k), k.phase # "body", k.active
    PROVE  Ended(k0, k)
BY DEF Driven, Ended

\* The answers of the service are responses.
LEMMA AnswersDriven ==
    ASSUME NEW k0, NEW k, Ended(k0, k), NEW r \in Answers(k)
    PROVE  Driven(k0, r)
<1>1. PICK s \in {200, 500}, c \in BOOLEAN : r = queue_response(k, s, c)
  BY ZenonT(40) DEF Answers
<1>2. s \in Statuses
  BY Ranges
<1> QED BY <1>1, <1>2, QueueDriven

\* A panic only leaves a mark.
LEMMA PanicDriven ==
    ASSUME NEW k0, NEW k, Driven(k0, k)
    PROVE  Driven(k0, Panic(k))
<1> DEFINE q == Panic(k)
<1>1. Typed(q)
  BY FieldTypes, FieldNames, Ranges DEF Panic, Typed, Driven
<1>2. /\ q.metric = k.metric /\ q.active = k.active /\ q.started = k.started
      /\ q.session = k.session /\ q.phase = k.phase /\ q.out = "panic"
  BY FieldNames DEF Panic, Typed, Driven
<1> HIDE DEF q
<1>3. Driven(k0, q)
  BY <1>1, <1>2 DEF Driven
<1> QED BY <1>3 DEF q

\* The end of a session, with the body still in the phase.
LEMMA SessionEnds ==
    ASSUME NEW k0, NEW k, Driven(k0, k), k.phase = "body",
           NEW e \in {"finished", "failed", "aborted", "lost"}
    PROVE  Ended(k0, [k EXCEPT !.session = e])
<1> DEFINE k1 == [k EXCEPT !.session = e]
<1>0. Typed(k) /\ e \in TypeOf("session") /\ "session" \in Names
  BY FieldTypes, FieldNames, Ranges DEF Driven
<1>1. Typed(k1)
  <2>1. DOMAIN k = Names /\ \A f \in Names : k[f] \in TypeOf(f)
    BY <1>0 DEF Typed
  <2>2. DOMAIN k1 = Names /\ k1 = [f \in Names |-> IF f = "session" THEN e ELSE k[f]]
    BY <2>1
  <2> HIDE DEF k1
  <2>3. \A f \in Names : k1[f] \in TypeOf(f)
    BY <1>0, <2>1, <2>2
  <2> QED BY <2>2, <2>3 DEF Typed
<1>2. /\ k1.metric = k.metric /\ k1.active = k.active /\ k1.started = k.started
      /\ k1.session = e /\ k1.out = k.out
  BY FieldNames DEF Typed, Driven
<1> HIDE DEF k1
<1>3. Ended(k0, k1)
  BY <1>1, <1>2 DEF Driven, Ended
<1> QED BY <1>3 DEF k1

\* abort_session.
LEMMA AbortDriven ==
    ASSUME NEW k0, NEW k, Driven(k0, k), k.active, NEW s \in Statuses,
           NEW r \in abort_session(k, s)
    PROVE  Driven(k0, r)
<1>1. CASE k.phase = "body"
  <2>1. Ended(k0, [k EXCEPT !.session = "aborted"])
    BY <1>1, SessionEnds
  <2> DEFINE k1 == [k EXCEPT !.session = "aborted"]
  <2>2. r \in {queue_response(k1, s, FALSE), Panic(k)}
    BY <1>1 DEF abort_session
  <2> HIDE DEF k1
  <2>3. Driven(k0, queue_response(k1, s, FALSE))
    BY <2>1, QueueDriven DEF k1
  <2> QED BY <2>2, <2>3, PanicDriven
<1>2. CASE k.phase # "body"
  BY <1>2, NoSession, QueueDriven DEF abort_session
<1> QED BY <1>1, <1>2

\* finish_body.
LEMMA FinishDriven ==
    ASSUME NEW k0, NEW k, Driven(k0, k), k.phase = "body", NEW r \in finish_body(k)
    PROVE  Driven(k0, r)
<1> DEFINE k1 == [k EXCEPT !.session = "finished"]
<1>1. Ended(k0, k1)
  BY SessionEnds
<1>2. r \in Answers(k1) \cup {Panic(k)}
  BY DEF finish_body
<1> HIDE DEF k1
<1> QED BY <1>1, <1>2, AnswersDriven, PanicDriven

\* ingest_body takes a prefix of what was read.
LEMMA IngestBodyDriven ==
    ASSUME NEW k0, NEW k, Driven(k0, k), k.phase = "body", k.out = "go",
           NEW bytes \in Seq(Tokens), NEW r \in ingest_body(k, bytes)
    PROVE  Driven(k0, r)
<1> DEFINE n == IF Len(bytes) < k.left THEN Len(bytes) ELSE k.left
           taken == SubSeq(bytes, 1, n)
           b == k.close \/ n < Len(bytes)
           rest == [k EXCEPT !.left = @ - n, !.close = @ \/ n < Len(bytes)]
           failed == [rest EXCEPT !.session = "failed"]
<1>1. k.left \in Nat /\ k.close \in BOOLEAN
  BY FieldTypes, FieldNames DEF Driven, Typed
<1>2. n \in Nat /\ k.left - n \in Nat /\ b \in BOOLEAN
  BY <1>1
<1>3. \/ r \in abort_session(k, 400)
      \/ r = rest
      \/ r \in finish_body(rest)
      \/ r \in {queue_response(failed, 400, FALSE), Panic(rest)}
  BY DEF ingest_body
<1>4. rest = [k EXCEPT !.left = k.left - n, !.close = b]
  OBVIOUS
<1> HIDE DEF n, b
<1>5. Typed(rest)
  BY <1>2, <1>4, FieldTypes, FieldNames, ZenonT(40) DEF Typed, Driven
<1>6. /\ rest.metric = k.metric /\ rest.active = k.active /\ rest.started = k.started
      /\ rest.session = k.session /\ rest.phase = k.phase /\ rest.out = k.out
  BY <1>4, FieldNames DEF Typed, Driven
<1> HIDE DEF rest
<1>7. Driven(k0, rest) /\ rest.phase = "body"
  BY <1>5, <1>6 DEF Driven
<1>8. Ended(k0, failed)
  BY <1>7, SessionEnds
<1> HIDE DEF failed
<1>9. 400 \in Statuses
  BY Ranges
<1>10. Driven(k0, queue_response(failed, 400, FALSE))
  BY <1>8, <1>9, QueueDriven, ZenonT(40)
<1>11. CASE r \in abort_session(k, 400)
  BY <1>9, <1>11, AbortDriven DEF Driven
<1> QED BY <1>3, <1>7, <1>10, <1>11, FinishDriven, PanicDriven, ZenonT(40)

\* Tokens of a head carry a request; reads are sequences of tokens.
LEMMA HeadToken ==
    ASSUME NEW bytes \in Seq(Tokens), NEW i \in 1 .. Len(bytes), bytes[i].t = "head"
    PROVE  /\ bytes[i].req \in Requests
           /\ bytes[i].req.op \in Operations /\ bytes[i].req.close \in BOOLEAN
           /\ bytes[i].req.body \in Seq({"b", "x"})
<1>1. bytes[i] \in Tokens
  OBVIOUS
<1>2. bytes[i].req \in Requests
  BY <1>1 DEF Tokens
<1> QED BY <1>2, HttpWorkerAssumption DEF RequestOK

\* handle_head answers, panics, or opens a session and takes the body.
LEMMA HeadDriven ==
    ASSUME NEW k0, NEW k, Driven(k0, k), k.phase = "head", k.active, k.out = "go",
           NEW req \in Requests, NEW remainder \in Seq(Tokens),
           NEW r \in handle_head(k, req, remainder)
    PROVE  Driven(k0, r)
<1> DEFINE parsed == [k EXCEPT !.close = req.close, !.op = req.op]
           unread == Len(req.body) # 0 \/ remainder # <<>>
           answered == [parsed EXCEPT !.close = @ \/ unread]
           left == Len(req.body)
           cont == (req.expect = "continue")
           receiving == [parsed EXCEPT !.phase = "body", !.session = "open",
                                       !.left = left, !.cont = cont]
<1>1. req.op \in Operations /\ req.close \in BOOLEAN /\ left \in Nat /\ cont \in BOOLEAN
  BY HttpWorkerAssumption DEF RequestOK
<1>2. \/ r \in {queue_response(parsed, 417, FALSE), queue_response(parsed, 413, FALSE)}
      \/ r \in Answers(answered)
      \/ r = Panic(parsed)
      \/ r = receiving
      \/ r \in ingest_body(receiving, remainder)
  BY DEF handle_head
<1> HIDE DEF left, cont
<1>3. Typed(parsed)
  BY <1>1, FieldTypes, FieldNames DEF Typed, Driven
<1>4. /\ parsed.metric = k.metric /\ parsed.active = k.active /\ parsed.started = k.started
      /\ parsed.session = k.session /\ parsed.phase = k.phase /\ parsed.out = k.out
      /\ parsed.close = req.close
  BY FieldNames DEF Typed, Driven
<1> HIDE DEF parsed
<1>5. Driven(k0, parsed) /\ Ended(k0, parsed)
  BY <1>3, <1>4 DEF Driven, Ended
<1>6. Ended(k0, answered)
  <2> DEFINE b == parsed.close \/ unread
  <2>1. answered = [parsed EXCEPT !.close = b] /\ b \in BOOLEAN
    OBVIOUS
  <2> HIDE DEF b, answered
  <2>2. Typed(answered)
    BY <1>3, <2>1, FieldTypes, FieldNames DEF Typed
  <2>3. /\ answered.metric = parsed.metric /\ answered.active = parsed.active
        /\ answered.started = parsed.started /\ answered.session = parsed.session
        /\ answered.out = parsed.out
    BY <1>3, <2>1, FieldNames DEF Typed
  <2> QED BY <1>5, <2>2, <2>3 DEF Ended
<1>7. Driven(k0, receiving) /\ receiving.phase = "body" /\ receiving.out = "go"
  <2>1. Typed(receiving)
    BY <1>1, <1>3, FieldTypes, FieldNames, ZenonT(40) DEF Typed, Phases, Sessions
  <2>2. /\ receiving.metric = parsed.metric /\ receiving.active = parsed.active
        /\ receiving.started = parsed.started /\ receiving.session = "open"
        /\ receiving.phase = "body" /\ receiving.out = parsed.out
    BY <1>3, FieldNames DEF Typed
  <2> HIDE DEF receiving
  <2> QED BY <1>4, <1>5, <2>1, <2>2 DEF Driven
<1> HIDE DEF receiving, answered
<1>8. Driven(k0, queue_response(parsed, 417, FALSE)) /\ Driven(k0, queue_response(parsed, 413, FALSE))
  <2>1. 417 \in Statuses /\ 413 \in Statuses
    BY Ranges
  <2> QED BY <1>5, <2>1, QueueDriven, ZenonT(40)
<1> QED BY <1>2, <1>5, <1>6, <1>7, <1>8, AnswersDriven, PanicDriven, IngestBodyDriven, ZenonT(40)

\* The first token that is not a piece of a head.
LEMMA FirstNonPart ==
    ASSUME NEW bytes \in Seq(Tokens), NEW i,
           i = SelectInSeq(bytes, LAMBDA tok : tok.t # "part")
    PROVE  /\ i = 0 => \A j \in 1 .. Len(bytes) : bytes[j].t = "part"
           /\ i # 0 => /\ i \in 1 .. Len(bytes) /\ bytes[i].t # "part"
                       /\ \A j \in 1 .. i - 1 : bytes[j].t = "part"
<1> DEFINE I == {j \in 1 .. Len(bytes) : bytes[j].t # "part"}
<1>1. i = IF I # {} THEN Min(I) ELSE 0
  BY DEF SelectInSeq
<1>2. I \subseteq Nat /\ 0 \notin I /\ I \subseteq 1 .. Len(bytes)
  OBVIOUS
<1>3. ASSUME I # {} PROVE Min(I) \in I /\ \A j \in I : Min(I) <= j
  <2> HIDE DEF I
  <2>1. \E m \in I : \A j \in I : m <= j
    BY <1>2, <1>3, LeastNatural
  <2> QED BY <2>1 DEF Min
<1>4. CASE I = {}
  <2>1. i = 0 /\ \A j \in 1 .. Len(bytes) : bytes[j].t = "part"
    BY <1>1, <1>4
  <2> QED BY <2>1
<1>5. CASE I # {}
  <2>1. i \in I /\ \A j \in I : i <= j
    BY <1>1, <1>3, <1>5
  <2>2. i # 0 /\ i \in 1 .. Len(bytes) /\ bytes[i].t # "part"
    BY <2>1
  <2>3. ASSUME NEW j \in 1 .. i - 1 PROVE bytes[j].t = "part"
    BY <2>1, <2>2
  <2> QED BY <2>2, <2>3
<1> QED BY <1>4, <1>5

\* ingest.
LEMMA IngestDriven ==
    ASSUME NEW k0, NEW k, Driven(k0, k), k.phase \in {"head", "body"}, k.active, k.out = "go",
           NEW bytes \in Seq(Tokens), NEW r \in ingest(k, bytes)
    PROVE  Driven(k0, r)
<1>1. CASE k.phase = "body"
  BY <1>1, IngestBodyDriven DEF ingest
<1>2. CASE k.phase = "head"
  <2>1. PICK i : i = SelectInSeq(bytes, LAMBDA tok : tok.t # "part")
    OBVIOUS
  <2>2. \/ r = k
        \/ r = queue_response(k, 400, FALSE)
        \/ /\ i # 0 /\ bytes[i].t = "head"
           /\ r \in handle_head(k, bytes[i].req, SubSeq(bytes, i + 1, Len(bytes)))
    BY <1>2, <2>1 DEF ingest
  <2>3. i # 0 => i \in 1 .. Len(bytes)
    BY <2>1, FirstNonPart
  <2>4. CASE r = queue_response(k, 400, FALSE)
    <3>1. 400 \in Statuses /\ Ended(k0, k)
      BY <1>2, NoSession, Ranges
    <3> QED BY <2>4, <3>1, QueueDriven, ZenonT(40)
  <2>5. CASE /\ i # 0 /\ bytes[i].t = "head"
             /\ r \in handle_head(k, bytes[i].req, SubSeq(bytes, i + 1, Len(bytes)))
    <3>1. bytes[i].req \in Requests
      BY <2>3, <2>5, HeadToken
    <3>2. SubSeq(bytes, i + 1, Len(bytes)) \in Seq(Tokens)
      BY <2>3, <2>5
    <3> QED BY <1>2, <2>5, <3>1, <3>2, HeadDriven
  <2> QED BY <2>2, <2>4, <2>5
<1> QED BY <1>1, <1>2

\* The stages of Connection::drive.
LEMMA TimeoutDriven ==
    ASSUME NEW k0, NEW k, Driven(k0, k), k.out = "go", NEW r \in drive_timeout(k)
    PROVE  Driven(k0, r)
<1>1. CASE ~k.idle
  BY <1>1 DEF drive_timeout
<1>2. CASE k.idle /\ ~k.active
  <2> DEFINE q == [k EXCEPT !.out = "closed"]
  <2>1. r = q
    BY <1>2 DEF drive_timeout
  <2>2. Typed(q)
    BY FieldTypes, FieldNames DEF Typed, Driven, Outcomes
  <2>3. /\ q.metric = k.metric /\ q.active = k.active /\ q.started = k.started
        /\ q.session = k.session /\ q.phase = k.phase /\ q.out = "closed"
    BY FieldNames DEF Typed, Driven
  <2> HIDE DEF q
  <2> QED BY <1>2, <2>1, <2>2, <2>3 DEF Driven
<1>3. CASE k.idle /\ k.active /\ k.phase = "response"
  <2> DEFINE q == [k EXCEPT !.out = "complete", !.close = TRUE]
  <2>1. r = q
    BY <1>3 DEF drive_timeout
  <2>2. Typed(q)
    BY FieldTypes, FieldNames DEF Typed, Driven, Outcomes
  <2>3. /\ q.metric = k.metric /\ q.active = k.active /\ q.started = k.started
        /\ q.session = k.session /\ q.phase = k.phase /\ q.out = "complete"
    BY FieldNames DEF Typed, Driven
  <2> HIDE DEF q
  <2> QED BY <1>3, <2>1, <2>2, <2>3 DEF Driven
<1>4. CASE k.idle /\ k.active /\ k.phase # "response"
  <2> DEFINE b == (k.phase = "body")
  <2>1. PICK a \in abort_session(k, 408) : r = [a EXCEPT !.idle = b]
    BY <1>4 DEF drive_timeout
  <2>2. b \in BOOLEAN /\ 408 \in Statuses
    BY Ranges
  <2> HIDE DEF b
  <2>3. Driven(k0, a)
    BY <1>4, <2>1, <2>2, AbortDriven
  <2>4. Typed(r)
    BY <2>1, <2>2, <2>3, FieldTypes, FieldNames DEF Typed, Driven
  <2>5. /\ r.metric = a.metric /\ r.active = a.active /\ r.started = a.started
        /\ r.session = a.session /\ r.phase = a.phase /\ r.out = a.out
    BY <2>1, <2>3, FieldNames DEF Typed, Driven
  <2> QED BY <2>3, <2>4, <2>5 DEF Driven
<1>5. k.idle \in BOOLEAN /\ k.active \in BOOLEAN
  BY FieldTypes, FieldNames DEF Typed, Driven
<1> QED BY <1>1, <1>2, <1>3, <1>4, <1>5

\* drive_continue: the interim answer is written, or waits, or the socket fails.
LEMMA ContinueDriven ==
    ASSUME NEW k0, NEW k, Driven(k0, k), k.out = "go", NEW r \in drive_continue(k)
    PROVE  Driven(k0, r)
<1>1. CASE r = k
  BY <1>1
<1>2. ASSUME NEW o \in {"ioerror", "pending"}, r = [k EXCEPT !.out = o]
      PROVE  Driven(k0, r)
  <2>1. Typed(r)
    BY <1>2, FieldTypes, FieldNames DEF Typed, Driven, Outcomes
  <2>2. /\ r.metric = k.metric /\ r.active = k.active /\ r.started = k.started
        /\ r.session = k.session /\ r.phase = k.phase /\ r.out = o
    BY <1>2, FieldNames DEF Typed, Driven
  <2> QED BY <2>1, <2>2 DEF Driven
<1>3. CASE r = [k EXCEPT !.cont = FALSE, !.written = TRUE, !.idle = FALSE]
  <2>1. Typed(r)
    BY <1>3, FieldTypes, FieldNames, ZenonT(40) DEF Typed, Driven
  <2>2. /\ r.metric = k.metric /\ r.active = k.active /\ r.started = k.started
        /\ r.session = k.session /\ r.phase = k.phase /\ r.out = k.out
    BY <1>3, FieldNames DEF Typed, Driven
  <2> QED BY <2>1, <2>2 DEF Driven
<1>4. \/ r = k \/ r = [k EXCEPT !.out = "ioerror"] \/ r = [k EXCEPT !.out = "pending"]
      \/ r = [k EXCEPT !.cont = FALSE, !.written = TRUE, !.idle = FALSE]
  BY DEF drive_continue
<1> QED BY <1>1, <1>2, <1>3, <1>4

\* drive_read: the slice that was read begins a request, if none was active, and is
\* ingested.
LEMMA ReadDriven ==
    ASSUME NEW k0, NEW k, Driven(k0, k), k.out = "go", NEW r \in drive_read(k)
    PROVE  Driven(k0, r)
<1> USE FieldNames
<1>1. CASE r = k
  BY <1>1
<1>2. ASSUME NEW o \in {"ioerror", "closed"}, r = [k EXCEPT !.out = o],
             o = "closed" => ~k.active
      PROVE  Driven(k0, r)
  <2>1. Typed(r)
    BY <1>2, FieldTypes DEF Typed, Driven, Outcomes
  <2>2. /\ r.metric = k.metric /\ r.active = k.active /\ r.started = k.started
        /\ r.session = k.session /\ r.phase = k.phase /\ r.out = o
    BY <1>2 DEF Typed, Driven
  <2> QED BY <1>2, <2>1, <2>2 DEF Driven
<1>3. ASSUME NEW n \in DOMAIN k.wire, k.phase \in {"head", "body"},
             r \in ingest([k EXCEPT !.wire = SubSeq(@, n + 1, Len(@)),
                                    !.active = TRUE, !.started = @ \/ ~k.active,
                                    !.idle = FALSE],
                          SubSeq(k.wire, 1, n))
      PROVE  Driven(k0, r)
  <2> DEFINE w == SubSeq(k.wire, n + 1, Len(k.wire))
             b == k.started \/ ~k.active
             a == [k EXCEPT !.wire = w, !.active = TRUE, !.started = b, !.idle = FALSE]
             bytes == SubSeq(k.wire, 1, n)
  <2>1. r \in ingest(a, bytes)
    BY <1>3
  <2>2. k.wire \in Seq(Tokens) /\ k.started \in BOOLEAN /\ k.active \in BOOLEAN
    BY FieldTypes DEF Typed, Driven
  <2>3. w \in Seq(Tokens) /\ bytes \in Seq(Tokens)
    BY <1>3, <2>2
  <2>4. b \in BOOLEAN /\ (b <=> ~k0.active)
    BY <2>2 DEF Driven
  <2> HIDE DEF w, b, bytes
  <2>5. Typed(a)
    BY <2>3, <2>4, FieldTypes, ZenonT(40) DEF Typed, Driven
  <2>6. /\ a.metric = k.metric /\ a.active = TRUE /\ a.started = b
        /\ a.session = k.session /\ a.phase = k.phase /\ a.out = k.out
    BY DEF Typed, Driven
  <2> HIDE DEF a
  <2>7. Driven(k0, a)
    BY <2>4, <2>5, <2>6 DEF Driven
  <2> QED BY <1>3, <2>1, <2>3, <2>6, <2>7, IngestDriven
<1>4. CASE k.active /\ r \in abort_session(k, 400)
  <2>1. 400 \in Statuses
    BY Ranges
  <2> QED BY <1>4, <2>1, AbortDriven
<1>5. \/ r = k
      \/ r = [k EXCEPT !.out = "ioerror"]
      \/ ~k.active /\ r = [k EXCEPT !.out = "closed"]
      \/ k.active /\ r \in abort_session(k, 400)
      \/ /\ k.phase \in {"head", "body"}
         /\ \E n \in DOMAIN k.wire :
                r \in ingest([k EXCEPT !.wire = SubSeq(@, n + 1, Len(@)),
                                       !.active = TRUE, !.started = @ \/ ~k.active,
                                       !.idle = FALSE],
                             SubSeq(k.wire, 1, n))
  BY ZenonT(40) DEF drive_read
<1> QED BY <1>1, <1>2, <1>3, <1>4, <1>5

\* drive_write ends the drive: pending, failed, or complete.
LEMMA WriteDriven ==
    ASSUME NEW k0, NEW k, Driven(k0, k), k.out = "go", NEW r \in drive_write(k)
    PROVE  Driven(k0, r) /\ r.out \in {"pending", "ioerror", "complete"}
<1>1. ASSUME NEW o \in {"ioerror", "pending"}, r = [k EXCEPT !.out = o]
      PROVE  Driven(k0, r) /\ r.out = o
  <2>1. Typed(r)
    BY <1>1, FieldTypes, FieldNames DEF Typed, Driven, Outcomes
  <2>2. /\ r.metric = k.metric /\ r.active = k.active /\ r.started = k.started
        /\ r.session = k.session /\ r.phase = k.phase /\ r.out = o
    BY <1>1, FieldNames DEF Typed, Driven
  <2> QED BY <2>1, <2>2 DEF Driven
<1>2. CASE k.phase = "response" /\ r = [k EXCEPT !.written = TRUE, !.out = "complete"]
  <2>1. Typed(r)
    BY <1>2, FieldTypes, FieldNames DEF Typed, Driven, Outcomes
  <2>2. /\ r.metric = k.metric /\ r.active = k.active /\ r.started = k.started
        /\ r.session = k.session /\ r.phase = k.phase /\ r.out = "complete"
    BY <1>2, FieldNames DEF Typed, Driven
  <2> QED BY <1>2, <2>1, <2>2 DEF Driven
<1>3. \/ r = [k EXCEPT !.out = "ioerror"] \/ r = [k EXCEPT !.out = "pending"]
      \/ k.phase = "response" /\ r = [k EXCEPT !.written = TRUE, !.out = "complete"]
  BY DEF drive_write
<1> QED BY <1>1, <1>2, <1>3

\* What a whole drive of k0 can leave.
Driving(k0, k) ==
    /\ Typed(k)
    /\ k.metric = k0.metric
    /\ k0.active => k.active /\ ~k.started
    /\ ~k0.active => (k.started <=> k.active)
    /\ k.out = "closed" => ~k.active
    /\ k.out = "complete" => k.active
    /\ k.out = "pending" =>
         /\ k.phase \notin {"free", "queued"}
         /\ k.phase \in {"body", "response"} => k.active
         /\ (k.phase = "body") <=> (k.session = "open")

\* What is caught around the stages.
Caught(r, k) ==
    \/ r.out \notin {"ioerror", "panic"} /\ k = r
    \/ ~r.active /\ k = [r EXCEPT !.out = "closed"]
    \/ /\ r.active
       /\ \E a \in guarded_abort(r) :
             \/ \E s \in Statuses :
                  /\ s >= 400
                  /\ k = [queue_response(a, s, FALSE) EXCEPT !.cont = FALSE, !.out = "pending"]
             \/ k = [a EXCEPT !.out = "complete", !.close = TRUE]

\* The stages of Connection::drive.
Stages(k) ==
    Then(Then(Then(Then(drive_timeout(k), drive_continue), drive_read), drive_continue),
         drive_write)

\* One after the other.
LEMMA StagesAre ==
    ASSUME NEW k, NEW r \in Stages(k)
    PROVE  \E x1 \in drive_timeout(k) : \E x2, x3, x4 :
              /\ IF x1.out = "go" THEN x2 \in drive_continue(x1) ELSE x2 = x1
              /\ IF x2.out = "go" THEN x3 \in drive_read(x2) ELSE x3 = x2
              /\ IF x3.out = "go" THEN x4 \in drive_continue(x3) ELSE x4 = x3
              /\ IF x4.out = "go" THEN r \in drive_write(x4) ELSE r = x4
<1> DEFINE S1 == drive_timeout(k)
           S2 == Then(S1, drive_continue)
           S3 == Then(S2, drive_read)
           S4 == Then(S3, drive_continue)
           S5 == Then(S4, drive_write)
<1>1. r \in S5
  BY DEF Stages
<1>2. \A x \in S2 : \E y \in S1 : IF y.out = "go" THEN x \in drive_continue(y) ELSE x = y
  BY DEF Then
<1>3. \A x \in S3 : \E y \in S2 : IF y.out = "go" THEN x \in drive_read(y) ELSE x = y
  BY DEF Then
<1>4. \A x \in S4 : \E y \in S3 : IF y.out = "go" THEN x \in drive_continue(y) ELSE x = y
  BY DEF Then
<1>5. \A x \in S5 : \E y \in S4 : IF y.out = "go" THEN x \in drive_write(y) ELSE x = y
  BY DEF Then
<1> HIDE DEF S2, S3, S4, S5
<1>6. PICK x4 \in S4 : IF x4.out = "go" THEN r \in drive_write(x4) ELSE r = x4
  BY <1>1, <1>5
<1>7. PICK x3 \in S3 : IF x3.out = "go" THEN x4 \in drive_continue(x3) ELSE x4 = x3
  BY <1>4
<1>8. PICK x2 \in S2 : IF x2.out = "go" THEN x3 \in drive_read(x2) ELSE x3 = x2
  BY <1>3
<1>9. PICK x1 \in S1 : IF x1.out = "go" THEN x2 \in drive_continue(x1) ELSE x2 = x1
  BY <1>2
<1> QED BY <1>6, <1>7, <1>8, <1>9

\* A drive is its stages and what is caught around them.
LEMMA DriveIsCaught ==
    ASSUME NEW k0, NEW k \in drive(k0)
    PROVE  \E r \in Stages(k0) : Caught(r, k)
<1> DEFINE caught(r) ==
             IF r.out \notin {"ioerror", "panic"} THEN {r}
             ELSE IF ~r.active THEN {[r EXCEPT !.out = "closed"]}
             ELSE IF r.out = "panic" /\ ~r.written
             THEN {[queue_response(a, 500, FALSE) EXCEPT !.cont = FALSE, !.out = "pending"] :
                     a \in guarded_abort(r)}
             ELSE {[a EXCEPT !.out = "complete", !.close = TRUE] : a \in guarded_abort(r)}
<1>1. drive(k0) = UNION {caught(r) : r \in Stages(k0)}
  BY Zenon DEF drive, Stages
<1>2. PICK r \in Stages(k0) : k \in caught(r)
  <2> HIDE DEF caught
  <2> QED BY <1>1
<1>3. CASE r.out \notin {"ioerror", "panic"}
  BY <1>2, <1>3 DEF Caught
<1>4. CASE r.out \in {"ioerror", "panic"} /\ ~r.active
  BY <1>2, <1>4 DEF Caught
<1>5. CASE r.out \in {"ioerror", "panic"} /\ r.active /\ r.out = "panic" /\ ~r.written
  <2>1. PICK a \in guarded_abort(r) :
          k = [queue_response(a, 500, FALSE) EXCEPT !.cont = FALSE, !.out = "pending"]
    BY <1>2, <1>5
  <2>2. PICK s \in Statuses : s = 500 /\ s >= 400
    BY Ranges
  <2>3. k = [queue_response(a, s, FALSE) EXCEPT !.cont = FALSE, !.out = "pending"]
    BY <2>1, <2>2
  <2>4. \E e \in Statuses :
          /\ e >= 400
          /\ k = [queue_response(a, e, FALSE) EXCEPT !.cont = FALSE, !.out = "pending"]
    BY <2>2, <2>3, Zenon
  <2>5. Caught(r, k)
    BY <1>5, <2>4, Zenon DEF Caught
  <2> QED BY <2>5
<1>6. CASE r.out \in {"ioerror", "panic"} /\ r.active /\ ~(r.out = "panic" /\ ~r.written)
  BY <1>2, <1>6 DEF Caught
<1> QED BY <1>3, <1>4, <1>5, <1>6

\* The stages account for the request they begin.
LEMMA StagesDriven ==
    ASSUME NEW k0, Driven(k0, k0), k0.out = "go", NEW r \in Stages(k0)
    PROVE  Driven(k0, r)
<1>1. PICK x1 \in drive_timeout(k0) : \E x2, x3, x4 :
        /\ IF x1.out = "go" THEN x2 \in drive_continue(x1) ELSE x2 = x1
        /\ IF x2.out = "go" THEN x3 \in drive_read(x2) ELSE x3 = x2
        /\ IF x3.out = "go" THEN x4 \in drive_continue(x3) ELSE x4 = x3
        /\ IF x4.out = "go" THEN r \in drive_write(x4) ELSE r = x4
  BY StagesAre
<1>2. PICK x2, x3, x4 :
        /\ IF x1.out = "go" THEN x2 \in drive_continue(x1) ELSE x2 = x1
        /\ IF x2.out = "go" THEN x3 \in drive_read(x2) ELSE x3 = x2
        /\ IF x3.out = "go" THEN x4 \in drive_continue(x3) ELSE x4 = x3
        /\ IF x4.out = "go" THEN r \in drive_write(x4) ELSE r = x4
  BY <1>1
<1>3. Driven(k0, x1)
  BY TimeoutDriven
<1>4. Driven(k0, x2)
  BY <1>2, <1>3, ContinueDriven
<1>5. Driven(k0, x3)
  BY <1>2, <1>4, ReadDriven
<1>6. Driven(k0, x4)
  BY <1>2, <1>5, ContinueDriven
<1> QED BY <1>2, <1>6, WriteDriven

\* Connection::drive and the catch_unwind around it.
LEMMA DriveDriving ==
    ASSUME NEW k0, Driven(k0, k0), k0.out = "go", NEW k \in drive(k0)
    PROVE  Driving(k0, k)
<1>1. PICK r \in Stages(k0) : Caught(r, k)
  BY DriveIsCaught
<1>2. Driven(k0, r)
  BY StagesDriven
<1>3. CASE r.out \notin {"ioerror", "panic"} /\ k = r
  BY <1>2, <1>3 DEF Driven, Driving
<1>4. CASE ~r.active /\ k = [r EXCEPT !.out = "closed"]
  <2>1. Typed(k)
    BY <1>2, <1>4, FieldTypes, FieldNames DEF Typed, Driven, Outcomes
  <2>2. /\ k.metric = r.metric /\ k.active = r.active /\ k.started = r.started /\ k.out = "closed"
    BY <1>2, <1>4, FieldNames DEF Typed, Driven
  <2> QED BY <1>2, <1>4, <2>1, <2>2 DEF Driven, Driving
<1>5. ASSUME r.active, NEW a \in guarded_abort(r),
              \/ \E s \in Statuses :
                   k = [queue_response(a, s, FALSE) EXCEPT !.cont = FALSE, !.out = "pending"]
              \/ k = [a EXCEPT !.out = "complete", !.close = TRUE]
       PROVE  Driving(k0, k)
  <2>1. /\ Typed(a) /\ a.metric = r.metric /\ a.active = r.active /\ a.started = r.started
        /\ a.session # "open"
    <3>1. CASE r.phase = "body"
      <4>1. PICK e \in {"aborted", "lost"} : a = [r EXCEPT !.session = e]
        BY <1>5, <3>1 DEF guarded_abort
      <4>2. Typed(a)
        BY <1>2, <4>1, FieldTypes, FieldNames DEF Typed, Driven, Sessions
      <4>3. a.metric = r.metric /\ a.active = r.active /\ a.started = r.started /\ a.session = e
        BY <1>2, <4>1, FieldNames DEF Typed, Driven
      <4> QED BY <4>1, <4>2, <4>3
    <3>2. CASE r.phase # "body"
      BY <1>2, <1>5, <3>2 DEF guarded_abort, Driven
    <3> QED BY <3>1, <3>2
  <2>2. CASE k = [a EXCEPT !.out = "complete", !.close = TRUE]
    <3>1. Typed(k)
      BY <2>1, <2>2, FieldTypes, FieldNames DEF Typed, Outcomes
    <3>2. k.metric = a.metric /\ k.active = a.active /\ k.started = a.started /\ k.out = "complete"
      BY <2>1, <2>2, FieldNames DEF Typed
    <3> QED BY <1>2, <1>5, <2>1, <3>1, <3>2 DEF Driven, Driving
  <2>3. ASSUME NEW s \in Statuses,
               k = [queue_response(a, s, FALSE) EXCEPT !.cont = FALSE, !.out = "pending"]
        PROVE  Driving(k0, k)
    <3> DEFINE q == queue_response(a, s, FALSE)
    <3>2. /\ Typed(q) /\ q.phase = "response"
          /\ \A f \in Names \ {"phase", "status", "close"} : q[f] = a[f]
      BY <2>1, QueueFields
    <3>3. k = [q EXCEPT !.cont = FALSE, !.out = "pending"]
      BY <2>3
    <3> HIDE DEF q
    <3>4. q.metric = a.metric /\ q.active = a.active /\ q.started = a.started /\ q.session = a.session
      BY <3>2, FieldNames
    <3>5. Typed(k)
      BY <3>2, <3>3, FieldTypes, FieldNames DEF Typed, Outcomes
    <3>6. /\ k.metric = q.metric /\ k.active = q.active /\ k.started = q.started
          /\ k.session = q.session /\ k.phase = q.phase /\ k.out = "pending"
      BY <3>2, <3>3, FieldNames DEF Typed
    <3>7. /\ k.metric = r.metric /\ k.active = r.active /\ k.started = r.started
          /\ k.session # "open" /\ k.phase = "response" /\ k.out = "pending"
      BY <2>1, <3>2, <3>4, <3>6
    <3>8. /\ r.metric = k0.metric
          /\ k0.active => r.active /\ ~r.started
          /\ ~k0.active => (r.started <=> r.active)
      BY <1>2 DEF Driven
    <3> QED BY <1>5, <3>5, <3>7, <3>8 DEF Driving
  <2> QED BY <1>5, <2>2, <2>3
<1> QED BY <1>1, <1>3, <1>4, <1>5 DEF Caught

-----------------------------------------------------------------------------
(* Connections at rest and the gauges.                                     *)

\* A connection between two drives.
Resting(k) ==
    /\ Typed(k)
    /\ k.out = "go" /\ ~k.started
    /\ k.phase \in {"free", "queued"} => ~k.active
    /\ k.phase \in {"body", "response"} => k.active
    /\ (k.phase = "body") <=> (k.session = "open")
    /\ ~k.active => k.metric = InvalidRequest

\* One request of the operation o, or none.
Holds(k, o) == IF k.active /\ k.metric = o THEN 1 ELSE 0

\* An unused slot rests.
LEMMA FreeResting == Resting(Free)
<1>1. Free \in Connection
  BY HttpWorkerAssumption DEF Connection, Free, Statuses, Phases, Sessions, Outcomes
<1>2. Typed(Free)
  BY <1>1, TypedIsConnection
<1> QED BY <1>2 DEF Resting, Free

\* The gauges of a connection's own request.
LEMMA HoldsNat ==
    ASSUME NEW k, NEW o
    PROVE  Holds(k, o) \in {0, 1}
BY DEF Holds

\* The number of connections inside a request of an operation, when one
\* connection changes.
Count(f, o) == Cardinality({c \in Conns : f[c].active /\ f[c].metric = o})

\* The count is a number, because there are finitely many connections.
LEMMA CountNat ==
    ASSUME NEW f, NEW o
    PROVE  Count(f, o) \in Nat
BY ConnsAssumption, FS_Subset, FS_CardinalityType DEF Count

\* It changes by what the one connection held before and holds after.
LEMMA CountAfter ==
    ASSUME NEW f, NEW c \in Conns, NEW k, NEW o,
           NEW g, \A x \in Conns : g[x] = IF x = c THEN k ELSE f[x]
    PROVE  Count(g, o) = Count(f, o) - Holds(f[c], o) + Holds(k, o)
<1> DEFINE T == {x \in Conns : f[x].active /\ f[x].metric = o}
           U == {x \in Conns : g[x].active /\ g[x].metric = o}
<1>1. IsFiniteSet(T) /\ IsFiniteSet(T \ {c})
  BY ConnsAssumption, FS_Subset
<1>2. U = IF k.active /\ k.metric = o THEN (T \ {c}) \cup {c} ELSE T \ {c}
  OBVIOUS
<1>3. c \in T <=> f[c].active /\ f[c].metric = o
  OBVIOUS
<1> HIDE DEF T, U
<1>4. Cardinality(T) \in Nat /\ Cardinality(T \ {c}) \in Nat
  BY <1>1, FS_CardinalityType
<1>5. Cardinality(T \ {c}) = IF c \in T THEN Cardinality(T) - 1 ELSE Cardinality(T)
  BY <1>1, FS_RemoveElement
<1>6. Cardinality((T \ {c}) \cup {c}) = Cardinality(T \ {c}) + 1
  BY <1>1, FS_AddElement
<1>7. Cardinality(U) = Cardinality(T) - Holds(f[c], o) + Holds(k, o)
  BY <1>2, <1>3, <1>4, <1>5, <1>6 DEF Holds
<1> QED BY <1>7 DEF Count, T, U

\* reset_exchange leaves the socket and the accounting alone.
LEMMA ResetFields ==
    ASSUME NEW k, Typed(k)
    PROVE  /\ Typed(reset_exchange(k))
           /\ reset_exchange(k).phase = "head" /\ reset_exchange(k).session = "none"
           /\ \A f \in {"todo", "wire", "eof", "broken", "stalled", "sent", "active",
                        "started", "metric", "out"} : reset_exchange(k)[f] = k[f]
<1> DEFINE a == [k EXCEPT !.phase = "head", !.session = "none", !.left = 0, !.status = 0]
           b == [a EXCEPT !.op = InvalidRequest, !.cont = FALSE, !.close = FALSE,
                          !.written = FALSE, !.idle = FALSE]
<1>1. reset_exchange(k) = b
  BY DEF reset_exchange
<1>2. 0 \in Statuses /\ InvalidRequest \in Operations
  BY Ranges
<1>3. /\ Typed(a) /\ a.phase = "head" /\ a.session = "none"
      /\ \A f \in Names \ {"phase", "session", "left", "status"} : a[f] = k[f]
  BY <1>2, FieldTypes, FieldNames, ZenonT(40) DEF Typed, Phases, Sessions
<1> HIDE DEF a
<1>4. Typed(b)
  <2>1. b = [f \in Names |-> b[f]]
    BY <1>3 DEF Typed
  <2>2. ASSUME NEW f \in Names PROVE b[f] \in TypeOf(f)
    BY <1>2, <1>3, FieldTypes, FieldNames, ZenonT(40) DEF Typed
  <2> HIDE DEF b
  <2> QED BY <2>1, <2>2 DEF Typed
<1>5. \A f \in Names \ {"op", "cont", "close", "written", "idle"} : b[f] = a[f]
  BY <1>3 DEF Typed
<1> HIDE DEF b
<1>6. \A f \in {"todo", "wire", "eof", "broken", "stalled", "sent", "active",
                "started", "metric", "out"} : b[f] = k[f]
  BY <1>3, <1>5, FieldNames
<1>7. b.phase = a.phase /\ b.session = a.session
  BY <1>5, FieldNames
<1> QED BY <1>1, <1>3, <1>4, <1>6, <1>7

\* The end of a loop of drive_connections: the connection rests again, and the
\* deltas move by what its request moved.
LEMMA Settled ==
    ASSUME NEW c \in Conns, DOMAIN conn = Conns, Resting(conn[c]),
           delta \in [Operations -> Int],
           NEW k, Driving(conn[c], k), Settle(c, k)
    PROVE  \E n : /\ conn' = [conn EXCEPT ![c] = n] /\ Resting(n)
                  /\ delta' \in [Operations -> Int]
                  /\ \A o \in Operations :
                        delta'[o] = delta[o] - Holds(conn[c], o) + Holds(n, o)
<1> DEFINE k0 == conn[c]
           d1 == IF k.started THEN begin_in_flight(delta, InvalidRequest) ELSE delta
           d2 == IF k.active THEN reclassify_in_flight(d1, k.metric, k.op) ELSE d1
           stays == [k EXCEPT !.started = FALSE, !.out = "go"]
           moved == [stays EXCEPT !.metric = IF k.active THEN k.op ELSE @]
           again == [reset_exchange(stays) EXCEPT !.active = FALSE, !.metric = InvalidRequest]
<1>1. /\ k.op \in Operations /\ k.metric \in Operations /\ InvalidRequest \in Operations
      /\ k.active \in BOOLEAN /\ k.started \in BOOLEAN
  BY FieldTypes, FieldNames, Ranges DEF Driving, Typed
<1>2. d1 \in [Operations -> Int]
  BY <1>1 DEF begin_in_flight
<1>3. d2 \in [Operations -> Int]
  <2> HIDE DEF d1
  <2> QED BY <1>1, <1>2 DEF reclassify_in_flight, begin_in_flight, end_in_flight
<1>4. end_in_flight(d2, k.op) \in [Operations -> Int]
  <2> HIDE DEF d2
  <2> QED BY <1>1, <1>3 DEF end_in_flight
<1>5. \A o \in Operations : d1[o] = delta[o] + IF k.started /\ o = InvalidRequest THEN 1 ELSE 0
  BY <1>1 DEF begin_in_flight
<1>6. k.active => \A o \in Operations :
        d2[o] = d1[o] - (IF o = k.metric THEN 1 ELSE 0) + (IF o = k.op THEN 1 ELSE 0)
  <2> HIDE DEF d1
  <2> QED BY <1>1, <1>2 DEF reclassify_in_flight, begin_in_flight, end_in_flight
<1>7. /\ k.metric = k0.metric
      /\ k0.active => k.active /\ ~k.started
      /\ ~k0.active => (k.started <=> k.active)
      /\ ~k0.active => k0.metric = InvalidRequest
  BY DEF Driving, Resting
<1>8. \A o \in Operations : delta[o] \in Int
  OBVIOUS
<1>9. ASSUME k.active, NEW o \in Operations
      PROVE  d2[o] = delta[o] - Holds(k0, o) + IF o = k.op THEN 1 ELSE 0
  <2> HIDE DEF d1, d2, k0
  <2> QED BY <1>1, <1>5, <1>6, <1>7, <1>8, <1>9 DEF Holds
<1>10. ASSUME ~k.active, NEW o \in Operations
       PROVE  d1[o] = delta[o] /\ d2[o] = delta[o] /\ Holds(k0, o) = 0
  <2>1. ~k.started /\ ~k0.active
    BY <1>7, <1>10
  <2> QED BY <1>10, <2>1 DEF Holds
<1>11. \/ k.out = "pending" /\ delta' = d2 /\ conn' = [conn EXCEPT ![c] = moved]
       \/ k.out = "closed" /\ delta' = d1 /\ conn' = [conn EXCEPT ![c] = Free]
       \/ /\ k.out = "complete" /\ delta' = end_in_flight(d2, k.op)
          /\ conn' = [conn EXCEPT ![c] = IF k.close THEN Free ELSE again]
  BY DEF Settle
<1> HIDE DEF d1, d2, k0
<1>settle. /\ Typed(stays) /\ stays.out = "go" /\ ~stays.started /\ stays.metric = k.metric
      /\ stays.phase = k.phase /\ stays.session = k.session /\ stays.active = k.active
  BY FieldTypes, FieldNames DEF Typed, Driving, Outcomes
<1>12. CASE k.out = "pending" /\ delta' = d2 /\ conn' = [conn EXCEPT ![c] = moved]
  <2> DEFINE m == IF k.active THEN k.op ELSE stays.metric
  <2>1. moved = [stays EXCEPT !.metric = m]
    OBVIOUS
  <2>2. m = IF k.active THEN k.op ELSE k.metric
    BY <1>settle
  <2>3. m \in Operations
    BY <1>1, <2>2
  <2> HIDE DEF stays, m
  <2>4. Typed(moved)
    BY <1>settle, <2>1, <2>3, FieldTypes, FieldNames DEF Typed
  <2>5. /\ moved.out = stays.out /\ moved.started = stays.started /\ moved.phase = stays.phase
        /\ moved.session = stays.session /\ moved.active = stays.active /\ moved.metric = m
    BY <1>settle, <2>1, FieldNames DEF Typed
  <2> HIDE DEF moved
  <2>6. Resting(moved)
    <3>1. /\ k.phase \notin {"free", "queued"}
          /\ k.phase \in {"body", "response"} => k.active
          /\ (k.phase = "body") <=> (k.session = "open")
      BY <1>12 DEF Driving
    <3>2. ~k.active => k.metric = InvalidRequest
      BY <1>7
    <3> QED BY <1>settle, <2>2, <2>4, <2>5, <3>1, <3>2 DEF Resting
  <2>7. ASSUME NEW o \in Operations
        PROVE  d2[o] = delta[o] - Holds(k0, o) + Holds(moved, o)
    <3>1. CASE k.active
      <4>1. Holds(moved, o) = IF o = k.op THEN 1 ELSE 0
        BY <1>settle, <2>2, <2>5, <3>1 DEF Holds
      <4> QED BY <1>9, <3>1, <4>1
    <3>2. CASE ~k.active
      <4>1. Holds(moved, o) = 0
        BY <1>settle, <2>5, <3>2 DEF Holds
      <4> QED BY <1>8, <1>10, <3>2, <4>1
    <3> QED BY <3>1, <3>2
  <2> QED BY <1>3, <1>12, <2>6, <2>7 DEF k0
<1>13. CASE k.out = "closed" /\ delta' = d1 /\ conn' = [conn EXCEPT ![c] = Free]
  <2>1. ~k.active
    BY <1>13 DEF Driving
  <2>2. \A o : Holds(Free, o) = 0
    BY DEF Holds, Free
  <2>3. \A o \in Operations : d1[o] = delta[o] - Holds(k0, o) + Holds(Free, o)
    BY <1>8, <1>10, <2>1, <2>2
  <2> QED BY <1>2, <1>13, <2>3, FreeResting DEF k0
<1>14. CASE /\ k.out = "complete" /\ delta' = end_in_flight(d2, k.op)
            /\ conn' = [conn EXCEPT ![c] = IF k.close THEN Free ELSE again]
  <2>1. k.active
    BY <1>14 DEF Driving
  <2> DEFINE z == reset_exchange(stays)
  <2>2. /\ Typed(z) /\ z.phase = "head" /\ z.session = "none"
        /\ z.started = stays.started /\ z.out = stays.out
    <3> HIDE DEF stays
    <3> QED BY <1>settle, ResetFields
  <2>3. again = [z EXCEPT !.active = FALSE, !.metric = InvalidRequest]
    OBVIOUS
  <2> HIDE DEF z
  <2>4. Typed(again)
    BY <1>1, <2>2, <2>3, FieldTypes, FieldNames DEF Typed
  <2>5. /\ again.phase = z.phase /\ again.session = z.session /\ again.started = z.started
        /\ again.out = z.out /\ again.active = FALSE /\ again.metric = InvalidRequest
    BY <2>2, <2>3, FieldNames DEF Typed
  <2> HIDE DEF again, stays
  <2>6. Resting(again) /\ \A o : Holds(again, o) = 0
    BY <1>settle, <2>2, <2>4, <2>5 DEF Resting, Holds
  <2> DEFINE n == IF k.close THEN Free ELSE again
  <2>7. Resting(n) /\ \A o : Holds(n, o) = 0
    BY <2>6, FreeResting DEF Holds, Free
  <2>8. ASSUME NEW o \in Operations
        PROVE  end_in_flight(d2, k.op)[o] = delta[o] - Holds(k0, o) + Holds(n, o)
    <3>1. end_in_flight(d2, k.op)[o] = d2[o] - IF o = k.op THEN 1 ELSE 0
      BY <1>3 DEF end_in_flight
    <3>2. Holds(n, o) = 0 /\ Holds(k0, o) \in Int
      BY <2>7, HoldsNat
    <3> HIDE DEF n
    <3> QED BY <1>8, <1>9, <2>1, <3>1, <3>2
  <2>9. conn' = [conn EXCEPT ![c] = n]
    BY <1>14
  <2> HIDE DEF n
  <2> QED BY <1>4, <1>14, <2>7, <2>8, <2>9 DEF k0
<1> QED BY <1>11, <1>12, <1>13, <1>14

-----------------------------------------------------------------------------
(* The invariant of the worker.                                            *)

\* Every connection rests, and nothing else does while no process runs.
Sockets ==
    /\ conn = [c \in Conns |-> conn[c]]
    /\ \A c \in Conns : Resting(conn[c])
    /\ ~up => conn = [c \in Conns |-> Free]

\* The process and its rows: no row is of a later process, a server in recovery
\* has taken no row, a worker that began on a primary stays on one, and a dead
\* process owes nothing.
Ledger ==
    /\ up \in BOOLEAN /\ writable \in BOOLEAN /\ primary \in BOOLEAN
    /\ pid \in 1 .. MaxPids
    /\ delta \in [Operations -> Int]
    /\ row \in [Operations -> [pid : 0 .. MaxPids, in_flight : Nat]]
    /\ primary => writable
    /\ \A o \in Operations : row[o].pid <= pid /\ (~writable => row[o].pid = 0)
    /\ ~up => pid < MaxPids /\ \A o \in Operations : delta[o] = 0

\* The gauges agree with the connections.
Exact ==
    up => \A o \in Operations :
            /\ Shown(o) + delta[o] <= Count(conn, o)
            /\ primary => Shown(o) + delta[o] = Count(conn, o)

\* The inductive invariant.
WorkerInv == Sockets /\ Ledger /\ Exact

\* No request is open when every connection is free.
LEMMA CountFree ==
    ASSUME NEW o
    PROVE  Count([c \in Conns |-> Free], o) = 0
<1>1. {c \in Conns : [x \in Conns |-> Free][c].active /\ [x \in Conns |-> Free][c].metric = o} = {}
  BY DEF Free
<1> QED BY <1>1, FS_EmptySet DEF Count

\* The gauge a view shows is a number.
LEMMA ShownNat ==
    ASSUME Ledger, NEW o \in Operations
    PROVE  Shown(o) \in Nat /\ row[o].in_flight \in Nat /\ row[o].pid \in 0 .. MaxPids
BY DEF Ledger, Shown

\* What a peer or the clock does to a socket touches no request.
LEMMA PeerResting ==
    ASSUME NEW k, Resting(k), NEW n, Typed(n),
           \A f \in {"phase", "session", "active", "started", "metric", "out"} : n[f] = k[f]
    PROVE  Resting(n) /\ \A o : Holds(n, o) = Holds(k, o)
<1>1. /\ n.phase = k.phase /\ n.session = k.session /\ n.active = k.active
      /\ n.started = k.started /\ n.metric = k.metric /\ n.out = k.out
  OBVIOUS
<1> QED BY <1>1 DEF Resting, Holds

\* A step that replaces one resting connection by another with the same request.
LEMMA PeerKeeps ==
    ASSUME WorkerInv, NEW c \in Conns, NEW n, Peer(c, n), Resting(n), up,
           \A o \in Operations : Holds(n, o) = Holds(conn[c], o)
    PROVE  WorkerInv'
<1>1. conn' = [conn EXCEPT ![c] = n] /\ UNCHANGED <<up, pid, primary, writable, delta, row>>
  BY DEF Peer
<1>2. Sockets'
  BY <1>1 DEF WorkerInv, Sockets
<1>3. Ledger'
  BY <1>1 DEF WorkerInv, Ledger
<1>4. ASSUME NEW o \in Operations PROVE Count(conn', o) = Count(conn, o)
  <2>1. DOMAIN conn = Conns
    BY DEF WorkerInv, Sockets
  <2>2. \A x \in Conns : conn'[x] = IF x = c THEN n ELSE conn[x]
    BY <1>1, <2>1
  <2>3. Count(conn', o) = Count(conn, o) - Holds(conn[c], o) + Holds(n, o)
    BY <2>2, CountAfter
  <2>4. Count(conn, o) \in Nat /\ Holds(conn[c], o) \in {0, 1}
    BY CountNat, HoldsNat
  <2> QED BY <2>3, <2>4
<1>5. \A o \in Operations : Shown(o)' = Shown(o)
  BY <1>1 DEF Shown
<1>6. Exact'
  BY <1>1, <1>4, <1>5 DEF WorkerInv, Exact
<1> QED BY <1>2, <1>3, <1>6 DEF WorkerInv

\* It holds of a worker that starts.
LEMMA InitWorker == Init => WorkerInv
<1> SUFFICES ASSUME Init PROVE WorkerInv
  OBVIOUS
<1>1. Sockets
  BY FreeResting DEF Init, Sockets
<1>2. Ledger
  BY HttpWorkerAssumption DEF Init, Ledger
<1>3. \A o \in Operations : Count(conn, o) = 0
  BY CountFree DEF Init
<1>4. Exact
  BY <1>3 DEF Init, Exact, Shown
<1> QED BY <1>1, <1>2, <1>4 DEF WorkerInv

-----------------------------------------------------------------------------
(* Each action keeps it.                                                   *)

\* A visit to a connection: the delta moves by the requests it begins and ends.
LEMMA DriveKeeps ==
    ASSUME WorkerInv, NEW c \in Conns, Drive(c)
    PROVE  WorkerInv'
<1>1. /\ up /\ Open(conn[c]) /\ UNCHANGED <<up, pid, primary, writable, row>>
      /\ \E k \in drive(conn[c]) : Settle(c, k)
  BY DEF Drive
<1>2. PICK k \in drive(conn[c]) : Settle(c, k)
  BY <1>1
<1>3. Resting(conn[c]) /\ DOMAIN conn = Conns /\ delta \in [Operations -> Int]
  BY DEF WorkerInv, Sockets, Ledger
<1>4. Driven(conn[c], conn[c]) /\ conn[c].out = "go"
  BY <1>1, <1>3 DEF Driven, Resting, Open
<1>5. Driving(conn[c], k)
  BY <1>4, DriveDriving
<1>6. PICK n : /\ conn' = [conn EXCEPT ![c] = n] /\ Resting(n)
               /\ delta' \in [Operations -> Int]
               /\ \A o \in Operations :
                     delta'[o] = delta[o] - Holds(conn[c], o) + Holds(n, o)
  BY <1>2, <1>3, <1>5, Settled
<1>7. Sockets'
  BY <1>1, <1>6 DEF WorkerInv, Sockets
<1>8. Ledger'
  BY <1>1, <1>6 DEF WorkerInv, Ledger
<1>9. ASSUME NEW o \in Operations
      PROVE  /\ Shown(o)' + delta'[o] <= Count(conn', o)
             /\ primary' => Shown(o)' + delta'[o] = Count(conn', o)
  <2>1. Count(conn', o) = Count(conn, o) - Holds(conn[c], o) + Holds(n, o)
    <3>1. \A x \in Conns : conn'[x] = IF x = c THEN n ELSE conn[x]
      BY <1>3, <1>6
    <3> QED BY <3>1, CountAfter
  <2>2. /\ Count(conn, o) \in Nat /\ Holds(conn[c], o) \in {0, 1} /\ Holds(n, o) \in {0, 1}
        /\ delta[o] \in Int
    BY <1>3, CountNat, HoldsNat
  <2>3. Shown(o)' = Shown(o) /\ Shown(o) \in Nat
    BY <1>1, ShownNat DEF Shown, WorkerInv
  <2>4. /\ Shown(o) + delta[o] <= Count(conn, o)
        /\ primary => Shown(o) + delta[o] = Count(conn, o)
    BY <1>1 DEF WorkerInv, Exact
  <2>5. delta'[o] = delta[o] - Holds(conn[c], o) + Holds(n, o) /\ primary' = primary
    BY <1>1, <1>6
  <2> QED BY <2>1, <2>2, <2>3, <2>4, <2>5
<1>10. Exact'
  BY <1>1, <1>9 DEF Exact
<1> QED BY <1>7, <1>8, <1>10 DEF WorkerInv

\* A heartbeat moves what it flushes from the deltas to the rows.  On a standby
\* it drops the deltas, which can only lose requests.
LEMMA HeartbeatKeeps ==
    ASSUME WorkerInv, Heartbeat
    PROVE  WorkerInv'
<1>1. PICK S \in SUBSET Operations : flush_metrics(S, delta)
  BY DEF Heartbeat
<1>2. up /\ UNCHANGED <<conn, up, pid, primary, writable>>
  BY DEF Heartbeat
<1>3. Sockets'
  BY <1>2 DEF WorkerInv, Sockets
<1>4. /\ row' = Flushed(S, delta)
      /\ delta' = [o \in Operations |-> IF writable /\ o \notin S THEN delta[o] ELSE 0]
  BY <1>1 DEF flush_metrics
<1>5. /\ delta \in [Operations -> Int] /\ pid \in 1 .. MaxPids /\ MaxPids \in Nat
      /\ row \in [Operations -> [pid : 0 .. MaxPids, in_flight : Nat]]
  BY HttpWorkerAssumption DEF WorkerInv, Ledger
<1>6. ASSUME NEW o \in Operations
      PROVE  IF ~writable \/ o \notin S THEN row'[o] = row[o]
             ELSE /\ row'[o] \in [pid : 0 .. MaxPids, in_flight : Nat]
                  /\ row'[o].pid = pid
                  /\ row'[o].in_flight =
                        IF Shown(o) + delta[o] > 0 THEN Shown(o) + delta[o] ELSE 0
  <2>1. Shown(o) = IF row[o].pid = pid THEN row[o].in_flight ELSE 0
    BY <1>2 DEF Shown
  <2>2. Shown(o) \in Nat /\ delta[o] \in Int
    BY <1>5, ShownNat DEF WorkerInv
  <2>3. row'[o] = IF ~writable \/ o \notin S THEN row[o]
                  ELSE [pid |-> pid, in_flight |->
                          IF Shown(o) + delta[o] > 0 THEN Shown(o) + delta[o] ELSE 0]
    BY <1>4, <2>1 DEF Flushed
  <2> QED BY <1>5, <2>2, <2>3
<1>7. Ledger'
  <2>1. delta' \in [Operations -> Int]
    BY <1>4, <1>5
  <2>2. row' = [o \in Operations |-> row'[o]]
    BY <1>4 DEF Flushed
  <2>3. ASSUME NEW o \in Operations
        PROVE  /\ row'[o] \in [pid : 0 .. MaxPids, in_flight : Nat]
               /\ row'[o].pid <= pid /\ (~writable => row'[o].pid = 0)
    <3>1. row[o].pid <= pid /\ (~writable => row[o].pid = 0)
      BY DEF WorkerInv, Ledger
    <3> QED BY <1>5, <1>6, <3>1
  <2>4. row' \in [Operations -> [pid : 0 .. MaxPids, in_flight : Nat]]
    BY <2>2, <2>3
  <2> QED BY <1>2, <2>1, <2>3, <2>4 DEF WorkerInv, Ledger
<1>8. ASSUME NEW o \in Operations
      PROVE  /\ Shown(o)' + delta'[o] <= Count(conn, o)
             /\ primary => Shown(o)' + delta'[o] = Count(conn, o)
  <2>1. Count(conn, o) \in Nat /\ Shown(o) \in Nat /\ delta[o] \in Int
    BY <1>5, CountNat, ShownNat DEF WorkerInv
  <2>2. /\ Shown(o) + delta[o] <= Count(conn, o)
        /\ primary => Shown(o) + delta[o] = Count(conn, o)
        /\ primary => writable
        /\ ~writable => row[o].pid = 0
    BY <1>2 DEF WorkerInv, Exact, Ledger
  <2>3. Shown(o)' = IF row'[o].pid = pid THEN row'[o].in_flight ELSE 0
    BY <1>2 DEF Shown
  <2>4. CASE ~writable
    <3>1. Shown(o)' = 0 /\ delta'[o] = 0
      BY <1>4, <1>5, <1>6, <2>2, <2>3, <2>4
    <3> QED BY <2>1, <2>2, <2>4, <3>1
  <2>5. CASE writable /\ o \notin S
    <3>1. Shown(o)' = Shown(o) /\ delta'[o] = delta[o]
      BY <1>2, <1>4, <1>6, <2>3, <2>5 DEF Shown
    <3> QED BY <2>2, <3>1
  <2>6. CASE writable /\ o \in S
    <3>1. /\ delta'[o] = 0
          /\ Shown(o)' = IF Shown(o) + delta[o] > 0 THEN Shown(o) + delta[o] ELSE 0
      BY <1>4, <1>6, <2>3, <2>6
    <3> QED BY <2>1, <2>2, <3>1
  <2> QED BY <2>4, <2>5, <2>6
<1>9. Exact'
  BY <1>2, <1>8 DEF Exact
<1> QED BY <1>3, <1>7, <1>9 DEF WorkerInv

\* A connection from the backlog has no request yet, accepted or turned away.
LEMMA AcceptKeeps ==
    ASSUME WorkerInv, NEW c \in Conns, Accept(c)
    PROVE  WorkerInv'
<1> DEFINE k == conn[c]
           a == [k EXCEPT !.phase = "head"]
<1>1. up /\ k.phase = "queued" /\ Resting(k) /\ Typed(k)
  BY DEF Accept, WorkerInv, Sockets, Resting
<1>2. Peer(c, a) \/ Peer(c, Free)
  BY DEF Accept, Peer
<1>3. ~k.active /\ \A o : Holds(k, o) = 0
  BY <1>1 DEF Resting, Holds
<1>4. Typed(a)
  <2> HIDE DEF k
  <2> QED BY <1>1, FieldTypes, FieldNames DEF Typed, Phases
<1>5. /\ a.phase = "head" /\ a.session = k.session /\ a.active = k.active
      /\ a.started = k.started /\ a.metric = k.metric /\ a.out = k.out
  BY <1>1, FieldNames DEF Typed
<1> HIDE DEF a
<1>6. Resting(a) /\ \A o : Holds(a, o) = 0
  BY <1>1, <1>3, <1>4, <1>5 DEF Resting, Holds
<1>7. Resting(Free) /\ \A o : Holds(Free, o) = 0
  BY FreeResting DEF Holds, Free
<1> HIDE DEF k
<1>8. \A o \in Operations : Holds(conn[c], o) = 0
  BY <1>3 DEF k
<1> QED BY <1>1, <1>2, <1>6, <1>7, <1>8, PeerKeeps

\* A new listener drops connections that have no request yet.
LEMMA RebindKeeps ==
    ASSUME WorkerInv, Rebind
    PROVE  WorkerInv'
<1>1. /\ up /\ conn' = [c \in Conns |-> IF Open(conn[c]) THEN conn[c] ELSE Free]
      /\ UNCHANGED <<up, pid, primary, writable, delta, row>>
  BY DEF Rebind
<1>2. Sockets'
  BY <1>1, FreeResting DEF WorkerInv, Sockets
<1>3. Ledger'
  BY <1>1 DEF WorkerInv, Ledger
<1>4. ASSUME NEW o \in Operations PROVE Count(conn', o) = Count(conn, o)
  <2>1. ASSUME NEW c \in Conns
        PROVE  conn'[c].active /\ conn'[c].metric = o <=> conn[c].active /\ conn[c].metric = o
    <3>1. Resting(conn[c])
      BY DEF WorkerInv, Sockets
    <3>2. ~Open(conn[c]) => ~conn[c].active
      BY <3>1 DEF Resting, Open
    <3>3. ~Free.active
      BY DEF Free
    <3> QED BY <1>1, <3>2, <3>3
  <2> QED BY <2>1 DEF Count
<1>5. \A o \in Operations : Shown(o)' = Shown(o)
  BY <1>1 DEF Shown
<1>6. Exact'
  BY <1>1, <1>4, <1>5 DEF WorkerInv, Exact
<1> QED BY <1>2, <1>3, <1>6 DEF WorkerInv

\* A process that ends leaves no connection and owes no delta; its rows stay.
LEMMA EndKeeps ==
    ASSUME WorkerInv, up, pid < MaxPids, ~up', UNCHANGED <<pid, primary, writable>>,
           up' \in BOOLEAN,
           delta' = [o \in Operations |-> 0], conn' = [c \in Conns |-> Free],
           row' \in [Operations -> [pid : 0 .. MaxPids, in_flight : Nat]],
           \A o \in Operations : row'[o].pid <= pid /\ (~writable => row'[o].pid = 0)
    PROVE  WorkerInv'
<1>1. Sockets'
  BY FreeResting DEF Sockets
<1>2. Ledger'
  BY DEF WorkerInv, Ledger
<1>3. Exact'
  BY DEF Exact
<1> QED BY <1>1, <1>2, <1>3 DEF WorkerInv

\* SIGTERM: the abandoned requests leave the deltas that are flushed last.
LEMMA StopKeeps ==
    ASSUME WorkerInv, Stop
    PROVE  WorkerInv'
<1> DEFINE d == [x \in Operations |-> Abandoned(x)]
<1>1. PICK S \in SUBSET Operations :
        row' = [o \in Operations |->
                  LET r == Flushed(S, d)[o]
                  IN IF writable /\ r.pid = pid THEN [r EXCEPT !.in_flight = 0] ELSE r]
  BY DEF Stop
<1>2. /\ up /\ pid < MaxPids /\ ~up' /\ up' \in BOOLEAN /\ UNCHANGED <<pid, primary, writable>>
      /\ delta' = [o \in Operations |-> 0] /\ conn' = [c \in Conns |-> Free]
  BY DEF Stop
<1>3. /\ delta \in [Operations -> Int] /\ pid \in 1 .. MaxPids /\ MaxPids \in Nat
      /\ row \in [Operations -> [pid : 0 .. MaxPids, in_flight : Nat]]
      /\ \A o \in Operations : row[o].pid <= pid /\ (~writable => row[o].pid = 0)
  BY HttpWorkerAssumption DEF WorkerInv, Ledger
<1>4. \A x \in Operations : d[x] \in Int
  <2>1. \A x \in Operations : Abandoned(x) = delta[x] - Count(conn, x)
    BY DEF Abandoned, Count
  <2>2. \A x \in Operations : Count(conn, x) \in Nat /\ delta[x] \in Int
    BY <1>3, CountNat
  <2> QED BY <2>1, <2>2
<1> HIDE DEF d
<1>5. ASSUME NEW o \in Operations
      PROVE  /\ row'[o] \in [pid : 0 .. MaxPids, in_flight : Nat]
             /\ row'[o].pid <= pid /\ (~writable => row'[o].pid = 0)
  <2> DEFINE r == Flushed(S, d)[o]
             base == IF row[o].pid = pid THEN row[o].in_flight ELSE 0
  <2>1. r = IF ~writable \/ o \notin S THEN row[o]
            ELSE [pid |-> pid, in_flight |-> IF base + d[o] > 0 THEN base + d[o] ELSE 0]
    BY DEF Flushed
  <2>2. base + d[o] \in Int
    BY <1>3, <1>4
  <2>3. row'[o] = IF writable /\ r.pid = pid THEN [r EXCEPT !.in_flight = 0] ELSE r
    BY <1>1
  <2> HIDE DEF r, base
  <2>4. /\ r \in [pid : 0 .. MaxPids, in_flight : Nat]
        /\ r.pid <= pid /\ (~writable => r.pid = 0)
    BY <1>3, <2>1, <2>2
  <2> QED BY <2>3, <2>4
<1>6. row' = [o \in Operations |-> row'[o]]
  BY <1>1
<1>7. row' \in [Operations -> [pid : 0 .. MaxPids, in_flight : Nat]]
  BY <1>5, <1>6
<1> QED BY <1>2, <1>5, <1>7, EndKeeps

\* An error that ends the process.
LEMMA ExitKeeps ==
    ASSUME WorkerInv, Exit
    PROVE  WorkerInv'
<1>1. /\ up /\ pid < MaxPids /\ ~up' /\ up' \in BOOLEAN
      /\ UNCHANGED <<pid, primary, writable, row>>
      /\ delta' = [o \in Operations |-> 0] /\ conn' = [c \in Conns |-> Free]
  BY DEF Exit
<1>2. /\ row' \in [Operations -> [pid : 0 .. MaxPids, in_flight : Nat]]
      /\ \A o \in Operations : row'[o].pid <= pid /\ (~writable => row'[o].pid = 0)
  BY <1>1 DEF WorkerInv, Ledger
<1> QED BY <1>1, <1>2, EndKeeps

\* A replacement process has a pid no row has, so it inherits no gauge.
LEMMA StartKeeps ==
    ASSUME WorkerInv, Start
    PROVE  WorkerInv'
<1>1. /\ ~up /\ up' = TRUE /\ pid' = pid + 1 /\ primary' = writable
      /\ UNCHANGED <<conn, writable, delta, row>>
  BY DEF Start
<1>2. MaxPids \in Nat
  BY HttpWorkerAssumption
<1>3. Sockets'
  BY <1>1 DEF WorkerInv, Sockets
<1>4. pid \in 1 .. MaxPids /\ pid < MaxPids /\ \A o \in Operations : delta[o] = 0
  BY <1>1 DEF WorkerInv, Ledger
<1>5. \A o \in Operations : row[o].pid \in 0 .. MaxPids /\ row[o].pid <= pid
  BY DEF WorkerInv, Ledger
<1>6. pid' \in 1 .. MaxPids /\ \A o \in Operations : row'[o].pid <= pid' /\ row'[o].pid # pid'
  BY <1>1, <1>2, <1>4, <1>5
<1>7. Ledger'
  BY <1>1, <1>6 DEF WorkerInv, Ledger
<1>8. \A o \in Operations : Count(conn', o) = 0
  BY <1>1, CountFree DEF WorkerInv, Sockets
<1>9. \A o \in Operations : Shown(o)' = 0
  BY <1>6 DEF Shown
<1>10. Exact'
  BY <1>1, <1>4, <1>8, <1>9 DEF Exact
<1> QED BY <1>3, <1>7, <1>10 DEF WorkerInv

\* The end of recovery.
LEMMA PromoteKeeps ==
    ASSUME WorkerInv, Promote
    PROVE  WorkerInv'
<1>1. ~writable /\ writable' = TRUE /\ UNCHANGED <<conn, up, pid, primary, delta, row>>
  BY DEF Promote
<1>2. Sockets'
  BY <1>1 DEF WorkerInv, Sockets
<1>3. Ledger'
  BY <1>1 DEF WorkerInv, Ledger
<1>4. Exact'
  BY <1>1 DEF WorkerInv, Exact, Shown
<1> QED BY <1>2, <1>3, <1>4 DEF WorkerInv

\* Messages are tokens.
LEMMA BatchTokens ==
    ASSUME NEW batch \in Batches
    PROVE  FlattenSeq([i \in DOMAIN batch |-> Message(batch[i])]) \in Seq(Tokens)
<1> DEFINE src == [i \in DOMAIN batch |-> Message(batch[i])]
<1>1. batch \in Seq(Requests)
  BY HttpWorkerAssumption
<1>2. ASSUME NEW r \in Requests PROVE Message(r) \in Seq(Tokens)
  <2>1. r.body \in Seq({"b", "x"})
    BY HttpWorkerAssumption DEF RequestOK
  <2> DEFINE body == [i \in DOMAIN r.body |-> [t |-> r.body[i]]]
             start == <<[t |-> "part"], [t |-> "head", req |-> r]>>
  <2>2. \A i \in DOMAIN r.body : [t |-> r.body[i]] \in Tokens
    <3> SUFFICES ASSUME NEW i \in DOMAIN r.body PROVE [t |-> r.body[i]] \in Tokens
      OBVIOUS
    <3>1. r.body[i] \in {"b", "x"}
      BY <2>1
    <3> QED BY <3>1 DEF Tokens
  <2>3. body \in Seq(Tokens)
    <3>1. Len(r.body) \in Nat /\ DOMAIN r.body = 1 .. Len(r.body)
      BY <2>1
    <3>2. body \in [1 .. Len(r.body) -> Tokens]
      BY <2>2, <3>1
    <3> HIDE DEF body
    <3> QED BY <3>1, <3>2, SeqDef
  <2>4. start \in Seq(Tokens)
    BY DEF Tokens
  <2>5. Message(r) = start \o body
    BY DEF Message
  <2> HIDE DEF body, start
  <2> QED BY <2>3, <2>4, <2>5
<1>3. \A i \in DOMAIN batch : Message(batch[i]) \in Seq(Tokens)
  BY <1>1, <1>2
<1>4. src \in Seq(Seq(Tokens))
  BY <1>1, <1>3
<1> QED BY <1>4, FlattenType

\* The peers and the clock.
LEMMA PeerNextKeeps ==
    ASSUME WorkerInv, NEW c \in Conns, PeerNext(c) \/ Idle(c)
    PROVE  WorkerInv'
<1> DEFINE k == conn[c]
<1>1. Resting(k) /\ Typed(k)
  BY DEF WorkerInv, Sockets, Resting
<1>2. ASSUME ~up PROVE k = Free
  BY <1>2 DEF WorkerInv, Sockets
<1>3. Free.phase = "free" /\ Free.todo = <<>>
  BY DEF Free
<1>4. ASSUME up, NEW n, Peer(c, n), Typed(n),
             \A f \in {"phase", "session", "active", "started", "metric", "out"} : n[f] = k[f]
      PROVE  WorkerInv'
  <2>1. Resting(n) /\ \A o : Holds(n, o) = Holds(conn[c], o)
    BY <1>1, <1>4, PeerResting
  <2> QED BY <1>4, <2>1, PeerKeeps
<1>5. CASE Connect(c)
  <2> DEFINE n == [Free EXCEPT !.phase = "queued"]
  <2>1. up /\ k.phase = "free" /\ Peer(c, n)
    BY <1>5 DEF Connect
  <2>2. Typed(Free) /\ Resting(Free)
    BY FreeResting DEF Resting
  <2>3. Typed(n)
    BY <2>2, FieldTypes, FieldNames DEF Typed, Phases
  <2>4. Resting(n) /\ \A o : Holds(n, o) = 0
    <3>1. n.phase = "queued" /\ \A f \in Names \ {"phase"} : n[f] = Free[f]
      BY <2>2, FieldNames DEF Typed
    <3> HIDE DEF n
    <3>2. /\ n.session = Free.session /\ n.active = Free.active /\ n.started = Free.started
          /\ n.metric = Free.metric /\ n.out = Free.out
      BY <3>1, FieldNames
    <3> QED BY <2>3, <3>1, <3>2 DEF Resting, Holds, Free
  <2>5. \A o : Holds(conn[c], o) = 0
    BY <1>1, <2>1 DEF Resting, Holds
  <2> HIDE DEF n
  <2> QED BY <2>1, <2>4, <2>5, PeerKeeps
<1>6. CASE Arrive(c)
  <2> DEFINE w == Append(k.wire, Head(k.todo))
             n == [k EXCEPT !.wire = w, !.todo = Tail(k.todo)]
  <2>1. k.todo # <<>> /\ Peer(c, n)
    BY <1>6 DEF Arrive
  <2>2. k.todo \in Seq(Tokens) /\ k.wire \in Seq(Tokens)
    BY <1>1, FieldTypes, FieldNames DEF Typed
  <2>3. w \in Seq(Tokens) /\ Tail(k.todo) \in Seq(Tokens)
    BY <2>1, <2>2
  <2>4. up
    BY <1>2, <1>3, <2>1
  <2> HIDE DEF w, k
  <2>5. Typed(n)
    BY <1>1, <2>3, FieldTypes, FieldNames DEF Typed
  <2>6. \A f \in Names \ {"wire", "todo"} : n[f] = k[f]
    BY <1>1 DEF Typed
  <2> HIDE DEF n
  <2> QED BY <1>4, <2>1, <2>4, <2>5, <2>6, FieldNames DEF k
<1>7. CASE Hangup(c)
  <2> DEFINE n == [k EXCEPT !.todo = <<>>, !.eof = TRUE]
  <2>1. Open(k) /\ Peer(c, n) /\ up
    BY <1>2, <1>3, <1>7 DEF Hangup, Open
  <2> HIDE DEF k
  <2>2. Typed(n)
    <3>1. <<>> \in Seq(Tokens)
      OBVIOUS
    <3> DEFINE e == <<>>
    <3>2. e \in Seq(Tokens)
      BY <3>1
    <3>3. n = [k EXCEPT !.todo = e, !.eof = TRUE]
      OBVIOUS
    <3> HIDE DEF e, n
    <3> QED BY <1>1, <3>2, <3>3, FieldTypes, FieldNames DEF Typed
  <2>3. \A f \in Names \ {"todo", "eof"} : n[f] = k[f]
    BY <1>1 DEF Typed
  <2> HIDE DEF n
  <2> QED BY <1>4, <2>1, <2>2, <2>3, FieldNames DEF k
<1>8. CASE Break(c)
  <2> DEFINE n == [k EXCEPT !.todo = <<>>, !.wire = <<>>, !.broken = TRUE]
  <2>1. Open(k) /\ Peer(c, n) /\ up
    BY <1>2, <1>3, <1>8 DEF Break, Open
  <2> HIDE DEF k
  <2>2. Typed(n)
    <3>1. <<>> \in Seq(Tokens)
      OBVIOUS
    <3> DEFINE e == <<>>
    <3>2. e \in Seq(Tokens)
      BY <3>1
    <3>3. n = [k EXCEPT !.todo = e, !.wire = e, !.broken = TRUE]
      OBVIOUS
    <3> HIDE DEF e, n
    <3> QED BY <1>1, <3>2, <3>3, FieldTypes, FieldNames, ZenonT(40) DEF Typed
  <2>3. \A f \in Names \ {"todo", "wire", "broken"} : n[f] = k[f]
    BY <1>1 DEF Typed
  <2> HIDE DEF n
  <2> QED BY <1>4, <2>1, <2>2, <2>3, FieldNames DEF k
<1>9. CASE Stall(c)
  <2> DEFINE n == [k EXCEPT !.stalled = TRUE]
  <2>1. Open(k) /\ Peer(c, n) /\ up
    BY <1>2, <1>3, <1>9 DEF Stall, Open
  <2> HIDE DEF k
  <2>2. Typed(n)
    BY <1>1, FieldTypes, FieldNames DEF Typed
  <2>3. \A f \in Names \ {"stalled"} : n[f] = k[f]
    BY <1>1 DEF Typed
  <2> HIDE DEF n
  <2> QED BY <1>4, <2>1, <2>2, <2>3, FieldNames DEF k
<1>10. CASE Idle(c)
  <2> DEFINE n == [k EXCEPT !.idle = TRUE]
  <2>1. Open(k) /\ Peer(c, n) /\ up
    BY <1>2, <1>3, <1>10 DEF Idle, Open
  <2> HIDE DEF k
  <2>2. Typed(n)
    BY <1>1, FieldTypes, FieldNames DEF Typed
  <2>3. \A f \in Names \ {"idle"} : n[f] = k[f]
    BY <1>1 DEF Typed
  <2> HIDE DEF n
  <2> QED BY <1>4, <2>1, <2>2, <2>3, FieldNames DEF k
<1>11. ASSUME NEW batch \in Batches, Send(c, batch)
       PROVE  WorkerInv'
  <2> DEFINE t == FlattenSeq([i \in DOMAIN batch |-> Message(batch[i])])
             n == [k EXCEPT !.todo = t, !.sent = k.sent + 1]
  <2>1. k.phase # "free" /\ k.sent < MaxBatches /\ Peer(c, n)
    BY <1>11 DEF Send
  <2>2. up
    BY <1>2, <1>3, <2>1
  <2>3. t \in Seq(Tokens)
    BY BatchTokens
  <2>4. k.sent \in 0 .. MaxBatches /\ MaxBatches \in Nat
    BY <1>1, FieldTypes, FieldNames, HttpWorkerAssumption DEF Typed
  <2>5. k.sent + 1 \in 0 .. MaxBatches
    BY <2>1, <2>4
  <2> HIDE DEF k, t
  <2>6. Typed(n)
    BY <1>1, <2>3, <2>5, FieldTypes, FieldNames DEF Typed
  <2>7. \A f \in Names \ {"todo", "sent"} : n[f] = k[f]
    BY <1>1 DEF Typed
  <2> HIDE DEF n
  <2> QED BY <1>4, <2>1, <2>2, <2>6, <2>7, FieldNames DEF k
<1> QED BY <1>5, <1>6, <1>7, <1>8, <1>9, <1>10, <1>11 DEF PeerNext

\* Every step keeps the invariant.
LEMMA WorkerStep == WorkerInv /\ [Next]_vars => WorkerInv'
<1> SUFFICES ASSUME WorkerInv, [Next]_vars PROVE WorkerInv'
  OBVIOUS
<1>1. ASSUME NEW c \in Conns, Drive(c) \/ Accept(c) \/ Idle(c) \/ PeerNext(c)
      PROVE  WorkerInv'
  BY <1>1, DriveKeeps, AcceptKeeps, PeerNextKeeps
<1>2. CASE Heartbeat
  BY <1>2, HeartbeatKeeps
<1>3. CASE Rebind
  BY <1>3, RebindKeeps
<1>4. CASE Stop
  BY <1>4, StopKeeps
<1>5. CASE Exit
  BY <1>5, ExitKeeps
<1>6. CASE Start
  BY <1>6, StartKeeps
<1>7. CASE Promote
  BY <1>7, PromoteKeeps
<1>8. CASE UNCHANGED vars
  BY <1>8 DEF vars, WorkerInv, Sockets, Ledger, Exact, Shown
<1> QED BY <1>1, <1>2, <1>3, <1>4, <1>5, <1>6, <1>7, <1>8 DEF Next

\* The invariant of a worker, for any number of sockets, requests and processes.
THEOREM WorkerInvariant == Spec => []WorkerInv
BY InitWorker, WorkerStep, PTL DEF Spec

\* The state of the worker is well formed, and no outcome of a drive is left
\* unsettled between two drives (drive_connections).
THEOREM WorkerTypeCorrect == Spec => []TypeOK
<1>1. WorkerInv => TypeOK
  <2> SUFFICES ASSUME WorkerInv PROVE TypeOK
    OBVIOUS
  <2>1. \A c \in Conns : conn[c] \in Connection /\ conn[c].out = "go" /\ ~conn[c].started
    BY TypedIsConnection DEF WorkerInv, Sockets, Resting
  <2>2. conn \in [Conns -> Connection]
    BY <2>1 DEF WorkerInv, Sockets
  <2> QED BY <2>1, <2>2 DEF TypeOK, WorkerInv, Ledger
<1> QED BY <1>1, WorkerInvariant, PTL

\* A session with the service lives exactly as long as the body phase of its
\* exchange, through answers, framing errors, timeouts, hang-ups, I/O errors and
\* panics (Exchange::abort_session and the arms of drive_connections).
THEOREM SessionsAlwaysSettled == Spec => []SessionSettled
<1>1. WorkerInv => SessionSettled
  BY DEF WorkerInv, Sockets, Resting, SessionSettled
<1> QED BY <1>1, WorkerInvariant, PTL

\* The in-flight gauges are exact on a worker that began on a primary, and never
\* too high on one that began on a standby (flush_metrics, abandon_connections and
\* pgs3._worker_add_metric).
THEOREM GaugesAlwaysExact == Spec => []InFlightExact
<1>1. WorkerInv => InFlightExact
  <2>1. \A o : InFlight(o) = Count(conn, o)
    BY DEF InFlight, Count
  <2> QED BY <2>1 DEF WorkerInv, Exact, InFlightExact
<1> QED BY <1>1, WorkerInvariant, PTL


-----------------------------------------------------------------------------
(* Worker and peer in step.                                                *)

\* What follows the first n tokens of a stream, if anything, begins a message.
AtStart(s, n) == Len(s) > n => s[n + 1].t = "part"

\* A stream of messages: a first piece is followed by the end of the head, and an
\* entity of the declared length by another message.  The stream may begin inside
\* a message, and end anywhere.
Ordered(s) ==
    \A i \in 1 .. Len(s) :
        /\ s[i].t = "part" => (i < Len(s) => s[i + 1].t = "head")
        /\ s[i].t = "head" => AtStart(s, i + Len(s[i].req.body))

\* Every message that begins in the stream ends in it.
Whole(s) ==
    \A i \in 1 .. Len(s) :
        /\ s[i].t = "part" => i < Len(s)
        /\ s[i].t = "head" => i + Len(s[i].req.body) <= Len(s)

\* The stream of a peer that is done with sending may have been cut off.
Flow(done, s) == Ordered(s) /\ (done \/ Whole(s))

\* The place of an exchange in the stream s of what was not read yet: at the end of
\* a head, at a message, left tokens before one, or in a connection that will close.
Place(phase, active, left, close, done, s) ==
    /\ Flow(done, s)
    /\ phase = "free" => s = <<>>
    /\ phase \in {"queued", "head"} =>
         IF active THEN (s # <<>> => s[1].t = "head") /\ (done \/ s # <<>>)
         ELSE AtStart(s, 0)
    /\ phase = "body" => close \/ (AtStart(s, left) /\ (done \/ left <= Len(s)))
    /\ phase = "response" => close \/ AtStart(s, 0)

\* What is left of a stream after n tokens.
Rest(s, n) == SubSeq(s, n + 1, Len(s))

\* The first n tokens.
First(s, n) == SubSeq(s, 1, n)

\* The tokens of the rest.
LEMMA RestTokens ==
    ASSUME NEW T, NEW s \in Seq(T), NEW n \in 0 .. Len(s)
    PROVE  /\ Rest(s, n) \in Seq(T) /\ Len(Rest(s, n)) = Len(s) - n
           /\ \A i \in 1 .. Len(s) - n : Rest(s, n)[i] = s[n + i]
<1>1. Len(s) \in Nat
  OBVIOUS
<1>2. Rest(s, n) \in Seq(T)
  BY <1>1 DEF Rest
<1>3. Len(Rest(s, n)) = Len(s) - n
  BY <1>1 DEF Rest
<1>4. \A i \in 1 .. Len(s) - n : Rest(s, n)[i] = s[n + i]
  BY <1>1 DEF Rest
<1> QED BY <1>2, <1>3, <1>4

\* The length of an entity.
LEMMA BodyLength ==
    ASSUME NEW s \in Seq(Tokens), NEW i \in 1 .. Len(s), s[i].t = "head"
    PROVE  Len(s[i].req.body) \in Nat
BY HeadToken

\* What is left of a stream is one.
LEMMA RestFlows ==
    ASSUME NEW s \in Seq(Tokens), NEW n \in 0 .. Len(s), NEW done, Flow(done, s)
    PROVE  Flow(done, Rest(s, n))
<1> DEFINE t == Rest(s, n)
           L == Len(s)
<1>1. t \in Seq(Tokens) /\ Len(t) = L - n /\ \A i \in 1 .. L - n : t[i] = s[n + i]
  BY RestTokens
<1>2. L \in Nat /\ n \in 0 .. L
  OBVIOUS
<1> HIDE DEF t, L
<1>3. ASSUME NEW i \in 1 .. Len(t)
      PROVE  /\ t[i].t = "part" => (i < Len(t) => t[i + 1].t = "head")
             /\ t[i].t = "head" => AtStart(t, i + Len(t[i].req.body))
             /\ done \/ (/\ t[i].t = "part" => i < Len(t)
                         /\ t[i].t = "head" => i + Len(t[i].req.body) <= Len(t))
  <2>1. n + i \in 1 .. L /\ i \in 1 .. L - n /\ t[i] = s[n + i] /\ i \in Nat
    BY <1>1, <1>2
  <2>2. /\ s[n + i].t = "part" => (n + i < L => s[n + i + 1].t = "head")
        /\ s[n + i].t = "head" => AtStart(s, n + i + Len(s[n + i].req.body))
        /\ done \/ (/\ s[n + i].t = "part" => n + i < L
                    /\ s[n + i].t = "head" => n + i + Len(s[n + i].req.body) <= L)
    BY <2>1 DEF Flow, Ordered, Whole, L
  <2>3. ASSUME t[i].t = "part"
        PROVE  /\ i < Len(t) => t[i + 1].t = "head"
               /\ done \/ i < Len(t)
    <3>1. ASSUME i < Len(t) PROVE t[i + 1].t = "head"
      <4>1. n + i < L /\ i + 1 \in 1 .. L - n /\ n + (i + 1) = n + i + 1
        BY <1>1, <1>2, <2>1, <3>1
      <4>2. t[i + 1] = s[n + i + 1]
        BY <1>1, <4>1
      <4> QED BY <2>1, <2>2, <2>3, <4>1, <4>2
    <3> QED BY <1>1, <1>2, <2>1, <2>2, <2>3, <3>1
  <2>4. ASSUME t[i].t = "head"
        PROVE  /\ AtStart(t, i + Len(t[i].req.body))
               /\ done \/ i + Len(t[i].req.body) <= Len(t)
    <3>1. PICK b \in Nat : b = Len(t[i].req.body)
      BY <1>1, <2>4, BodyLength
    <3>2. AtStart(s, n + i + b) /\ (done \/ n + i + b <= L)
      BY <2>1, <2>2, <2>4, <3>1
    <3>3. ASSUME Len(t) > i + b PROVE t[i + b + 1].t = "part"
      <4>1. L > n + i + b /\ i + b + 1 \in 1 .. L - n /\ n + (i + b + 1) = n + i + b + 1
        BY <1>1, <1>2, <2>1, <3>3
      <4>2. t[i + b + 1] = s[n + i + b + 1]
        BY <1>1, <4>1
      <4> QED BY <3>2, <4>1, <4>2 DEF AtStart, L
    <3>4. AtStart(t, i + b)
      BY <3>3 DEF AtStart
    <3>5. done \/ i + b <= Len(t)
      BY <1>1, <1>2, <2>1, <3>2
    <3> QED BY <3>1, <3>4, <3>5
  <2> QED BY <2>3, <2>4
<1>4. Flow(done, t)
  BY <1>3 DEF Flow, Ordered, Whole
<1> QED BY <1>4 DEF t

\* Where a message begins in what is left.
LEMMA RestStarts ==
    ASSUME NEW s \in Seq(Tokens), NEW n \in 0 .. Len(s), NEW m \in Nat, n <= m
    PROVE  AtStart(s, m) <=> AtStart(Rest(s, n), m - n)
<1> DEFINE t == Rest(s, n)
           L == Len(s)
<1>1. t \in Seq(Tokens) /\ Len(t) = L - n /\ \A i \in 1 .. L - n : t[i] = s[n + i]
  BY RestTokens
<1>2. L \in Nat /\ n \in 0 .. L
  OBVIOUS
<1> HIDE DEF t, L
<1>3. (L > m) <=> (Len(t) > m - n)
  BY <1>1, <1>2
<1>4. ASSUME L > m PROVE t[m - n + 1] = s[m + 1]
  <2>1. m - n + 1 \in 1 .. L - n /\ n + (m - n + 1) = m + 1
    BY <1>2, <1>4
  <2> QED BY <1>1, <2>1
<1>5. AtStart(s, m) <=> AtStart(t, m - n)
  BY <1>3, <1>4 DEF AtStart, L
<1> QED BY <1>5 DEF t


\* ingest_body: n tokens were read and left of them belong to the entity; what comes
\* after it closes the connection.
LEMMA BodyTaken ==
    ASSUME NEW s \in Seq(Tokens), NEW n \in 0 .. Len(s), NEW left \in Nat, NEW close \in BOOLEAN,
           NEW done, NEW x, Place("body", x, left, close, done, s),
           NEW m, m = IF n < left THEN n ELSE left, NEW y, NEW z
    PROVE  /\ Place("body", y, left - m, close \/ m < n, done, Rest(s, n))
           /\ left - m = 0 => Place("response", y, z, close \/ m < n, done, Rest(s, n))
<1>1. Flow(done, Rest(s, n))
  BY RestFlows DEF Place
<1>2. Len(s) \in Nat /\ Len(Rest(s, n)) = Len(s) - n
  BY RestTokens
<1>3. CASE close \/ m < n
  BY <1>1, <1>3 DEF Place
<1>4. CASE ~close /\ ~(m < n)
  <2>1. m = n /\ n <= left
    BY <1>4
  <2>2. AtStart(s, left) /\ (done \/ left <= Len(s))
    BY <1>4 DEF Place
  <2>3. AtStart(Rest(s, n), left - n)
    BY <2>1, <2>2, RestStarts
  <2>4. done \/ left - n <= Len(Rest(s, n))
    BY <1>2, <2>2
  <2> QED BY <1>1, <2>1, <2>3, <2>4 DEF Place
<1> QED BY <1>3, <1>4

\* handle_head: the entity begins after the head.
LEMMA EntityBegins ==
    ASSUME NEW s \in Seq(Tokens), NEW done, Flow(done, s),
           NEW i \in 1 .. Len(s), s[i].t = "head", NEW x, NEW y
    PROVE  Place("body", x, Len(s[i].req.body), y, done, Rest(s, i))
<1>1. PICK b \in Nat : b = Len(s[i].req.body)
  BY BodyLength
<1>2. AtStart(s, i + b) /\ (done \/ i + b <= Len(s))
  BY <1>1 DEF Flow, Ordered, Whole
<1>3. i \in 0 .. Len(s) /\ Len(s) \in Nat /\ i + b \in Nat /\ i <= i + b /\ (i + b) - i = b
  OBVIOUS
<1>4. AtStart(Rest(s, i), b)
  <2>1. AtStart(s, i + b) <=> AtStart(Rest(s, i), (i + b) - i)
    BY <1>3, RestStarts
  <2> QED BY <1>2, <1>3, <2>1
<1>5. Len(Rest(s, i)) = Len(s) - i
  BY <1>3, RestTokens
<1>6. done \/ b <= Len(Rest(s, i))
  BY <1>2, <1>3, <1>5
<1>7. Flow(done, Rest(s, i))
  BY <1>3, RestFlows
<1> QED BY <1>1, <1>4, <1>6, <1>7 DEF Place

\* ingest: a read without the end of a head took the first piece of one.
LEMMA PieceTaken ==
    ASSUME NEW s \in Seq(Tokens), NEW done, NEW active \in BOOLEAN, NEW x, NEW y,
           Place("head", active, x, y, done, s),
           NEW n \in 1 .. Len(s), \A j \in 1 .. n : s[j].t = "part", NEW z, NEW w
    PROVE  Place("head", TRUE, z, w, done, Rest(s, n))
<1>1. Len(s) \in Nat /\ 1 \in 1 .. Len(s) /\ s # <<>> /\ s[1].t = "part" /\ n \in 0 .. Len(s)
  OBVIOUS
<1>2. /\ 1 < Len(s) => s[2].t = "head"
      /\ done \/ 1 < Len(s)
  BY <1>1 DEF Place, Flow, Ordered, Whole
<1>3. n = 1
  <2> SUFFICES ASSUME n > 1 PROVE FALSE
    OBVIOUS
  <2>1. 2 \in 1 .. n /\ 1 < Len(s)
    OBVIOUS
  <2> QED BY <1>2, <2>1
<1>4. Flow(done, Rest(s, n))
  BY <1>1, RestFlows DEF Place
<1>5. /\ Rest(s, n) \in Seq(Tokens) /\ Len(Rest(s, n)) = Len(s) - 1
      /\ \A i \in 1 .. Len(s) - 1 : Rest(s, n)[i] = s[1 + i]
  BY <1>1, <1>3, RestTokens
<1>6. ASSUME Rest(s, n) # <<>> PROVE Rest(s, n)[1].t = "head"
  <2>1. Len(s) > 1
    BY <1>1, <1>5, <1>6
  <2>2. Rest(s, n)[1] = s[2]
    BY <1>5, <2>1
  <2> QED BY <1>2, <2>1, <2>2
<1>7. done \/ Rest(s, n) # <<>>
  BY <1>2, <1>5
<1> QED BY <1>4, <1>6, <1>7 DEF Place

-----------------------------------------------------------------------------
(* The place of a connection.                                              *)

\* What a peer has sent or will send and the worker has not read.
Unread(k) == k.wire \o k.todo

\* The peer sends no more.
Done(k) == k.eof \/ k.broken

\* The exchange of a connection is where it should be.
InPlace(k) == Place(k.phase, k.active, k.left, k.close, Done(k), Unread(k))

\* A connection that a stage of drive has reached.
Reached(k) ==
    /\ Flow(Done(k), Unread(k))
    /\ k.out \in {"go", "pending", "complete"} => InPlace(k)
    /\ k.out = "complete" => k.phase = "response"

\* A step that leaves the socket alone.
SameSocket(k, r) ==
    r.wire = k.wire /\ r.todo = k.todo /\ r.eof = k.eof /\ r.broken = k.broken

\* The stream is a stream of tokens.
LEMMA UnreadType ==
    ASSUME NEW k, Typed(k)
    PROVE  /\ Unread(k) \in Seq(Tokens) /\ k.left \in Nat /\ k.close \in BOOLEAN
           /\ k.active \in BOOLEAN /\ k.wire \in Seq(Tokens) /\ k.todo \in Seq(Tokens)
BY FieldTypes, FieldNames DEF Typed, Unread

\* It has the same stream.
LEMMA SocketSame ==
    ASSUME NEW k, NEW r, SameSocket(k, r)
    PROVE  Unread(r) = Unread(k) /\ Done(r) = Done(k)
BY DEF SameSocket, Unread, Done

\* A response that closes the connection, or that comes at the end of a message.
LEMMA QueueReached ==
    ASSUME NEW k, Typed(k), Flow(Done(k), Unread(k)), NEW s \in Statuses, NEW c \in BOOLEAN,
           k.close \/ s >= 400 \/ c \/ AtStart(Unread(k), 0)
    PROVE  Reached(queue_response(k, s, c))
<1> DEFINE b == k.close \/ s >= 400 \/ c
           q == queue_response(k, s, c)
<1>1. q = [k EXCEPT !.phase = "response", !.status = s, !.close = b]
  BY DEF queue_response
<1>2. /\ q.wire = k.wire /\ q.todo = k.todo /\ q.eof = k.eof /\ q.broken = k.broken
      /\ q.phase = "response" /\ q.close = b
  <2> HIDE DEF b
  <2> QED BY <1>1, FieldNames DEF Typed
<1> HIDE DEF q
<1>3. Unread(q) = Unread(k) /\ Done(q) = Done(k)
  BY <1>2, SocketSame DEF SameSocket
<1>4. Place("response", q.active, q.left, b, Done(k), Unread(k))
  BY DEF Place
<1>5. Reached(q)
  <2> HIDE DEF b
  <2> QED BY <1>2, <1>3, <1>4 DEF Reached, InPlace
<1> QED BY <1>5 DEF q

\* A panic leaves the stream as it is.
LEMMA PanicReached ==
    ASSUME NEW k, Typed(k), Flow(Done(k), Unread(k))
    PROVE  Reached(Panic(k))
<1> DEFINE q == Panic(k)
<1>1. SameSocket(k, q) /\ q.out = "panic"
  BY FieldNames DEF Panic, Typed, SameSocket
<1> HIDE DEF q
<1>2. Reached(q)
  BY <1>1, SocketSame DEF Reached
<1> QED BY <1>2 DEF q

\* The end of a session, with the body still in the phase.
LEMMA SessionEndsSocket ==
    ASSUME NEW k, Typed(k), NEW e \in Sessions
    PROVE  /\ Typed([k EXCEPT !.session = e]) /\ SameSocket(k, [k EXCEPT !.session = e])
           /\ [k EXCEPT !.session = e].close = k.close
<1>1. Typed([k EXCEPT !.session = e])
  BY FieldTypes, FieldNames DEF Typed
<1>2. SameSocket(k, [k EXCEPT !.session = e]) /\ [k EXCEPT !.session = e].close = k.close
  BY FieldNames DEF Typed, SameSocket
<1> QED BY <1>1, <1>2

\* abort_session answers with an error, which closes the connection.
LEMMA AbortReached ==
    ASSUME NEW k, Typed(k), Flow(Done(k), Unread(k)), NEW s \in Statuses, s >= 400,
           NEW r \in abort_session(k, s)
    PROVE  Reached(r)
<1>1. CASE k.phase = "body"
  <2> DEFINE k1 == [k EXCEPT !.session = "aborted"]
  <2>1. r \in {queue_response(k1, s, FALSE), Panic(k)}
    BY <1>1 DEF abort_session
  <2>2. Typed(k1) /\ SameSocket(k, k1)
    BY SessionEndsSocket, Ranges
  <2> HIDE DEF k1
  <2>3. Reached(queue_response(k1, s, FALSE))
    BY <2>2, SocketSame, QueueReached
  <2> QED BY <2>1, <2>3, PanicReached
<1>2. CASE k.phase # "body"
  BY <1>2, QueueReached DEF abort_session
<1> QED BY <1>1, <1>2

\* The answers of the service are responses with these two statuses.
LEMMA AnswersAre ==
    ASSUME NEW k, NEW r \in Answers(k)
    PROVE  \E s \in {200, 500}, c \in BOOLEAN : r = queue_response(k, s, c)
<1>1. \/ r = queue_response(k, 200, FALSE) \/ r = queue_response(k, 200, TRUE)
      \/ r = queue_response(k, 500, FALSE)
  BY DEF Answers
<1> QED BY <1>1, ZenonT(40)

\* The fields that the handlers of a read set.
Taking(k, l, b) ==
    [k EXCEPT !.left = l, !.close = b]

\* Their values.
LEMMA LeftFields ==
    ASSUME NEW k, Typed(k), NEW l \in TypeOf("left"), NEW b \in TypeOf("close"), NEW r,
           r = Taking(k, l, b)
    PROVE  /\ Typed(r) /\ SameSocket(k, r) /\ r.out = k.out
           /\ r.phase = k.phase /\ r.left = l /\ r.close = b
<1>1. Typed(r)
  BY FieldTypes, FieldNames DEF Typed, Taking
<1>2. /\ SameSocket(k, r) /\ r.out = k.out
      /\ r.phase = k.phase /\ r.left = l /\ r.close = b
  BY FieldNames DEF Typed, Taking, SameSocket
<1> QED BY <1>1, <1>2

\* The fields that handle_head sets for every request.
ParsedAs(k, o, b) ==
    [k EXCEPT !.close = b, !.op = o]

\* Their values.
LEMMA ParsedFields ==
    ASSUME NEW k, Typed(k), NEW o \in TypeOf("op"), NEW b \in TypeOf("close"), NEW r,
           r = ParsedAs(k, o, b)
    PROVE  /\ Typed(r) /\ SameSocket(k, r) /\ r.out = k.out
           /\ r.phase = k.phase /\ r.close = b
<1>1. Typed(r)
  BY FieldTypes, FieldNames DEF Typed, ParsedAs
<1>2. /\ SameSocket(k, r) /\ r.out = k.out
      /\ r.phase = k.phase /\ r.close = b
  BY FieldNames DEF Typed, ParsedAs, SameSocket
<1> QED BY <1>1, <1>2

\* The fields that handle_head sets when a session takes the body.
Receiving(k, l, b) ==
    [k EXCEPT !.phase = "body", !.session = "open", !.left = l, !.cont = b]

\* Their values.
LEMMA ReceivingFields ==
    ASSUME NEW k, Typed(k), NEW l \in TypeOf("left"), NEW b \in TypeOf("cont"), NEW r,
           r = Receiving(k, l, b)
    PROVE  /\ Typed(r) /\ SameSocket(k, r) /\ r.out = k.out
           /\ r.phase = "body" /\ r.left = l /\ r.close = k.close
<1>1. Typed(r)
  BY FieldTypes, FieldNames, ZenonT(40) DEF Typed, Receiving, Phases, Sessions
<1>2. /\ SameSocket(k, r) /\ r.out = k.out
      /\ r.phase = "body" /\ r.left = l /\ r.close = k.close
  BY FieldNames DEF Typed, Receiving, SameSocket
<1> QED BY <1>1, <1>2

\* Streams with the same tokens.
LEMMA StreamsEqual ==
    ASSUME NEW T, NEW p \in Seq(T), NEW q \in Seq(T), NEW n, Len(p) = n, Len(q) = n,
           \A j \in 1 .. n : p[j] = q[j]
    PROVE  p = q
OBVIOUS

\* The answers of the service: the error closes the connection.
LEMMA AnswersReached ==
    ASSUME NEW k, Typed(k), Flow(Done(k), Unread(k)), k.close \/ AtStart(Unread(k), 0),
           NEW r \in Answers(k)
    PROVE  Reached(r)
<1>1. PICK s \in {200, 500}, c \in BOOLEAN : r = queue_response(k, s, c)
  BY AnswersAre
<1>2. s \in Statuses
  BY Ranges
<1> QED BY <1>1, <1>2, QueueReached


\* ingest_body, in a stream of which n tokens have just been read.
LEMMA IngestBodyReached ==
    ASSUME NEW k, Typed(k), k.phase = "body", k.out = "go",
           NEW s \in Seq(Tokens), NEW n \in 0 .. Len(s), Unread(k) = Rest(s, n),
           NEW x, Place("body", x, k.left, k.close, Done(k), s),
           NEW bytes \in Seq(Tokens), Len(bytes) = n, NEW r \in ingest_body(k, bytes)
    PROVE  Reached(r)
<1> DEFINE m == IF Len(bytes) < k.left THEN Len(bytes) ELSE k.left
           b == k.close \/ m < Len(bytes)
           rest == [k EXCEPT !.left = @ - m, !.close = @ \/ m < Len(bytes)]
           failed == [rest EXCEPT !.session = "failed"]
           finished == [rest EXCEPT !.session = "finished"]
<1>1. k.left \in Nat /\ k.close \in BOOLEAN
  BY UnreadType
<1>2. m \in Nat /\ k.left - m \in Nat /\ b \in BOOLEAN
  BY <1>1
<1>3. \/ r \in abort_session(k, 400)
      \/ rest.left # 0 /\ r = rest
      \/ rest.left = 0 /\ r \in finish_body(rest)
      \/ r \in {queue_response(failed, 400, FALSE), Panic(rest)}
  BY DEF ingest_body
<1>4. rest = Taking(k, k.left - m, b)
  BY DEF Taking
<1>5. /\ Place("body", rest.active, k.left - m, b, Done(k), Unread(k))
      /\ k.left - m = 0 => Place("response", rest.active, 0, b, Done(k), Unread(k))
  <2>1. m = (IF n < k.left THEN n ELSE k.left) /\ b = (k.close \/ m < n)
    OBVIOUS
  <2> HIDE DEF m, b, rest
  <2>2. /\ Place("body", rest.active, k.left - m, k.close \/ m < n, Done(k), Rest(s, n))
        /\ k.left - m = 0 =>
             Place("response", rest.active, 0, k.close \/ m < n, Done(k), Rest(s, n))
    BY <1>1, <2>1, BodyTaken
  <2> QED BY <2>1, <2>2
<1> HIDE DEF m, b, rest
<1>6. /\ Typed(rest) /\ SameSocket(k, rest) /\ rest.out = k.out
      /\ rest.phase = k.phase /\ rest.left = k.left - m /\ rest.close = b
  <2>1. k.left - m \in TypeOf("left") /\ b \in TypeOf("close")
    BY <1>2, FieldTypes
  <2> QED BY <1>4, <2>1, LeftFields
<1>7. rest.phase = "body" /\ rest.out = "go"
  BY <1>6
<1>8. Unread(rest) = Unread(k) /\ Done(rest) = Done(k)
  BY <1>6, SocketSame
<1>9. Flow(Done(rest), Unread(rest)) /\ Flow(Done(k), Unread(k))
  BY <1>5, <1>8 DEF Place
<1>10. 400 \in Statuses /\ "failed" \in Sessions /\ "finished" \in Sessions
  BY Ranges
<1>11. CASE r \in abort_session(k, 400)
  BY <1>9, <1>10, <1>11, AbortReached
<1>12. CASE r = rest
  BY <1>5, <1>6, <1>7, <1>8, <1>9, <1>12 DEF Reached, InPlace
<1>13. CASE rest.left = 0 /\ r \in finish_body(rest)
  <2>1. r \in Answers(finished) \cup {Panic(rest)}
    BY <1>13 DEF finish_body
  <2>2. Typed(finished) /\ SameSocket(rest, finished) /\ finished.close = rest.close
    BY <1>6, <1>10, SessionEndsSocket
  <2>3. finished.close \/ AtStart(Unread(k), 0)
    BY <1>5, <1>6, <1>13, <2>2 DEF Place
  <2> HIDE DEF finished
  <2>4. Unread(finished) = Unread(k) /\ Done(finished) = Done(k)
    BY <1>8, <2>2, SocketSame
  <2>5. r \in Answers(finished) => Reached(r)
    BY <1>9, <2>2, <2>3, <2>4, AnswersReached
  <2> QED BY <1>6, <1>9, <2>1, <2>5, PanicReached
<1>14. CASE r = queue_response(failed, 400, FALSE)
  <2>1. Typed(failed) /\ SameSocket(rest, failed)
    BY <1>6, <1>10, SessionEndsSocket
  <2> HIDE DEF failed
  <2>2. Unread(failed) = Unread(rest) /\ Done(failed) = Done(rest)
    BY <2>1, SocketSame
  <2>3. 400 >= 400
    OBVIOUS
  <2> QED BY <1>9, <1>10, <1>14, <2>1, <2>2, <2>3, QueueReached
<1>15. CASE r = Panic(rest)
  BY <1>6, <1>9, <1>15, PanicReached
<1> QED BY <1>3, <1>11, <1>12, <1>13, <1>14, <1>15

\* handle_head, in a stream of which n tokens have just been read, the i-th of them
\* the end of the head.
LEMMA HeadReached ==
    ASSUME NEW k, Typed(k), k.out = "go",
           NEW s \in Seq(Tokens), NEW n \in 0 .. Len(s), Unread(k) = Rest(s, n),
           Flow(Done(k), s), NEW i \in 1 .. n, s[i].t = "head",
           NEW remainder \in Seq(Tokens), Len(remainder) = n - i,
           NEW r \in handle_head(k, s[i].req, remainder)
    PROVE  Reached(r)
<1> DEFINE req == s[i].req
           parsed == [k EXCEPT !.close = req.close, !.op = req.op]
           unread == Len(req.body) # 0 \/ remainder # <<>>
           answered == [parsed EXCEPT !.close = @ \/ unread]
           left == Len(req.body)
           cont == (req.expect = "continue")
           receiving == [parsed EXCEPT !.phase = "body", !.session = "open",
                                       !.left = left, !.cont = cont]
<1>1. /\ req.op \in Operations /\ req.close \in BOOLEAN /\ left \in Nat /\ cont \in BOOLEAN
      /\ i \in 1 .. Len(s)
  BY HeadToken, BodyLength
<1>2. \/ r \in {queue_response(parsed, 417, FALSE), queue_response(parsed, 413, FALSE)}
      \/ r \in Answers(answered)
      \/ r = Panic(parsed)
      \/ remainder = <<>> /\ r = receiving
      \/ r \in ingest_body(receiving, remainder)
  BY DEF handle_head
<1>3. Place("body", TRUE, left, req.close, Done(k), Rest(s, i))
  BY <1>1, EntityBegins
<1>4. Flow(Done(k), Unread(k))
  BY RestFlows
<1>5. /\ Rest(s, i) \in Seq(Tokens) /\ n - i \in 0 .. Len(Rest(s, i))
      /\ Rest(Rest(s, i), n - i) = Rest(s, n)
  <2>1. Len(s) \in Nat /\ i \in 0 .. Len(s)
    BY <1>1
  <2>2. /\ Rest(s, i) \in Seq(Tokens) /\ Len(Rest(s, i)) = Len(s) - i
        /\ \A j \in 1 .. Len(s) - i : Rest(s, i)[j] = s[i + j]
    BY <2>1, RestTokens
  <2>3. n - i \in 0 .. Len(Rest(s, i))
    BY <2>1, <2>2
  <2>4. /\ Rest(Rest(s, i), n - i) \in Seq(Tokens)
        /\ Len(Rest(Rest(s, i), n - i)) = (Len(s) - i) - (n - i)
        /\ \A j \in 1 .. (Len(s) - i) - (n - i) :
              Rest(Rest(s, i), n - i)[j] = Rest(s, i)[(n - i) + j]
    BY <2>2, <2>3, RestTokens, SMTT(40)
  <2>5. /\ Rest(s, n) \in Seq(Tokens) /\ Len(Rest(s, n)) = Len(s) - n
        /\ \A j \in 1 .. Len(s) - n : Rest(s, n)[j] = s[n + j]
    BY RestTokens
  <2>6. ASSUME NEW j \in 1 .. Len(s) - n
        PROVE  Rest(Rest(s, i), n - i)[j] = Rest(s, n)[j]
    <3>1. /\ j \in 1 .. (Len(s) - i) - (n - i) /\ (n - i) + j \in 1 .. Len(s) - i
          /\ i + ((n - i) + j) = n + j
      BY <2>1
    <3>2. Rest(s, i)[(n - i) + j] = s[n + j]
      BY <2>2, <3>1
    <3> QED BY <2>4, <2>5, <3>1, <3>2
  <2>7. (Len(s) - i) - (n - i) = Len(s) - n
    BY <2>1
  <2>8. Rest(Rest(s, i), n - i) = Rest(s, n)
    BY <2>4, <2>5, <2>6, <2>7, StreamsEqual
  <2> QED BY <2>2, <2>3, <2>8
<1> HIDE DEF left, cont, req
<1>6. /\ Typed(parsed) /\ SameSocket(k, parsed) /\ parsed.out = k.out
      /\ parsed.phase = k.phase /\ parsed.close = req.close
  <2>1. req.op \in TypeOf("op") /\ req.close \in TypeOf("close")
    BY <1>1, FieldTypes
  <2>2. parsed = ParsedAs(k, req.op, req.close)
    BY DEF ParsedAs
  <2> HIDE DEF parsed
  <2> QED BY <2>1, <2>2, ParsedFields
<1> HIDE DEF parsed
<1>7. parsed.out = "go"
  BY <1>6
<1>8. Unread(parsed) = Unread(k) /\ Done(parsed) = Done(k)
  BY <1>6, SocketSame
<1>9. CASE r \in {queue_response(parsed, 417, FALSE), queue_response(parsed, 413, FALSE)}
  <2>1. 417 \in Statuses /\ 413 \in Statuses
    BY Ranges
  <2>2. 417 >= 400 /\ 413 >= 400
    OBVIOUS
  <2>3. Reached(queue_response(parsed, 417, FALSE))
    BY <1>4, <1>6, <1>8, <2>1, <2>2, QueueReached
  <2>4. Reached(queue_response(parsed, 413, FALSE))
    BY <1>4, <1>6, <1>8, <2>1, <2>2, QueueReached
  <2> QED BY <1>9, <2>3, <2>4
<1>10. CASE r = Panic(parsed)
  BY <1>4, <1>6, <1>8, <1>10, PanicReached
<1>11. CASE r \in Answers(answered)
  <2> DEFINE b == parsed.close \/ unread
  <2>1. answered = [parsed EXCEPT !.close = b] /\ b \in BOOLEAN
    OBVIOUS
  <2>2. b \/ AtStart(Unread(k), 0)
    <3> SUFFICES ASSUME ~b PROVE AtStart(Unread(k), 0)
      OBVIOUS
    <3>1. left = 0 /\ Len(remainder) = 0 /\ ~req.close
      BY <1>6 DEF left
    <3>2. i = n
      BY <3>1
    <3> QED BY <1>3, <3>1, <3>2 DEF Place
  <2> HIDE DEF b, answered
  <2>3. Typed(answered)
    BY <1>6, <2>1, FieldTypes, FieldNames DEF Typed
  <2>4. SameSocket(parsed, answered) /\ answered.close = b
    BY <1>6, <2>1, FieldNames DEF Typed, SameSocket
  <2>5. Unread(answered) = Unread(k) /\ Done(answered) = Done(k)
    BY <1>8, <2>4, SocketSame
  <2> QED BY <1>4, <1>11, <2>2, <2>3, <2>4, <2>5, AnswersReached
<1>12. /\ Typed(receiving) /\ SameSocket(parsed, receiving) /\ receiving.phase = "body"
       /\ receiving.out = "go" /\ receiving.left = left /\ receiving.close = req.close
  <2>1. left \in TypeOf("left") /\ cont \in TypeOf("cont")
    BY <1>1, FieldTypes
  <2>2. receiving = Receiving(parsed, left, cont)
    BY DEF Receiving
  <2> HIDE DEF receiving
  <2>3. /\ Typed(receiving) /\ SameSocket(parsed, receiving) /\ receiving.out = parsed.out
        /\ receiving.phase = "body" /\ receiving.left = left
        /\ receiving.close = parsed.close
    BY <1>6, <2>1, <2>2, ReceivingFields
  <2> QED BY <1>6, <1>7, <2>3
<1> HIDE DEF receiving
<1>13. Unread(receiving) = Rest(s, n) /\ Done(receiving) = Done(k)
  BY <1>8, <1>12, SocketSame
<1>14. CASE remainder = <<>> /\ r = receiving
  <2>1. i = n
    BY <1>14
  <2>2. Place("body", receiving.active, left, req.close, Done(k), Rest(s, n))
    BY <1>3, <2>1 DEF Place
  <2>3. InPlace(receiving)
    BY <1>12, <1>13, <2>2 DEF InPlace
  <2>4. receiving.out = "go" /\ Flow(Done(receiving), Unread(receiving))
    BY <1>12, <2>3 DEF InPlace, Place
  <2> QED BY <1>14, <2>3, <2>4 DEF Reached
<1>15. CASE r \in ingest_body(receiving, remainder)
  <2>1. Place("body", TRUE, receiving.left, receiving.close, Done(receiving), Rest(s, i))
    BY <1>3, <1>12, <1>13
  <2>2. Unread(receiving) = Rest(Rest(s, i), n - i)
    BY <1>5, <1>13
  <2> QED BY <1>5, <1>12, <1>15, <2>1, <2>2, IngestBodyReached
<1> QED BY <1>2, <1>9, <1>10, <1>11, <1>14, <1>15, ZenonT(40)


\* ingest, in a stream of which n tokens have just been read; active tells whether the
\* head had begun before.
LEMMA IngestReached ==
    ASSUME NEW k, Typed(k), k.phase \in {"head", "body"}, k.active, k.out = "go",
           NEW s \in Seq(Tokens), NEW n \in 1 .. Len(s), Unread(k) = Rest(s, n),
           NEW active \in BOOLEAN, Place(k.phase, active, k.left, k.close, Done(k), s),
           NEW bytes \in Seq(Tokens), Len(bytes) = n, \A j \in 1 .. n : bytes[j] = s[j],
           NEW r \in ingest(k, bytes)
    PROVE  Reached(r)
<1>1. n \in 0 .. Len(s) /\ Len(s) \in Nat
  OBVIOUS
<1>2. CASE k.phase = "body"
  <2>1. r \in ingest_body(k, bytes)
    BY <1>2 DEF ingest
  <2>2. Place("body", active, k.left, k.close, Done(k), s)
    BY <1>2
  <2> QED BY <1>1, <1>2, <2>1, <2>2, IngestBodyReached
<1>3. CASE k.phase = "head"
  <2>1. PICK i : i = SelectInSeq(bytes, LAMBDA tok : tok.t # "part")
    OBVIOUS
  <2>2. \/ i = 0 /\ r = k
        \/ r = queue_response(k, 400, FALSE)
        \/ /\ i # 0 /\ bytes[i].t = "head"
           /\ r \in handle_head(k, bytes[i].req, SubSeq(bytes, i + 1, Len(bytes)))
    BY <1>3, <2>1 DEF ingest
  <2>3. /\ i = 0 => \A j \in 1 .. Len(bytes) : bytes[j].t = "part"
        /\ i # 0 => i \in 1 .. Len(bytes)
    BY <2>1, FirstNonPart
  <2>4. Flow(Done(k), s) /\ Flow(Done(k), Unread(k))
    BY <1>1, RestFlows DEF Place
  <2>5. CASE i = 0 /\ r = k
    <3>1. Place("head", active, k.left, k.close, Done(k), s)
      BY <1>3
    <3>2. \A j \in 1 .. n : s[j].t = "part"
      BY <2>3, <2>5
    <3>3. Place("head", TRUE, k.left, k.close, Done(k), Rest(s, n))
      BY <3>1, <3>2, PieceTaken
    <3>4. InPlace(k)
      <4>1. k.active = TRUE
        BY UnreadType
      <4> QED BY <1>3, <3>3, <4>1 DEF InPlace
    <3> QED BY <2>4, <2>5, <3>4 DEF Reached
  <2>6. CASE r = queue_response(k, 400, FALSE)
    <3>1. 400 \in Statuses /\ 400 >= 400
      BY Ranges
    <3> QED BY <2>4, <2>6, <3>1, QueueReached
  <2>7. CASE /\ i # 0 /\ bytes[i].t = "head"
             /\ r \in handle_head(k, bytes[i].req, SubSeq(bytes, i + 1, Len(bytes)))
    <3> DEFINE remainder == SubSeq(bytes, i + 1, Len(bytes))
    <3>1. i \in 1 .. n /\ bytes[i] = s[i]
      BY <2>3, <2>7
    <3>2. remainder \in Seq(Tokens) /\ Len(remainder) = n - i
      BY <3>1
    <3>3. r \in handle_head(k, s[i].req, remainder) /\ s[i].t = "head"
      BY <2>7, <3>1
    <3> HIDE DEF remainder
    <3> QED BY <1>1, <2>4, <3>1, <3>2, <3>3, HeadReached
  <2> QED BY <2>2, <2>5, <2>6, <2>7
<1> QED BY <1>2, <1>3

\* A stage that sets the outcome, writes, or resets the clock.
LEMMA TurnReached ==
    ASSUME NEW k, Reached(k), k.out = "go", NEW r, SameSocket(k, r),
           r.phase = k.phase, r.active = k.active, r.left = k.left, r.close = k.close,
           r.out = "complete" => r.phase = "response"
    PROVE  Reached(r)
<1>1. Unread(r) = Unread(k) /\ Done(r) = Done(k)
  BY SocketSame
<1>2. Place(k.phase, k.active, k.left, k.close, Done(k), Unread(k))
  BY DEF Reached, InPlace
<1>3. Flow(Done(k), Unread(k))
  BY <1>2 DEF Place
<1> QED BY <1>1, <1>2, <1>3 DEF Reached, InPlace

\* Outcomes.
LEMMA OutReached ==
    ASSUME NEW k, Typed(k), Reached(k), k.out = "go", NEW o \in Outcomes, o # "complete"
    PROVE  Reached([k EXCEPT !.out = o])
<1> DEFINE r == [k EXCEPT !.out = o]
<1>1. /\ SameSocket(k, r) /\ r.phase = k.phase /\ r.active = k.active /\ r.left = k.left
      /\ r.close = k.close /\ r.out = o
  BY FieldNames DEF Typed, SameSocket
<1> HIDE DEF r
<1>2. Reached(r)
  BY <1>1, TurnReached
<1> QED BY <1>2 DEF r

\* drive_timeout.
LEMMA TimeoutReached ==
    ASSUME NEW k, Typed(k), Reached(k), k.out = "go", NEW r \in drive_timeout(k)
    PROVE  Reached(r)
<1>1. CASE r = k
  BY <1>1
<1>2. CASE r = [k EXCEPT !.out = "closed"]
  <2>1. "closed" \in Outcomes
    BY Ranges
  <2> QED BY <1>2, <2>1, OutReached
<1>3. CASE k.phase = "response" /\ r = [k EXCEPT !.out = "complete", !.close = TRUE]
  <2>1. /\ SameSocket(k, r) /\ r.phase = k.phase /\ r.active = k.active /\ r.left = k.left
        /\ r.close = TRUE
    BY <1>3, FieldNames DEF Typed, SameSocket
  <2>2. Unread(r) = Unread(k) /\ Done(r) = Done(k) /\ Flow(Done(k), Unread(k))
    BY <2>1, SocketSame DEF Reached
  <2>3. Place("response", r.active, r.left, TRUE, Done(k), Unread(k))
    BY <2>2 DEF Place
  <2>4. InPlace(r)
    BY <1>3, <2>1, <2>2, <2>3 DEF InPlace
  <2> QED BY <1>3, <2>1, <2>2, <2>4 DEF Reached
<1>4. ASSUME NEW a \in abort_session(k, 408), NEW b \in BOOLEAN, r = [a EXCEPT !.idle = b],
             Typed(a)
      PROVE  Reached(r)
  <2>1. 408 \in Statuses /\ 408 >= 400 /\ Flow(Done(k), Unread(k))
    BY Ranges DEF Reached
  <2>2. Reached(a)
    BY <2>1, AbortReached
  <2>3. /\ r.wire = a.wire /\ r.todo = a.todo /\ r.eof = a.eof /\ r.broken = a.broken
        /\ r.phase = a.phase /\ r.active = a.active /\ r.left = a.left /\ r.close = a.close
        /\ r.out = a.out
    BY <1>4, FieldNames DEF Typed
  <2> QED BY <2>2, <2>3 DEF Reached, InPlace, Unread, Done
<1>5. \/ r = k \/ r = [k EXCEPT !.out = "closed"]
      \/ k.phase = "response" /\ r = [k EXCEPT !.out = "complete", !.close = TRUE]
      \/ \E a \in abort_session(k, 408) : r = [a EXCEPT !.idle = (k.phase = "body")]
  BY DEF drive_timeout
<1>6. ASSUME NEW a \in abort_session(k, 408) PROVE Typed(a)
  <2> DEFINE k1 == [k EXCEPT !.session = "aborted"]
  <2>1. a \in {queue_response(k1, 408, FALSE), Panic(k), queue_response(k, 408, FALSE)}
    BY <1>6 DEF abort_session
  <2>2. Typed(k1) /\ 408 \in Statuses
    BY SessionEndsSocket, Ranges
  <2> HIDE DEF k1
  <2>3. Typed(queue_response(k1, 408, FALSE)) /\ Typed(queue_response(k, 408, FALSE))
    BY <2>2, QueueFields
  <2>4. Typed(Panic(k))
    BY FieldTypes, FieldNames, Ranges DEF Panic, Typed
  <2> QED BY <2>1, <2>3, <2>4
<1> QED BY <1>1, <1>2, <1>3, <1>4, <1>5, <1>6

\* drive_continue.
LEMMA ContinueReached ==
    ASSUME NEW k, Typed(k), Reached(k), k.out = "go", NEW r \in drive_continue(k)
    PROVE  Reached(r)
<1>1. CASE r = k
  BY <1>1
<1>2. ASSUME NEW o \in {"ioerror", "pending"}, r = [k EXCEPT !.out = o]
      PROVE  Reached(r)
  <2>1. o \in Outcomes
    BY Ranges
  <2> QED BY <1>2, <2>1, OutReached
<1>3. CASE r = [k EXCEPT !.cont = FALSE, !.written = TRUE, !.idle = FALSE]
  <2>1. /\ SameSocket(k, r) /\ r.phase = k.phase /\ r.active = k.active /\ r.left = k.left
        /\ r.close = k.close /\ r.out = k.out
    BY <1>3, FieldNames DEF Typed, SameSocket
  <2> QED BY <2>1, TurnReached
<1>4. \/ r = k \/ r = [k EXCEPT !.out = "ioerror"] \/ r = [k EXCEPT !.out = "pending"]
      \/ r = [k EXCEPT !.cont = FALSE, !.written = TRUE, !.idle = FALSE]
  BY DEF drive_continue
<1> QED BY <1>1, <1>2, <1>3, <1>4

\* drive_write.
LEMMA WriteReached ==
    ASSUME NEW k, Typed(k), Reached(k), k.out = "go", NEW r \in drive_write(k)
    PROVE  Reached(r)
<1>1. ASSUME NEW o \in {"ioerror", "pending"}, r = [k EXCEPT !.out = o]
      PROVE  Reached(r)
  <2>1. o \in Outcomes
    BY Ranges
  <2> QED BY <1>1, <2>1, OutReached
<1>2. CASE k.phase = "response" /\ r = [k EXCEPT !.written = TRUE, !.out = "complete"]
  <2>1. /\ SameSocket(k, r) /\ r.phase = k.phase /\ r.active = k.active /\ r.left = k.left
        /\ r.close = k.close
    BY <1>2, FieldNames DEF Typed, SameSocket
  <2> QED BY <1>2, <2>1, TurnReached
<1>3. \/ r = [k EXCEPT !.out = "ioerror"] \/ r = [k EXCEPT !.out = "pending"]
      \/ k.phase = "response" /\ r = [k EXCEPT !.written = TRUE, !.out = "complete"]
  BY DEF drive_write
<1> QED BY <1>1, <1>2, <1>3


\* A stream s in two pieces, token by token.
IsJoined(T, p, q, s) ==
    /\ s \in Seq(T) /\ Len(p) \in Nat /\ Len(q) \in Nat /\ Len(s) = Len(p) + Len(q)
    /\ \A j \in 1 .. Len(p) : s[j] = p[j]
    /\ \A j \in 1 .. Len(q) : s[Len(p) + j] = q[j]

\* Concatenation is that.
LEMMA JoinedTokens ==
    ASSUME NEW T, NEW p \in Seq(T), NEW q \in Seq(T)
    PROVE  IsJoined(T, p, q, p \o q)
<1>1. p \o q \in Seq(T) /\ Len(p) \in Nat /\ Len(q) \in Nat
  OBVIOUS
<1>2. Len(p \o q) = Len(p) + Len(q)
  OBVIOUS
<1>3. \A j \in 1 .. Len(p) : (p \o q)[j] = p[j]
  OBVIOUS
<1>4. \A j \in 1 .. Len(q) : (p \o q)[Len(p) + j] = q[j]
  OBVIOUS
<1> QED BY <1>1, <1>2, <1>3, <1>4 DEF IsJoined

\* A read takes the first n tokens of what has arrived, and they are the first of the
\* stream.
Slices(T, p, q, n, s) ==
    /\ n \in 1 .. Len(s)
    /\ First(p, n) \in Seq(T) /\ Len(First(p, n)) = n
    /\ \A j \in 1 .. n : First(p, n)[j] = s[j]
    /\ Rest(p, n) \in Seq(T) /\ Rest(p, n) \o q = Rest(s, n)

\* SubSeq does that.
LEMMA ReadSlices ==
    ASSUME NEW T, NEW p \in Seq(T), NEW q \in Seq(T), NEW n \in 1 .. Len(p), NEW s,
           s = p \o q
    PROVE  Slices(T, p, q, n, s)
<1> DEFINE w == Rest(p, n)
           b == First(p, n)
           P == Len(p)
           Q == Len(q)
           L == Len(s)
<1>1. /\ s \in Seq(T) /\ P \in Nat /\ Q \in Nat /\ L = P + Q
      /\ \A j \in 1 .. P : s[j] = p[j]
      /\ \A j \in 1 .. Q : s[P + j] = q[j]
  BY JoinedTokens DEF IsJoined
<1>2. b \in Seq(T) /\ Len(b) = n /\ \A j \in 1 .. n : b[j] = p[j]
  BY DEF First
<1>3. n \in 0 .. P /\ n \in 1 .. P
  OBVIOUS
<1>4. w \in Seq(T) /\ Len(w) = P - n /\ \A j \in 1 .. P - n : w[j] = p[n + j]
  BY <1>3, RestTokens
<1> DEFINE v == w \o q
<1>5. IsJoined(T, w, q, v)
  <2> HIDE DEF w
  <2> QED BY <1>4, JoinedTokens
<1> HIDE DEF v
<1>6. /\ v \in Seq(T) /\ Len(v) = Len(w) + Q
      /\ \A j \in 1 .. Len(w) : v[j] = w[j]
      /\ \A j \in 1 .. Q : v[Len(w) + j] = q[j]
  <2> HIDE DEF w
  <2> QED BY <1>5 DEF Q, IsJoined
<1> HIDE DEF w, b, P, Q, L
<1>7. n \in 1 .. L /\ n \in 0 .. L
  BY <1>1, <1>3
<1>8. ASSUME NEW j \in 1 .. n PROVE b[j] = s[j]
  <2>1. j \in 1 .. P
    BY <1>1, <1>3
  <2> QED BY <1>1, <1>2, <2>1
<1>9. /\ Rest(s, n) \in Seq(T) /\ Len(Rest(s, n)) = L - n
      /\ \A j \in 1 .. L - n : Rest(s, n)[j] = s[n + j]
  BY <1>1, <1>7, RestTokens, ZenonT(40) DEF L
<1>10. Len(v) = L - n
  BY <1>1, <1>3, <1>4, <1>6
<1>11. ASSUME NEW j \in 1 .. L - n PROVE v[j] = Rest(s, n)[j]
  <2>1. CASE j <= P - n
    <3>1. j \in 1 .. P - n /\ n + j \in 1 .. P
      BY <1>1, <1>3, <2>1
    <3> QED BY <1>1, <1>4, <1>6, <1>9, <3>1
  <2>2. CASE j > P - n
    <3>1. j - (P - n) \in 1 .. Q
      BY <1>1, <1>3, <2>2
    <3>2. PICK i \in 1 .. Q : i = j - (P - n)
      BY <3>1
    <3>3. j = (P - n) + i /\ n + j = P + i
      BY <1>1, <1>3, <3>2
    <3>4. v[j] = q[i]
      <4>1. j = Len(w) + i
        BY <1>4, <3>3
      <4> QED BY <1>6, <4>1
    <3>5. Rest(s, n)[j] = q[i]
      BY <1>1, <1>9, <3>2, <3>3
    <3> QED BY <3>4, <3>5
  <2>3. j <= P - n \/ j > P - n
    BY <1>1, <1>3
  <2> QED BY <2>1, <2>2, <2>3
<1>12. v = Rest(s, n)
  BY <1>6, <1>9, <1>10, <1>11, StreamsEqual
<1> QED BY <1>2, <1>4, <1>7, <1>8, <1>12 DEF b, w, v, L, Slices

\* drive_read: a prefix of what has arrived leaves the stream.
LEMMA ReadReached ==
    ASSUME NEW k, Typed(k), Reached(k), k.out = "go", NEW r \in drive_read(k)
    PROVE  Reached(r)
<1>1. CASE r = k
  BY <1>1
<1>2. ASSUME NEW o \in {"ioerror", "closed"}, r = [k EXCEPT !.out = o]
      PROVE  Reached(r)
  <2>1. o \in Outcomes
    BY Ranges
  <2> QED BY <1>2, <2>1, OutReached
<1>3. CASE r \in abort_session(k, 400)
  <2>1. 400 \in Statuses /\ 400 >= 400 /\ Flow(Done(k), Unread(k))
    BY Ranges DEF Reached
  <2> QED BY <1>3, <2>1, AbortReached
<1>4. ASSUME NEW n \in DOMAIN k.wire, k.phase \in {"head", "body"},
             r \in ingest([k EXCEPT !.wire = SubSeq(@, n + 1, Len(@)),
                                    !.active = TRUE, !.started = @ \/ ~k.active,
                                    !.idle = FALSE],
                          SubSeq(k.wire, 1, n))
      PROVE  Reached(r)
  <2> DEFINE w == SubSeq(k.wire, n + 1, Len(k.wire))
             b == k.started \/ ~k.active
             a == [k EXCEPT !.wire = w, !.active = TRUE, !.started = b, !.idle = FALSE]
             bytes == SubSeq(k.wire, 1, n)
             s == Unread(k)
  <2>1. r \in ingest(a, bytes)
    BY <1>4
  <2>2. /\ k.wire \in Seq(Tokens) /\ k.todo \in Seq(Tokens) /\ k.active \in BOOLEAN
        /\ s \in Seq(Tokens)
    BY UnreadType
  <2>3. n \in 1 .. Len(k.wire) /\ s = k.wire \o k.todo
    BY <1>4, <2>2 DEF Unread
  <2>8. Slices(Tokens, k.wire, k.todo, n, s)
    <3> HIDE DEF s
    <3> QED BY <2>2, <2>3, ReadSlices
  <2>4. w \in Seq(Tokens) /\ w \o k.todo = Rest(s, n)
    <3>1. w = Rest(k.wire, n)
      BY DEF Rest
    <3> HIDE DEF s, w
    <3> QED BY <2>8, <3>1 DEF Slices
  <2>5. bytes \in Seq(Tokens) /\ Len(bytes) = n /\ \A j \in 1 .. n : bytes[j] = s[j]
    <3>1. bytes = First(k.wire, n)
      BY DEF First
    <3> HIDE DEF s, bytes
    <3> QED BY <2>8, <3>1 DEF Slices
  <2>6. n \in 1 .. Len(s)
    <3> HIDE DEF s
    <3> QED BY <2>8 DEF Slices
  <2>7. b \in BOOLEAN
    OBVIOUS
  <2> HIDE DEF w, b, bytes, s
  <2>9. Typed(a)
    BY <2>4, <2>7, FieldTypes, FieldNames, ZenonT(40) DEF Typed
  <2>10. /\ a.wire = w /\ a.todo = k.todo /\ a.eof = k.eof /\ a.broken = k.broken
         /\ a.active = TRUE /\ a.phase = k.phase /\ a.left = k.left /\ a.close = k.close
         /\ a.out = "go"
    BY FieldNames DEF Typed
  <2> HIDE DEF a
  <2>11. Unread(a) = Rest(s, n) /\ Done(a) = Done(k)
    BY <2>4, <2>10 DEF Unread, Done
  <2>12. Place(a.phase, k.active, a.left, a.close, Done(a), s)
    BY <2>10, <2>11 DEF Reached, InPlace, s
  <2>13. a.phase \in {"head", "body"} /\ a.active /\ a.out = "go"
    BY <1>4, <2>10
  <2> QED BY <2>1, <2>2, <2>5, <2>6, <2>9, <2>11, <2>12, <2>13, IngestReached
<1>5. \/ r = k
      \/ r = [k EXCEPT !.out = "ioerror"]
      \/ r = [k EXCEPT !.out = "closed"]
      \/ r \in abort_session(k, 400)
      \/ /\ k.phase \in {"head", "body"}
         /\ \E n \in DOMAIN k.wire :
                r \in ingest([k EXCEPT !.wire = SubSeq(@, n + 1, Len(@)),
                                       !.active = TRUE, !.started = @ \/ ~k.active,
                                       !.idle = FALSE],
                             SubSeq(k.wire, 1, n))
  BY ZenonT(40) DEF drive_read
<1> QED BY <1>1, <1>2, <1>3, <1>4, <1>5


\* The stages keep the place, whatever they read.
LEMMA StagesReached ==
    ASSUME NEW k0, Driven(k0, k0), k0.out = "go", Reached(k0), NEW r \in Stages(k0)
    PROVE  Reached(r)
<1>1. PICK x1 \in drive_timeout(k0) : \E x2, x3, x4 :
        /\ IF x1.out = "go" THEN x2 \in drive_continue(x1) ELSE x2 = x1
        /\ IF x2.out = "go" THEN x3 \in drive_read(x2) ELSE x3 = x2
        /\ IF x3.out = "go" THEN x4 \in drive_continue(x3) ELSE x4 = x3
        /\ IF x4.out = "go" THEN r \in drive_write(x4) ELSE r = x4
  BY StagesAre
<1>2. PICK x2, x3, x4 :
        /\ IF x1.out = "go" THEN x2 \in drive_continue(x1) ELSE x2 = x1
        /\ IF x2.out = "go" THEN x3 \in drive_read(x2) ELSE x3 = x2
        /\ IF x3.out = "go" THEN x4 \in drive_continue(x3) ELSE x4 = x3
        /\ IF x4.out = "go" THEN r \in drive_write(x4) ELSE r = x4
  BY <1>1
<1>3. Driven(k0, x1)
  BY TimeoutDriven
<1>4. Driven(k0, x2)
  BY <1>2, <1>3, ContinueDriven
<1>5. Driven(k0, x3)
  BY <1>2, <1>4, ReadDriven
<1>6. Driven(k0, x4)
  BY <1>2, <1>5, ContinueDriven
<1>7. Typed(k0) /\ Typed(x1) /\ Typed(x2) /\ Typed(x3) /\ Typed(x4)
  BY <1>3, <1>4, <1>5, <1>6 DEF Driven
<1>8. Reached(x1)
  BY <1>7, TimeoutReached
<1>9. Reached(x2)
  BY <1>2, <1>7, <1>8, ContinueReached
<1>10. Reached(x3)
  BY <1>2, <1>7, <1>9, ReadReached
<1>11. Reached(x4)
  BY <1>2, <1>7, <1>10, ContinueReached
<1> QED BY <1>2, <1>7, <1>11, WriteReached

\* A drive keeps the place of a connection that waits, and a connection that is kept
\* after a response is at the beginning of a message.
LEMMA DriveReached ==
    ASSUME NEW k0, Driven(k0, k0), k0.out = "go", Reached(k0), NEW k \in drive(k0)
    PROVE  /\ k.out = "pending" => InPlace(k)
           /\ k.out = "complete" => k.close \/ (Flow(Done(k), Unread(k)) /\ AtStart(Unread(k), 0))
<1>1. PICK r \in Stages(k0) : Caught(r, k)
  BY DriveIsCaught
<1>2. Reached(r)
  BY StagesReached
<1>3. Typed(r)
  BY StagesDriven DEF Driven
<1>4. CASE k = r
  <2>1. k.out = "complete" => Place("response", k.active, k.left, k.close, Done(k), Unread(k))
    BY <1>2, <1>4 DEF Reached, InPlace
  <2> QED BY <1>2, <1>4, <2>1 DEF Reached, Place
<1>5. CASE k = [r EXCEPT !.out = "closed"]
  <2>1. k.out = "closed"
    BY <1>3, <1>5, FieldNames DEF Typed
  <2> QED BY <2>1
<1>6. ASSUME NEW a \in guarded_abort(r)
      PROVE  Typed(a) /\ Flow(Done(a), Unread(a))
  <2>1. CASE r.phase = "body"
    <3>1. PICK e \in {"aborted", "lost"} : a = [r EXCEPT !.session = e]
      BY <1>6, <2>1 DEF guarded_abort
    <3>2. e \in Sessions
      BY Ranges
    <3>3. Typed(a) /\ SameSocket(r, a)
      BY <1>3, <3>1, <3>2, SessionEndsSocket
    <3>4. Unread(a) = Unread(r) /\ Done(a) = Done(r)
      BY <3>3, SocketSame
    <3> QED BY <1>2, <3>3, <3>4 DEF Reached
  <2>2. CASE r.phase # "body"
    BY <1>2, <1>3, <1>6, <2>2 DEF guarded_abort, Reached
  <2> QED BY <2>1, <2>2
<1>7. ASSUME NEW a \in guarded_abort(r), k = [a EXCEPT !.out = "complete", !.close = TRUE]
      PROVE  k.out = "complete" /\ k.close = TRUE
  <2>1. Typed(a)
    BY <1>6
  <2> QED BY <1>7, <2>1, FieldNames DEF Typed
<1>8. ASSUME NEW a \in guarded_abort(r), NEW s \in Statuses, s >= 400,
             k = [queue_response(a, s, FALSE) EXCEPT !.cont = FALSE, !.out = "pending"]
      PROVE  InPlace(k) /\ k.out = "pending"
  <2> DEFINE q == queue_response(a, s, FALSE)
  <2>1. Typed(a) /\ Flow(Done(a), Unread(a))
    BY <1>6
  <2>2. Reached(q)
    BY <1>8, <2>1, QueueReached
  <2>3. Typed(q) /\ q.phase = "response"
    BY <2>1, QueueFields
  <2>4. k = [q EXCEPT !.cont = FALSE, !.out = "pending"]
    BY <1>8
  <2>5. q.close
    <3>1. q = [a EXCEPT !.phase = "response", !.status = s, !.close = a.close \/ s >= 400 \/ FALSE]
      BY DEF queue_response
    <3> HIDE DEF q
    <3> QED BY <1>8, <2>1, <3>1, FieldNames DEF Typed
  <2> HIDE DEF q
  <2>6. /\ SameSocket(q, k) /\ k.phase = q.phase /\ k.close = q.close /\ k.out = "pending"
    BY <2>3, <2>4, FieldNames DEF Typed, SameSocket
  <2>7. Unread(k) = Unread(q) /\ Done(k) = Done(q)
    BY <2>6, SocketSame
  <2>8. Flow(Done(q), Unread(q))
    BY <2>2 DEF Reached
  <2>9. Place("response", k.active, k.left, k.close, Done(q), Unread(q))
    BY <2>5, <2>6, <2>8 DEF Place
  <2> QED BY <2>3, <2>6, <2>7, <2>9 DEF InPlace
<1>9. \/ k = r \/ k = [r EXCEPT !.out = "closed"]
      \/ \E a \in guarded_abort(r) :
            \/ \E s \in Statuses :
                  /\ s >= 400
                  /\ k = [queue_response(a, s, FALSE) EXCEPT !.cont = FALSE, !.out = "pending"]
            \/ k = [a EXCEPT !.out = "complete", !.close = TRUE]
  BY <1>1, Zenon DEF Caught
<1> QED BY <1>4, <1>5, <1>7, <1>8, <1>9


\* A stream with nothing in it.
LEMMA EmptyFlows ==
    ASSUME NEW done
    PROVE  Flow(done, <<>>) /\ \A n \in Nat : AtStart(<<>>, n)
BY DEF Flow, Ordered, Whole, AtStart

\* An unused slot has an empty stream.
LEMMA FreeInPlace == InPlace(Free)
<1>1. Unread(Free) = <<>> /\ Free.phase = "free" /\ Free.eof = FALSE /\ Free.broken = FALSE
  BY DEF Unread, Free
<1>2. Flow(Done(Free), <<>>)
  BY EmptyFlows
<1>3. Place("free", Free.active, Free.left, Free.close, Done(Free), <<>>)
  BY <1>2 DEF Place
<1> QED BY <1>1, <1>3 DEF InPlace

\* The end of a loop of drive_connections: a connection that waits stays where it is,
\* one that is kept for another request is at the beginning of a message.
LEMMA SettlePlaced ==
    ASSUME NEW c \in Conns, DOMAIN conn = Conns, NEW k, Typed(k), Settle(c, k),
           k.out = "pending" => InPlace(k),
           k.out = "complete" => k.close \/ (Flow(Done(k), Unread(k)) /\ AtStart(Unread(k), 0))
    PROVE  \E n : conn' = [conn EXCEPT ![c] = n] /\ InPlace(n)
<1> DEFINE stays == [k EXCEPT !.started = FALSE, !.out = "go"]
           moved == [stays EXCEPT !.metric = IF k.active THEN k.op ELSE @]
           again == [reset_exchange(stays) EXCEPT !.active = FALSE, !.metric = InvalidRequest]
<1>1. \/ k.out = "pending" /\ conn' = [conn EXCEPT ![c] = moved]
      \/ k.out = "closed" /\ conn' = [conn EXCEPT ![c] = Free]
      \/ /\ k.out = "complete"
         /\ conn' = [conn EXCEPT ![c] = IF k.close THEN Free ELSE again]
  BY DEF Settle
<1>2. Typed(stays)
  BY FieldTypes, FieldNames DEF Typed, Outcomes
<1>3. /\ stays.wire = k.wire /\ stays.todo = k.todo /\ stays.eof = k.eof
      /\ stays.broken = k.broken /\ stays.phase = k.phase /\ stays.active = k.active
      /\ stays.left = k.left /\ stays.close = k.close
  BY FieldNames DEF Typed
<1> HIDE DEF stays
<1>4. CASE k.out = "pending" /\ conn' = [conn EXCEPT ![c] = moved]
  <2> DEFINE m == IF k.active THEN k.op ELSE stays.metric
  <2>1. moved = [stays EXCEPT !.metric = m]
    OBVIOUS
  <2> HIDE DEF m, moved
  <2>2. /\ moved.wire = stays.wire /\ moved.todo = stays.todo /\ moved.eof = stays.eof
        /\ moved.broken = stays.broken /\ moved.phase = stays.phase
        /\ moved.active = stays.active /\ moved.left = stays.left /\ moved.close = stays.close
    BY <1>2, <2>1, FieldNames DEF Typed
  <2>3. InPlace(moved)
    BY <1>3, <1>4, <2>2 DEF InPlace, Unread, Done
  <2> QED BY <1>4, <2>3
<1>5. CASE k.out = "complete" /\ ~k.close /\ conn' = [conn EXCEPT ![c] = again]
  <2> DEFINE z == reset_exchange(stays)
  <2>1. /\ Typed(z) /\ z.phase = "head"
        /\ \A f \in {"todo", "wire", "eof", "broken", "stalled", "sent", "active",
                     "started", "metric", "out"} : z[f] = stays[f]
    BY <1>2, ResetFields
  <2>2. again = [z EXCEPT !.active = FALSE, !.metric = InvalidRequest]
    OBVIOUS
  <2> HIDE DEF z, again
  <2>3. /\ z.wire = stays.wire /\ z.todo = stays.todo /\ z.eof = stays.eof
        /\ z.broken = stays.broken
    BY <2>1
  <2>4. /\ again.wire = z.wire /\ again.todo = z.todo /\ again.eof = z.eof
        /\ again.broken = z.broken /\ again.phase = z.phase /\ again.active = FALSE
    BY <2>1, <2>2, FieldNames DEF Typed
  <2>5. Unread(again) = Unread(k) /\ Done(again) = Done(k)
    BY <1>3, <2>3, <2>4 DEF Unread, Done
  <2>6. Place("head", FALSE, again.left, again.close, Done(k), Unread(k))
    BY <1>5 DEF Place
  <2>7. InPlace(again)
    BY <2>1, <2>4, <2>5, <2>6 DEF InPlace
  <2> QED BY <1>5, <2>7
<1>6. CASE conn' = [conn EXCEPT ![c] = Free]
  BY <1>6, FreeInPlace
<1> HIDE DEF moved, again
<1> QED BY <1>1, <1>4, <1>5, <1>6

\* A visit to a connection.
LEMMA DriveInPlace ==
    ASSUME WorkerInv, NEW c \in Conns, Drive(c), InPlace(conn[c])
    PROVE  \E n : conn' = [conn EXCEPT ![c] = n] /\ InPlace(n)
<1>1. PICK k \in drive(conn[c]) : Settle(c, k)
  BY DEF Drive
<1>2. Resting(conn[c]) /\ DOMAIN conn = Conns /\ Open(conn[c])
  BY DEF WorkerInv, Sockets, Drive
<1>3. Driven(conn[c], conn[c]) /\ conn[c].out = "go"
  BY <1>2 DEF Driven, Resting, Open
<1>4. Reached(conn[c])
  BY <1>3 DEF Reached, InPlace, Place
<1>5. Typed(k)
  BY <1>3, DriveDriving DEF Driving
<1>6. /\ k.out = "pending" => InPlace(k)
      /\ k.out = "complete" => k.close \/ (Flow(Done(k), Unread(k)) /\ AtStart(Unread(k), 0))
  BY <1>3, <1>4, DriveReached
<1> QED BY <1>1, <1>2, <1>5, <1>6, SettlePlaced


-----------------------------------------------------------------------------
(* What the peers do to a stream.                                          *)

\* A message that begins in the first piece, or at the seam.
LEMMA JoinStarts ==
    ASSUME NEW p \in Seq(Tokens), NEW q \in Seq(Tokens), NEW s, IsJoined(Tokens, p, q, s),
           NEW m \in 0 .. Len(p), AtStart(p, m), AtStart(q, 0)
    PROVE  AtStart(s, m)
<1> SUFFICES ASSUME Len(s) > m PROVE s[m + 1].t = "part"
  BY DEF AtStart
<1> DEFINE P == Len(p)
           Q == Len(q)
<1>1. P \in Nat /\ Q \in Nat /\ Len(s) = P + Q
  BY DEF IsJoined
<1>2. CASE m < P
  <2>1. m + 1 \in 1 .. P
    BY <1>1, <1>2
  <2>2. s[m + 1] = p[m + 1]
    BY <2>1 DEF IsJoined
  <2> QED BY <1>2, <2>2 DEF AtStart
<1>3. CASE m = P
  <2>1. 1 \in 1 .. Q /\ Q > 0
    BY <1>1, <1>3
  <2>2. s[P + 1] = q[1]
    BY <2>1 DEF IsJoined
  <2>3. q[0 + 1].t = "part"
    BY <2>1 DEF AtStart
  <2> QED BY <1>3, <2>2, <2>3
<1> QED BY <1>1, <1>2, <1>3

\* A stream of whole messages: what a peer writes at a time.
Messages(q) == Ordered(q) /\ Whole(q) /\ AtStart(q, 0)

\* More messages at the end of a stream of whole ones.
LEMMA JoinFlows ==
    ASSUME NEW p \in Seq(Tokens), NEW q \in Seq(Tokens), NEW s, IsJoined(Tokens, p, q, s),
           Ordered(p), Whole(p), Messages(q)
    PROVE  Ordered(s) /\ Whole(s)
<1> DEFINE P == Len(p)
           Q == Len(q)
           L == Len(s)
<1>1. P \in Nat /\ Q \in Nat /\ L = P + Q
  BY DEF IsJoined
<1>2. \A j \in 1 .. P : s[j] = p[j]
  BY DEF IsJoined
<1>3. \A j \in 1 .. Q : s[P + j] = q[j]
  BY DEF IsJoined
<1> HIDE DEF P, Q, L
<1>4. ASSUME NEW i \in 1 .. L
      PROVE  /\ s[i].t = "part" => i < L /\ s[i + 1].t = "head"
             /\ s[i].t = "head" => AtStart(s, i + Len(s[i].req.body)) /\ i + Len(s[i].req.body) <= L
  <2>1. CASE i <= P
    <3>1. i \in 1 .. P /\ s[i] = p[i]
      BY <1>1, <1>2, <2>1
    <3>2. ASSUME s[i].t = "part" PROVE i < L /\ s[i + 1].t = "head"
      <4>1. i < P /\ p[i + 1].t = "head"
        BY <3>1, <3>2 DEF Ordered, Whole, P
      <4>2. i + 1 \in 1 .. P
        BY <1>1, <3>1, <4>1
      <4> QED BY <1>1, <1>2, <4>1, <4>2
    <3>3. ASSUME s[i].t = "head"
          PROVE  AtStart(s, i + Len(s[i].req.body)) /\ i + Len(s[i].req.body) <= L
      <4>1. PICK b \in Nat : b = Len(p[i].req.body)
        BY <3>1, <3>3, BodyLength DEF P
      <4>2. AtStart(p, i + b) /\ i + b <= P
        BY <3>1, <3>3, <4>1 DEF Ordered, Whole, P
      <4>3. i + b \in 0 .. P
        BY <1>1, <3>1, <4>2
      <4>4. AtStart(s, i + b)
        BY <4>2, <4>3, JoinStarts DEF Messages, P
      <4> QED BY <1>1, <3>1, <4>1, <4>2, <4>4
    <3> QED BY <3>2, <3>3
  <2>2. CASE i > P
    <3>1. i - P \in 1 .. Q
      BY <1>1, <2>2
    <3>2. PICK j \in 1 .. Q : j = i - P
      BY <3>1
    <3>3. i = P + j /\ s[i] = q[j]
      BY <1>1, <1>3, <3>2
    <3>4. ASSUME s[i].t = "part" PROVE i < L /\ s[i + 1].t = "head"
      <4>1. j < Q /\ q[j + 1].t = "head"
        BY <3>3, <3>4 DEF Messages, Ordered, Whole, Q
      <4>2. j + 1 \in 1 .. Q /\ i + 1 = P + (j + 1)
        BY <1>1, <3>3, <4>1
      <4>3. s[P + (j + 1)] = q[j + 1]
        BY <1>3, <4>2
      <4> QED BY <1>1, <3>3, <4>1, <4>2, <4>3
    <3>5. ASSUME s[i].t = "head"
          PROVE  AtStart(s, i + Len(s[i].req.body)) /\ i + Len(s[i].req.body) <= L
      <4>1. PICK b \in Nat : b = Len(q[j].req.body)
        BY <3>3, <3>5, BodyLength DEF Q
      <4>2. AtStart(q, j + b) /\ j + b <= Q
        BY <3>3, <3>5, <4>1 DEF Messages, Ordered, Whole, Q
      <4>3. ASSUME L > i + b PROVE s[i + b + 1].t = "part"
        <5>1. j + b + 1 \in 1 .. Q /\ i + b + 1 = P + (j + b + 1) /\ Q > j + b
          BY <1>1, <3>3, <4>3
        <5>2. s[P + (j + b + 1)] = q[j + b + 1]
          BY <1>3, <5>1
        <5>3. q[j + b + 1].t = "part"
          BY <4>2, <5>1 DEF AtStart, Q
        <5> QED BY <5>1, <5>2, <5>3
      <4>4. AtStart(s, i + b)
        BY <4>3 DEF AtStart, L
      <4>5. i + b <= L
        BY <1>1, <3>3, <4>2
      <4>6. b = Len(s[i].req.body)
        BY <3>3, <4>1
      <4> QED BY <4>4, <4>5, <4>6
    <3> QED BY <3>4, <3>5
  <2>3. i <= P \/ i > P
    BY <1>1
  <2> QED BY <2>1, <2>2, <2>3
<1>5. Ordered(s)
  BY <1>4 DEF Ordered, L
<1>6. Whole(s)
  BY <1>4 DEF Whole, L
<1> QED BY <1>5, <1>6

\* Two batches of messages are one.
LEMMA JoinMessages ==
    ASSUME NEW p \in Seq(Tokens), NEW q \in Seq(Tokens), Messages(p), Messages(q)
    PROVE  Messages(p \o q)
<1> DEFINE s == p \o q
<1>1. IsJoined(Tokens, p, q, s)
  BY JoinedTokens
<1> HIDE DEF s
<1>2. Ordered(s) /\ Whole(s)
  BY <1>1, JoinFlows DEF Messages
<1>3. 0 \in 0 .. Len(p) /\ AtStart(p, 0) /\ AtStart(q, 0)
  BY DEF Messages
<1>4. AtStart(s, 0)
  BY <1>1, <1>3, JoinStarts
<1>5. Messages(s)
  BY <1>2, <1>4 DEF Messages
<1> QED BY <1>5 DEF s

\* Send: the stream of a peer that goes on sending.
LEMMA SendPlace ==
    ASSUME NEW p \in Seq(Tokens), NEW q \in Seq(Tokens), Messages(q),
           NEW phase, phase # "free", NEW active \in BOOLEAN, NEW left \in Nat, NEW close,
           Place(phase, active, left, close, FALSE, p)
    PROVE  Place(phase, active, left, close, FALSE, p \o q)
<1> DEFINE s == p \o q
<1>1. IsJoined(Tokens, p, q, s)
  BY JoinedTokens
<1> HIDE DEF s
<1>2. Ordered(p) /\ Whole(p) /\ AtStart(q, 0) /\ Len(p) \in Nat
  BY DEF Place, Flow, Messages
<1>3. Flow(FALSE, s)
  BY <1>1, <1>2, JoinFlows DEF Flow
<1>4. ASSUME AtStart(p, 0) PROVE AtStart(s, 0)
  <2>1. 0 \in 0 .. Len(p)
    BY <1>2
  <2> QED BY <1>1, <1>2, <1>4, <2>1, JoinStarts
<1>5. ASSUME AtStart(p, left), left <= Len(p)
      PROVE  AtStart(s, left) /\ left <= Len(s)
  <2>1. left \in 0 .. Len(p)
    BY <1>2, <1>5
  <2>2. AtStart(s, left)
    BY <1>1, <1>2, <1>5, <2>1, JoinStarts
  <2>3. left <= Len(s)
    BY <1>1, <1>2, <1>5 DEF IsJoined
  <2> QED BY <2>2, <2>3
<1>6. ASSUME p # <<>>, p[1].t = "head" PROVE s # <<>> /\ s[1].t = "head"
  <2>1. Len(p) > 0 /\ 1 \in 1 .. Len(p)
    BY <1>2, <1>6
  <2>2. s[1] = p[1] /\ Len(s) > 0
    BY <1>1, <2>1 DEF IsJoined
  <2>3. s # <<>>
    BY <2>2
  <2> QED BY <1>6, <2>2, <2>3
<1>7. Place(phase, active, left, close, FALSE, s)
  BY <1>3, <1>4, <1>5, <1>6 DEF Place
<1> QED BY <1>7 DEF s

\* Hangup and Break: the stream of a peer that sends no more is cut off.
LEMMA CutPlace ==
    ASSUME NEW s \in Seq(Tokens), NEW p \in Seq(Tokens), Len(p) <= Len(s),
           \A j \in 1 .. Len(p) : p[j] = s[j],
           NEW phase, NEW active \in BOOLEAN, NEW left \in Nat, NEW close, NEW done,
           Place(phase, active, left, close, done, s)
    PROVE  Place(phase, active, left, close, TRUE, p)
<1> DEFINE P == Len(p)
           L == Len(s)
<1>1. P \in Nat /\ L \in Nat /\ P <= L /\ \A j \in 1 .. P : p[j] = s[j]
  OBVIOUS
<1>2. Ordered(s)
  BY DEF Place, Flow
<1>3. ASSUME NEW m \in Nat, AtStart(s, m) PROVE AtStart(p, m)
  <2> SUFFICES ASSUME Len(p) > m PROVE p[m + 1].t = "part"
    BY DEF AtStart
  <2>1. m + 1 \in 1 .. Len(p) /\ Len(s) > m
    OBVIOUS
  <2> QED BY <1>1, <1>3, <2>1 DEF AtStart
<1>4. ASSUME NEW i \in 1 .. P
      PROVE  /\ p[i].t = "part" => (i < P => p[i + 1].t = "head")
             /\ p[i].t = "head" => AtStart(p, i + Len(p[i].req.body))
  <2>1. i \in 1 .. L /\ p[i] = s[i]
    BY <1>1
  <2>2. ASSUME p[i].t = "part", i < P PROVE p[i + 1].t = "head"
    <3>1. i + 1 \in 1 .. P /\ i < L
      BY <1>1, <2>2
    <3> QED BY <1>1, <1>2, <2>1, <2>2, <3>1 DEF Ordered
  <2>3. ASSUME p[i].t = "head" PROVE AtStart(p, i + Len(p[i].req.body))
    <3>1. PICK b \in Nat : b = Len(p[i].req.body)
      BY <2>3, BodyLength
    <3>2. s[i].t = "head" /\ b = Len(s[i].req.body)
      BY <2>1, <2>3, <3>1
    <3>3. AtStart(s, i + Len(s[i].req.body))
      BY <1>2, <2>1, <3>2 DEF Ordered
    <3>4. AtStart(s, i + b)
      BY <3>2, <3>3
    <3>5. i + b \in Nat
      BY <3>1
    <3> QED BY <1>3, <3>1, <3>4, <3>5
  <2> QED BY <2>2, <2>3
<1>5. Flow(TRUE, p)
  BY <1>4 DEF Flow, Ordered
<1>6. ASSUME s = <<>> PROVE p = <<>>
  BY <1>1, <1>6
<1>7. ASSUME p # <<>> PROVE s # <<>> /\ p[1] = s[1]
  <2>1. 1 \in 1 .. P
    BY <1>1, <1>7
  <2> QED BY <1>1, <2>1
<1> QED BY <1>3, <1>5, <1>6, <1>7 DEF Place


\* The tokens of a message.
LEMMA MessageTokens ==
    ASSUME NEW r \in Requests
    PROVE  /\ Message(r) \in Seq(Tokens) /\ Len(r.body) \in Nat
           /\ Len(Message(r)) = 2 + Len(r.body)
           /\ Message(r)[1] = [t |-> "part"] /\ Message(r)[2] = [t |-> "head", req |-> r]
           /\ \A i \in 1 .. Len(r.body) : Message(r)[2 + i].t \in {"b", "x"}
<1>1. r.body \in Seq({"b", "x"}) /\ Len(r.body) \in Nat /\ DOMAIN r.body = 1 .. Len(r.body)
  BY HttpWorkerAssumption DEF RequestOK
<1> DEFINE body == [i \in DOMAIN r.body |-> [t |-> r.body[i]]]
           start == <<[t |-> "part"], [t |-> "head", req |-> r]>>
           N == Len(r.body)
<1>2. \A i \in 1 .. N : body[i] = [t |-> r.body[i]] /\ r.body[i] \in {"b", "x"}
  BY <1>1
<1>3. ASSUME NEW i \in 1 .. N PROVE body[i] \in Tokens /\ body[i].t \in {"b", "x"}
  <2>1. PICK e \in {"b", "x"} : body[i] = [t |-> e]
    BY <1>2
  <2> HIDE DEF body
  <2>2. [t |-> e] \in Tokens /\ [t |-> e].t = e
    BY DEF Tokens
  <2> QED BY <2>1, <2>2
<1>4. body \in Seq(Tokens) /\ Len(body) = N
  <2>1. DOMAIN body = 1 .. N /\ N \in Nat /\ body = [i \in 1 .. N |-> body[i]]
    BY <1>1
  <2> HIDE DEF body
  <2>2. body \in [1 .. N -> Tokens]
    BY <1>3, <2>1
  <2>3. body \in Seq(Tokens)
    BY <2>1, <2>2, SeqDef
  <2> QED BY <2>1, <2>3
<1>5. /\ start \in Seq(Tokens) /\ Len(start) = 2
      /\ start[1] = [t |-> "part"] /\ start[2] = [t |-> "head", req |-> r]
  BY DEF Tokens
<1>6. Message(r) = start \o body
  BY DEF Message
<1> HIDE DEF body, start
<1>7. IsJoined(Tokens, start, body, Message(r))
  BY <1>4, <1>5, <1>6, JoinedTokens
<1>8. /\ Message(r) \in Seq(Tokens) /\ Len(Message(r)) = 2 + N
      /\ Message(r)[1] = start[1] /\ Message(r)[2] = start[2]
  BY <1>4, <1>5, <1>7 DEF IsJoined
<1>9. ASSUME NEW i \in 1 .. N PROVE Message(r)[2 + i].t \in {"b", "x"}
  <2>1. Message(r)[2 + i] = body[i]
    BY <1>4, <1>5, <1>7 DEF IsJoined
  <2> QED BY <1>3, <2>1
<1> QED BY <1>1, <1>5, <1>8, <1>9

\* A message is a stream of whole messages.
LEMMA MessageFlows ==
    ASSUME NEW r \in Requests
    PROVE  Messages(Message(r))
<1> DEFINE m == Message(r)
           N == Len(r.body)
<1>1. /\ m \in Seq(Tokens) /\ N \in Nat /\ Len(m) = 2 + N
      /\ m[1] = [t |-> "part"] /\ m[2] = [t |-> "head", req |-> r]
      /\ \A i \in 1 .. N : m[2 + i].t \in {"b", "x"}
  BY MessageTokens
<1>2. m[1].t = "part" /\ m[2].t = "head" /\ m[2].req = r
  BY <1>1
<1> HIDE DEF m
<1>3. ASSUME NEW i \in 1 .. Len(m)
      PROVE  /\ m[i].t = "part" => i < Len(m) /\ m[i + 1].t = "head"
             /\ m[i].t = "head" => AtStart(m, i + Len(m[i].req.body)) /\ i + Len(m[i].req.body) <= Len(m)
  <2>1. CASE i = 1
    BY <1>1, <1>2, <2>1
  <2>2. CASE i = 2
    <3>1. Len(m[i].req.body) = N
      BY <1>2, <2>2
    <3>2. i + N = Len(m) /\ AtStart(m, i + N)
      BY <1>1, <2>2 DEF AtStart
    <3>3. i + N <= Len(m)
      BY <1>1, <3>2
    <3>4. m[i].t # "part"
      BY <1>2, <2>2
    <3> QED BY <3>1, <3>2, <3>3, <3>4
  <2>3. CASE i > 2
    <3>1. i - 2 \in 1 .. N /\ 2 + (i - 2) = i
      BY <1>1, <2>3
    <3>2. m[2 + (i - 2)].t \in {"b", "x"}
      BY <1>1, <3>1
    <3> QED BY <3>1, <3>2
  <2> QED BY <1>1, <2>1, <2>2, <2>3
<1>4. Ordered(m)
  BY <1>3 DEF Ordered
<1>5. Whole(m)
  BY <1>3 DEF Whole
<1>6. AtStart(m, 0)
  BY <1>2 DEF AtStart
<1> QED BY <1>4, <1>5, <1>6 DEF Messages, m

\* So is a batch.
LEMMA BatchFlows ==
    ASSUME NEW batch \in Batches
    PROVE  Messages(FlattenSeq([i \in DOMAIN batch |-> Message(batch[i])]))
<1> DEFINE src == [i \in DOMAIN batch |-> Message(batch[i])]
           n == Len(batch)
<1>1. batch \in Seq(Requests) /\ n \in Nat /\ DOMAIN batch = 1 .. n
  BY HttpWorkerAssumption
<1>2. ASSUME NEW i \in 1 .. n PROVE src[i] \in Seq(Tokens) /\ Messages(src[i])
  <2>1. batch[i] \in Requests /\ src[i] = Message(batch[i])
    BY <1>1
  <2> HIDE DEF src
  <2> QED BY <2>1, MessageTokens, MessageFlows
<1>3. DOMAIN src = 1 .. n /\ Len(src) = n
  BY <1>1
<1> HIDE DEF src, n
<1>4. CASE n = 0
  <2>1. FlattenSeq(src) = <<>>
    BY <1>3, <1>4 DEF FlattenSeq
  <2>2. Messages(<<>>)
    BY DEF Messages, Ordered, Whole, AtStart
  <2> QED BY <2>1, <2>2 DEF src
<1>5. CASE n # 0
  <2>1. n \in Nat \ {0}
    BY <1>1, <1>5
  <2>2. PICK f : Joins(f, src, n) /\ FlattenSeq(src) = f[n]
    BY <1>3, <2>1, FlattenJoins
  <2>3. \A i \in 1 .. n : f[i] = IF i = 1 THEN src[i] ELSE f[i - 1] \o src[i]
    BY <2>2 DEF Joins
  <2> DEFINE Bad == {i \in 1 .. n : ~ (f[i] \in Seq(Tokens) /\ Messages(f[i]))}
  <2>4. Bad = {}
    <3> SUFFICES ASSUME Bad # {} PROVE FALSE
      OBVIOUS
    <3>1. PICK m \in Bad : \A k \in Bad : m <= k
      <4>1. Bad \subseteq Nat
        OBVIOUS
      <4> HIDE DEF Bad
      <4> QED BY <4>1, LeastNatural
    <3>2. m \in 1 .. n /\ ~ (f[m] \in Seq(Tokens) /\ Messages(f[m]))
      OBVIOUS
    <3>3. m # 1
      BY <1>2, <2>3, <3>2
    <3>4. f[m - 1] \in Seq(Tokens) /\ Messages(f[m - 1])
      <4>1. m - 1 \in 1 .. n /\ ~ (m <= m - 1)
        BY <2>1, <3>2, <3>3
      <4> QED BY <3>1, <4>1
    <3> HIDE DEF Bad
    <3>5. f[m] = f[m - 1] \o src[m] /\ src[m] \in Seq(Tokens) /\ Messages(src[m])
      BY <1>2, <2>3, <3>2, <3>3
    <3>6. Messages(f[m - 1] \o src[m])
      BY <3>4, <3>5, JoinMessages
    <3>7. f[m - 1] \o src[m] \in Seq(Tokens)
      BY <3>4, <3>5
    <3> QED BY <3>2, <3>5, <3>6, <3>7
  <2>5. n \in 1 .. n
    BY <2>1
  <2>6. Messages(f[n])
    BY <2>4, <2>5
  <2> QED BY <2>2, <2>6 DEF src
<1> QED BY <1>4, <1>5


\* Arrive moves a token from one part of the stream to the other.
LEMMA ArriveSame ==
    ASSUME NEW T, NEW p \in Seq(T), NEW q \in Seq(T), q # <<>>
    PROVE  Append(p, Head(q)) \o Tail(q) = p \o q
<1> DEFINE a == Append(p, Head(q))
           b == Tail(q)
           u == a \o b
           v == p \o q
           P == Len(p)
           Q == Len(q)
<1>1. P \in Nat /\ Q \in Nat /\ Q > 0
  OBVIOUS
<1>2. a \in Seq(T) /\ Len(a) = P + 1 /\ a[P + 1] = q[1] /\ \A j \in 1 .. P : a[j] = p[j]
  OBVIOUS
<1>3. b \in Seq(T) /\ Len(b) = Q - 1
  OBVIOUS
<1>4. \A j \in 1 .. Q - 1 : b[j] = q[j + 1]
  OBVIOUS
<1> HIDE DEF a, b
<1>5. IsJoined(T, a, b, u)
  BY <1>2, <1>3, JoinedTokens
<1>6. IsJoined(T, p, q, v)
  BY JoinedTokens
<1> HIDE DEF u, v
<1>7. /\ u \in Seq(T) /\ Len(u) = (P + 1) + (Q - 1)
      /\ \A j \in 1 .. P + 1 : u[j] = a[j]
      /\ \A j \in 1 .. Q - 1 : u[P + 1 + j] = b[j]
  BY <1>2, <1>3, <1>5 DEF IsJoined
<1>8. /\ v \in Seq(T) /\ Len(v) = P + Q
      /\ \A j \in 1 .. P : v[j] = p[j]
      /\ \A j \in 1 .. Q : v[P + j] = q[j]
  BY <1>6 DEF IsJoined
<1> HIDE DEF P, Q
<1>9. Len(u) = P + Q
  BY <1>1, <1>7
<1>10. ASSUME NEW j \in 1 .. P + Q PROVE u[j] = v[j]
  <2>1. CASE j <= P
    <3>1. j \in 1 .. P /\ j \in 1 .. P + 1
      BY <1>1, <2>1
    <3> QED BY <1>2, <1>7, <1>8, <3>1
  <2>2. CASE j = P + 1
    <3>1. j \in 1 .. P + 1 /\ 1 \in 1 .. Q
      BY <1>1, <2>2
    <3> QED BY <1>2, <1>7, <1>8, <2>2, <3>1
  <2>3. CASE j > P + 1
    <3>1. j - (P + 1) \in 1 .. Q - 1
      BY <1>1, <2>3
    <3>2. PICK i \in 1 .. Q - 1 : i = j - (P + 1)
      BY <3>1
    <3>3. j = P + 1 + i /\ j = P + (i + 1) /\ i + 1 \in 1 .. Q
      BY <1>1, <3>2
    <3>4. u[P + 1 + i] = b[i] /\ b[i] = q[i + 1] /\ v[P + (i + 1)] = q[i + 1]
      BY <1>4, <1>7, <1>8, <3>3
    <3> QED BY <3>3, <3>4
  <2> QED BY <1>1, <2>1, <2>2, <2>3
<1>11. u = v
  BY <1>7, <1>8, <1>9, <1>10, StreamsEqual
<1> QED BY <1>11 DEF u, v, a, b

\* A step of the peer, of the clock or of the listener on one connection.
LEMMA PeerInPlace ==
    ASSUME WorkerInv, NEW c \in Conns, PeerNext(c) \/ Idle(c) \/ Accept(c), InPlace(conn[c])
    PROVE  \E n : conn' = [conn EXCEPT ![c] = n] /\ InPlace(n)
<1> DEFINE k == conn[c]
           s == Unread(k)
<1>1. Resting(k) /\ Typed(k)
  BY DEF WorkerInv, Sockets, Resting
<1>2. /\ s \in Seq(Tokens) /\ k.left \in Nat /\ k.close \in BOOLEAN
      /\ k.active \in BOOLEAN /\ k.wire \in Seq(Tokens) /\ k.todo \in Seq(Tokens)
  BY <1>1, UnreadType
<1>3. Place(k.phase, k.active, k.left, k.close, Done(k), s)
  BY DEF InPlace
<1>4. IsJoined(Tokens, k.wire, k.todo, s)
  BY <1>2, JoinedTokens DEF Unread
<1>5. ASSUME NEW n, SameSocket(k, n), n.phase = k.phase, n.active = k.active, n.left = k.left,
             n.close = k.close
      PROVE  InPlace(n)
  <2>1. Unread(n) = s /\ Done(n) = Done(k)
    BY <1>5, SocketSame
  <2> HIDE DEF k, s
  <2> QED BY <1>3, <1>5, <2>1 DEF InPlace
<1>6. CASE Connect(c)
  <2> DEFINE n == [Free EXCEPT !.phase = "queued"]
  <2>1. conn' = [conn EXCEPT ![c] = n]
    BY <1>6 DEF Connect, Peer
  <2>2. /\ n.phase = "queued" /\ n.wire = <<>> /\ n.todo = <<>> /\ n.active = FALSE
    BY DEF Free
  <2> HIDE DEF n
  <2>3. Unread(n) = <<>>
    BY <2>2 DEF Unread
  <2>4. Flow(Done(n), <<>>) /\ AtStart(<<>>, 0)
    BY EmptyFlows
  <2>5. Place("queued", FALSE, n.left, n.close, Done(n), <<>>)
    BY <2>4 DEF Place
  <2>6. InPlace(n)
    BY <2>2, <2>3, <2>5 DEF InPlace
  <2> QED BY <2>1, <2>6
<1>7. CASE Arrive(c)
  <2> DEFINE w == Append(k.wire, Head(k.todo))
             t == Tail(k.todo)
             n == [k EXCEPT !.wire = w, !.todo = t]
  <2>1. k.todo # <<>> /\ conn' = [conn EXCEPT ![c] = n]
    BY <1>7 DEF Arrive, Peer
  <2>2. w \o t = s
    BY <1>2, <2>1, ArriveSame DEF Unread
  <2> HIDE DEF k, w, t, s
  <2>3. /\ n.wire = w /\ n.todo = t /\ n.eof = k.eof /\ n.broken = k.broken
        /\ n.phase = k.phase /\ n.active = k.active /\ n.left = k.left /\ n.close = k.close
    BY <1>1, FieldNames DEF Typed
  <2> HIDE DEF n
  <2>4. Unread(n) = s /\ Done(n) = Done(k)
    BY <2>2, <2>3 DEF Unread, Done
  <2>5. InPlace(n)
    BY <1>3, <2>3, <2>4 DEF InPlace
  <2> QED BY <2>1, <2>5
<1>8. ASSUME NEW n, Typed(n), NEW p \in Seq(Tokens), Unread(n) = p, Done(n) = TRUE,
             Len(p) <= Len(s), \A j \in 1 .. Len(p) : p[j] = s[j],
             n.phase = k.phase, n.active = k.active, n.left = k.left, n.close = k.close
      PROVE  InPlace(n)
  <2> HIDE DEF k, s
  <2>1. Place(k.phase, k.active, k.left, k.close, TRUE, p)
    BY <1>2, <1>3, <1>8, CutPlace
  <2> QED BY <1>8, <2>1 DEF InPlace
<1>9. CASE Hangup(c)
  <2> DEFINE n == [k EXCEPT !.todo = <<>>, !.eof = TRUE]
  <2>1. conn' = [conn EXCEPT ![c] = n]
    BY <1>9 DEF Hangup, Peer
  <2> HIDE DEF k, s
  <2>2. Typed(n)
    <3> DEFINE e == <<>>
    <3>1. e \in Seq(Tokens)
      OBVIOUS
    <3>2. n = [k EXCEPT !.todo = e, !.eof = TRUE]
      OBVIOUS
    <3> HIDE DEF e, n
    <3> QED BY <1>1, <3>1, <3>2, FieldTypes, FieldNames DEF Typed
  <2>3. /\ n.wire = k.wire /\ n.todo = <<>> /\ n.eof = TRUE /\ n.phase = k.phase
        /\ n.active = k.active /\ n.left = k.left /\ n.close = k.close
    BY <1>1, FieldNames DEF Typed
  <2> HIDE DEF n
  <2>4. Unread(n) = k.wire
    BY <1>2, <2>3 DEF Unread
  <2>5. Done(n) = TRUE
    BY <2>3 DEF Done
  <2>6. Len(k.wire) <= Len(s) /\ \A j \in 1 .. Len(k.wire) : k.wire[j] = s[j]
    <3>1. Len(k.wire) \in Nat /\ Len(k.todo) \in Nat /\ Len(s) = Len(k.wire) + Len(k.todo)
      BY <1>4, Zenon DEF IsJoined
    <3>2. \A j \in 1 .. Len(k.wire) : s[j] = k.wire[j]
      BY <1>4, Zenon DEF IsJoined
    <3>3. \A a, b \in Nat : a <= a + b
      OBVIOUS
    <3>4. Len(k.wire) <= Len(s)
      BY <3>1, <3>3, Zenon
    <3> QED BY <3>2, <3>4, Zenon
  <2>7. InPlace(n)
    BY <1>2, <1>8, <2>2, <2>3, <2>4, <2>5, <2>6
  <2> QED BY <2>1, <2>7
<1>10. CASE Break(c)
  <2> DEFINE n == [k EXCEPT !.todo = <<>>, !.wire = <<>>, !.broken = TRUE]
  <2>1. conn' = [conn EXCEPT ![c] = n]
    BY <1>10 DEF Break, Peer
  <2> HIDE DEF k, s
  <2>2. Typed(n)
    <3> DEFINE e == <<>>
    <3>1. e \in Seq(Tokens)
      OBVIOUS
    <3>2. n = [k EXCEPT !.todo = e, !.wire = e, !.broken = TRUE]
      OBVIOUS
    <3> HIDE DEF e, n
    <3> QED BY <1>1, <3>1, <3>2, FieldTypes, FieldNames, ZenonT(40) DEF Typed
  <2>3. /\ n.wire = <<>> /\ n.todo = <<>> /\ n.broken = TRUE /\ n.phase = k.phase
        /\ n.active = k.active /\ n.left = k.left /\ n.close = k.close
    BY <1>1, FieldNames DEF Typed
  <2> HIDE DEF n
  <2>4. Unread(n) = <<>> /\ <<>> \in Seq(Tokens)
    BY <2>3 DEF Unread
  <2>5. Done(n) = TRUE
    BY <2>3 DEF Done
  <2>6. Len(<<>>) <= Len(s) /\ \A j \in 1 .. Len(<<>>) : <<>>[j] = s[j]
    BY <1>2
  <2>7. InPlace(n)
    BY <1>8, <2>2, <2>3, <2>4, <2>5, <2>6
  <2> QED BY <2>1, <2>7
<1>11. CASE Stall(c)
  <2> DEFINE n == [k EXCEPT !.stalled = TRUE]
  <2>1. conn' = [conn EXCEPT ![c] = n]
    BY <1>11 DEF Stall, Peer
  <2>2. /\ SameSocket(k, n) /\ n.phase = k.phase /\ n.active = k.active /\ n.left = k.left
        /\ n.close = k.close
    BY <1>1, FieldNames DEF Typed, SameSocket
  <2> HIDE DEF n
  <2> QED BY <1>5, <2>1, <2>2
<1>12. CASE Idle(c)
  <2> DEFINE n == [k EXCEPT !.idle = TRUE]
  <2>1. conn' = [conn EXCEPT ![c] = n]
    BY <1>12 DEF Idle, Peer
  <2>2. /\ SameSocket(k, n) /\ n.phase = k.phase /\ n.active = k.active /\ n.left = k.left
        /\ n.close = k.close
    BY <1>1, FieldNames DEF Typed, SameSocket
  <2> HIDE DEF n
  <2> QED BY <1>5, <2>1, <2>2
<1>13. ASSUME NEW batch \in Batches, Send(c, batch)
       PROVE  \E n : conn' = [conn EXCEPT ![c] = n] /\ InPlace(n)
  <2> DEFINE t == FlattenSeq([i \in DOMAIN batch |-> Message(batch[i])])
             x == k.sent + 1
             n == [k EXCEPT !.todo = t, !.sent = x]
  <2>1. /\ k.phase # "free" /\ ~k.eof /\ ~k.broken /\ k.todo = <<>>
        /\ conn' = [conn EXCEPT ![c] = n]
    BY <1>13 DEF Send, Peer
  <2>2. t \in Seq(Tokens) /\ Messages(t)
    BY BatchTokens, BatchFlows
  <2>3. s = k.wire
    BY <1>2, <2>1 DEF Unread
  <2>4. Done(k) = FALSE
    BY <2>1 DEF Done
  <2> HIDE DEF k, s, t, x
  <2>5. /\ n.wire = k.wire /\ n.todo = t /\ n.eof = k.eof /\ n.broken = k.broken
        /\ n.phase = k.phase /\ n.active = k.active /\ n.left = k.left /\ n.close = k.close
    BY <1>1, FieldNames DEF Typed
  <2> HIDE DEF n
  <2>6. Unread(n) = s \o t /\ Done(n) = FALSE
    BY <2>3, <2>4, <2>5 DEF Unread, Done
  <2>7. Place(k.phase, k.active, k.left, k.close, FALSE, s)
    BY <1>3, <2>4
  <2>8. Place(k.phase, k.active, k.left, k.close, FALSE, s \o t)
    BY <1>2, <2>1, <2>2, <2>7, SendPlace
  <2>9. InPlace(n)
    BY <2>5, <2>6, <2>8 DEF InPlace
  <2> QED BY <2>1, <2>9
<1>14. CASE Accept(c)
  <2> DEFINE n == [k EXCEPT !.phase = "head"]
  <2>1. k.phase = "queued" /\ (conn' = [conn EXCEPT ![c] = n] \/ conn' = [conn EXCEPT ![c] = Free])
    BY <1>14 DEF Accept
  <2>2. /\ SameSocket(k, n) /\ n.phase = "head" /\ n.active = k.active /\ n.left = k.left
        /\ n.close = k.close
    BY <1>1, FieldNames DEF Typed, SameSocket
  <2> HIDE DEF n
  <2>3. Unread(n) = s /\ Done(n) = Done(k)
    BY <2>2, SocketSame
  <2> HIDE DEF k, s
  <2>4. Place("head", k.active, k.left, k.close, Done(k), s)
    BY <1>3, <2>1 DEF Place
  <2>5. InPlace(n)
    BY <2>2, <2>3, <2>4 DEF InPlace
  <2> QED BY <2>1, <2>5, FreeInPlace
<1> QED BY <1>6, <1>7, <1>9, <1>10, <1>11, <1>12, <1>13, <1>14 DEF PeerNext


\* Every exchange is where it should be in the stream of its peer.
Placed == \A c \in Conns : InPlace(conn[c])

\* A step that changes one connection.
LEMMA OnePlaced ==
    ASSUME WorkerInv, Placed, NEW c \in Conns,
           \E n : conn' = [conn EXCEPT ![c] = n] /\ InPlace(n)
    PROVE  Placed'
<1>1. PICK n : conn' = [conn EXCEPT ![c] = n] /\ InPlace(n)
  OBVIOUS
<1>2. DOMAIN conn = Conns
  BY DEF WorkerInv, Sockets
<1>3. ASSUME NEW x \in Conns PROVE InPlace(conn'[x])
  <2>1. conn'[x] = IF x = c THEN n ELSE conn[x]
    BY <1>1, <1>2
  <2>2. InPlace(conn[x])
    BY DEF Placed
  <2> QED BY <1>1, <2>1, <2>2
<1> QED BY <1>3 DEF Placed

\* Every step keeps every exchange in its place.
LEMMA PlacedStep == WorkerInv /\ Placed /\ [Next]_vars => Placed'
<1> SUFFICES ASSUME WorkerInv, Placed, [Next]_vars PROVE Placed'
  OBVIOUS
<1>1. ASSUME NEW c \in Conns, Drive(c) \/ Accept(c) \/ Idle(c) \/ PeerNext(c)
      PROVE  Placed'
  <2>1. InPlace(conn[c])
    BY DEF Placed
  <2>2. \E n : conn' = [conn EXCEPT ![c] = n] /\ InPlace(n)
    BY <1>1, <2>1, DriveInPlace, PeerInPlace
  <2> QED BY <2>2, OnePlaced
<1>2. CASE conn' = conn
  BY <1>2 DEF Placed
<1>3. CASE Rebind
  <2>1. \A c \in Conns : conn'[c] = conn[c] \/ conn'[c] = Free
    BY <1>3 DEF Rebind
  <2>2. \A c \in Conns : InPlace(conn[c])
    BY DEF Placed
  <2>3. \A c \in Conns : InPlace(conn'[c])
    BY <2>1, <2>2, FreeInPlace, Zenon
  <2> QED BY <2>3 DEF Placed
<1>4. CASE conn' = [c \in Conns |-> Free]
  <2>1. \A c \in Conns : InPlace(conn'[c])
    BY <1>4, FreeInPlace
  <2> QED BY <2>1 DEF Placed
<1>5. \/ \E c \in Conns : Drive(c) \/ Accept(c) \/ Idle(c) \/ PeerNext(c)
      \/ conn' = conn \/ Rebind \/ conn' = [c \in Conns |-> Free]
  BY DEF Next, vars, Heartbeat, Stop, Exit, Start, Promote
<1> QED BY <1>1, <1>2, <1>3, <1>4, <1>5

\* InStep: the worker and the peer agree where a message begins.  A connection that
\* is kept open after an answer has read its request to the end, whatever slices it
\* arrived in, whatever the peer pipelined, and whichever stage failed
\* (Connection::drive, handle_head, ingest_body of the HTTP worker).
THEOREM WorkerInStep == Spec => []InStep
<1>1. Init => Placed
  <2> SUFFICES ASSUME Init PROVE \A c \in Conns : InPlace(conn[c])
    BY DEF Placed
  <2> QED BY FreeInPlace DEF Init
<1>2. WorkerInv /\ Placed => InStep
  <2> SUFFICES ASSUME WorkerInv, Placed, NEW c \in Conns,
                      conn[c].phase = "head", Unread(conn[c]) # <<>>
               PROVE  Unread(conn[c])[1].t = IF conn[c].active THEN "head" ELSE "part"
    BY DEF InStep, Unread
  <2> DEFINE s == Unread(conn[c])
  <2>1. s \in Seq(Tokens) /\ conn[c].active \in BOOLEAN
    BY UnreadType DEF WorkerInv, Sockets, Resting
  <2>2. Place("head", conn[c].active, conn[c].left, conn[c].close, Done(conn[c]), s)
    BY DEF Placed, InPlace
  <2>3. Len(s) > 0
    BY <2>1
  <2> HIDE DEF s
  <2>4. s[1].t = IF conn[c].active THEN "head" ELSE "part"
    BY <2>1, <2>2, <2>3 DEF Place, AtStart
  <2> QED BY <2>4 DEF s
<1> QED BY <1>1, <1>2, WorkerInvariant, PlacedStep, PTL DEF Spec

=============================================================================
