----------------------------- MODULE HttpWorker -----------------------------
(***************************************************************************)
(* One HTTP worker process (src/src/workers/http.rs): the sockets it has   *)
(* accepted, the exchange on each of them, the sessions it opens with the  *)
(* S3 service, and the in-flight gauges it keeps in pgs3.worker_metric     *)
(* (src/src/workers/mod.rs, src/sql/worker_runtime.sql).                   *)
(*                                                                         *)
(* The worker is one thread.  It drives one connection at a time: it looks *)
(* at the idle clock, writes a pending "100 Continue", reads once, feeds   *)
(* what it read to the exchange, writes, and settles the outcome.  All of  *)
(* that is the action Drive.  Peers act between two drives: bytes arrive,  *)
(* peers hang up, stop reading, or reset the connection; time passes.      *)
(*                                                                         *)
(* Bytes are tokens: "part" is a piece of a request head, "head" the last  *)
(* piece, "b" a piece of the entity, "x" a piece that breaks its framing   *)
(* (a malformed chunk).  A message is sent whole and read in any slices.   *)
(***************************************************************************)
EXTENDS Integers, Sequences, FiniteSets, SequencesExt

CONSTANTS
    Conns,           \* sockets of the peers
    MaxConnections,  \* MAX_CONNECTIONS
    Requests,        \* the requests peers send, see RequestOK
    Operations,      \* the operation names the gauges are kept for
    Batches,         \* what a peer writes at a time: requests, pipelined
    MaxBatches,      \* bound: batches a peer sends on one connection
    MaxPids          \* bound: incarnations of the worker

InvalidRequest == "InvalidRequest"

RequestOK(r) ==
    /\ r.op \in Operations
    /\ r.close \in BOOLEAN                          \* asks for Connection: close
    /\ r.expect \in {"none", "continue", "bad"}     \* its Expect header
    /\ r.framing \in {"ok", "bad"}                  \* its length headers
    /\ r.body \in Seq({"b", "x"})                   \* the entity it declares

ASSUME HttpWorkerAssumption ==
    /\ MaxConnections \in Nat \ {0}
    /\ MaxBatches \in Nat
    /\ \A b \in Batches : b \in Seq(Requests)
    /\ MaxPids \in Nat \ {0}
    /\ InvalidRequest \in Operations
    /\ \A r \in Requests : RequestOK(r)

ASSUME ConnsAssumption == IsFiniteSet(Conns)

VARIABLES
    conn,       \* the connections, see Connection
    up,         \* the process runs
    pid,        \* its process id
    primary,    \* it was started on a primary
    writable,   \* the server is not in recovery
    delta,      \* in_flight_delta of each operation, not flushed yet
    row         \* pgs3.worker_metric: pid and in_flight of each operation

vars == <<conn, up, pid, primary, writable, delta, row>>

-----------------------------------------------------------------------------
(* Connections and exchanges                                               *)

Phases == {"free", "queued", "head", "body", "response", "closed"}
Statuses == {0, 200, 400, 408, 413, 417, 500}
Outcomes == {"go", "pending", "complete", "closed", "ioerror", "panic"}
Sessions == {"none", "open", "finished", "failed", "aborted", "lost"}

Tokens == [t : {"part", "b", "x"}] \cup [t : {"head"}, req : Requests]

Connection ==
    [ \* the peer and the kernel
      todo : Seq(Tokens),      \* what the peer still has to send
      wire : Seq(Tokens),      \* what has arrived and was not read
      eof : BOOLEAN,           \* the peer closed its sending side
      broken : BOOLEAN,        \* reads and writes fail
      stalled : BOOLEAN,       \* writes would block
      sent : 0..MaxBatches,    \* batches sent
      \* Exchange
      phase : Phases, session : Sessions, left : Nat,
      status : Statuses, op : Operations, cont : BOOLEAN, close : BOOLEAN,
      \* Connection
      active : BOOLEAN, started : BOOLEAN, metric : Operations,
      written : BOOLEAN,       \* bytes_written # 0
      idle : BOOLEAN,          \* last_activity is an idle_timeout ago
      \* DriveResult
      out : Outcomes ]

Free ==
    [todo |-> <<>>, wire |-> <<>>, eof |-> FALSE, broken |-> FALSE,
     stalled |-> FALSE, sent |-> 0,
     phase |-> "free", session |-> "none", left |-> 0, status |-> 0,
     op |-> InvalidRequest, cont |-> FALSE, close |-> FALSE,
     active |-> FALSE, started |-> FALSE, metric |-> InvalidRequest,
     written |-> FALSE, idle |-> FALSE, out |-> "go"]

Open(k) == k.phase \notin {"free", "queued"}

Message(r) ==
    <<[t |-> "part"], [t |-> "head", req |-> r]>>
        \o [i \in DOMAIN r.body |-> [t |-> r.body[i]]]

\* A fresh Exchange on the same socket; the counters of the last one go with it.
reset_exchange(k) ==
    [k EXCEPT !.phase = "head", !.session = "none", !.left = 0, !.status = 0,
              !.op = InvalidRequest, !.cont = FALSE, !.close = FALSE,
              !.written = FALSE, !.idle = FALSE]

queue_response(k, status, close) ==
    [k EXCEPT !.phase = "response", !.status = status,
              !.close = @ \/ status >= 400 \/ close]

\* What the service answers: a success, one that wants the connection closed,
\* an error (a response that cannot be serialised is one too).
Answers(k) ==
    {queue_response(k, 200, FALSE), queue_response(k, 200, TRUE),
     queue_response(k, 500, FALSE)}

Panic(k) == [k EXCEPT !.out = "panic"]

\* abort_session inside the exchange: a panic of the handler is not caught here.
abort_session(k, status) ==
    IF k.phase = "body"
    THEN {queue_response([k EXCEPT !.session = "aborted"], status, FALSE), Panic(k)}
    ELSE {queue_response(k, status, FALSE)}

\* abort_session under catch_unwind: the clean-up may be lost, nothing else is.
guarded_abort(k) ==
    IF k.phase = "body"
    THEN {[k EXCEPT !.session = s] : s \in {"aborted", "lost"}}
    ELSE {k}

finish_body(k) ==
    Answers([k EXCEPT !.session = "finished"]) \cup {Panic(k)}

\* The framing takes what belongs to the entity and leaves the rest.
ingest_body(k, bytes) ==
    LET n == IF Len(bytes) < k.left THEN Len(bytes) ELSE k.left
        taken == SubSeq(bytes, 1, n)
        rest == [k EXCEPT !.left = @ - n, !.close = @ \/ n < Len(bytes)]
        done == IF rest.left = 0 THEN finish_body(rest) ELSE {rest}
    IN IF \E i \in DOMAIN taken : taken[i].t # "b"
       THEN abort_session(k, 400)
       ELSE done \cup
            IF taken = <<>> THEN {}
            ELSE {queue_response([rest EXCEPT !.session = "failed"], 400, FALSE),
                  Panic(rest)}

\* Variant: an early answer leaves the connection open with the entity unread.
handle_head_keeps_open(k, r, remainder) ==
    LET parsed == [k EXCEPT !.close = r.close, !.op = r.op]
        receiving == [parsed EXCEPT !.phase = "body", !.session = "open",
                                    !.left = Len(r.body),
                                    !.cont = (r.expect = "continue")]
    IN IF r.expect = "bad" THEN {queue_response(parsed, 417, FALSE)}
       ELSE IF r.framing = "bad" THEN {queue_response(parsed, 413, FALSE)}
       ELSE Answers(parsed)
            \cup {Panic(parsed)}
            \cup IF remainder = <<>> /\ receiving.left > 0 THEN {receiving}
                 ELSE ingest_body(receiving, remainder)

\* The parsed head: the checks of the worker, then the answer of the service,
\* which responds at once or takes a session for the body.
handle_head(k, r, remainder) ==
    LET parsed == [k EXCEPT !.close = r.close, !.op = r.op]
        unread == Len(r.body) # 0 \/ remainder # <<>>
        receiving == [parsed EXCEPT !.phase = "body", !.session = "open",
                                    !.left = Len(r.body),
                                    !.cont = (r.expect = "continue")]
    IN IF r.expect = "bad" THEN {queue_response(parsed, 417, FALSE)}
       ELSE IF r.framing = "bad" THEN {queue_response(parsed, 413, FALSE)}
       ELSE Answers([parsed EXCEPT !.close = @ \/ unread])
            \cup {Panic(parsed)}
            \cup IF remainder = <<>> /\ receiving.left > 0 THEN {receiving}
                 ELSE ingest_body(receiving, remainder)

ingest(k, bytes) ==
    IF k.phase = "body" THEN ingest_body(k, bytes)
    ELSE LET i == SelectInSeq(bytes, LAMBDA tok : tok.t # "part")
         IN IF i = 0 THEN {k}
            ELSE IF bytes[i].t # "head" THEN {queue_response(k, 400, FALSE)}
            ELSE handle_head(k, bytes[i].req, SubSeq(bytes, i + 1, Len(bytes)))

-----------------------------------------------------------------------------
(* Driving one connection: the stages of Connection::drive                 *)

\* Variant: the session of a body that timed out is not aborted.
drive_timeout_keeps_session(k) ==
    IF ~k.idle THEN {k}
    ELSE IF ~k.active THEN {[k EXCEPT !.out = "closed"]}
    ELSE IF k.phase = "response"
    THEN {[k EXCEPT !.out = "complete", !.close = TRUE]}
    ELSE {[queue_response(k, 408, FALSE) EXCEPT !.idle = (k.phase = "body")]}

\* Variant: a response that the peer does not read has no time limit.
drive_timeout_spares_response(k) ==
    IF ~k.idle \/ k.phase = "response" THEN {k}
    ELSE IF ~k.active THEN {[k EXCEPT !.out = "closed"]}
    ELSE {[r EXCEPT !.idle = (k.phase = "body")] : r \in abort_session(k, 408)}

\* The clock of a response starts at the last byte read: after the longer
\* timeout of a body it has already run out.
drive_timeout(k) ==
    IF ~k.idle THEN {k}
    ELSE IF ~k.active THEN {[k EXCEPT !.out = "closed"]}
    ELSE IF k.phase = "response"
    THEN {[k EXCEPT !.out = "complete", !.close = TRUE]}
    ELSE {[r EXCEPT !.idle = (k.phase = "body")] : r \in abort_session(k, 408)}

drive_continue(k) ==
    IF ~k.cont THEN {k}
    ELSE IF k.broken THEN {[k EXCEPT !.out = "ioerror"]}
    ELSE IF k.stalled THEN {[k EXCEPT !.out = "pending"]}
    ELSE {[k EXCEPT !.cont = FALSE, !.written = TRUE, !.idle = FALSE]}

\* One read; the code's further reads of the same drive are the next drives.
drive_read(k) ==
    IF k.phase \notin {"head", "body"} THEN {k}
    ELSE IF k.broken THEN {[k EXCEPT !.out = "ioerror"]}
    ELSE IF k.wire # <<>>
    THEN UNION {ingest([k EXCEPT !.wire = SubSeq(@, n + 1, Len(@)),
                                 !.active = TRUE, !.started = @ \/ ~k.active,
                                 !.idle = FALSE],
                       SubSeq(k.wire, 1, n)) : n \in DOMAIN k.wire}
    ELSE IF ~k.eof THEN {k}
    ELSE IF k.active THEN abort_session(k, 400)
    ELSE {[k EXCEPT !.out = "closed"]}

drive_write(k) ==
    IF k.phase # "response" \/ k.stalled THEN {[k EXCEPT !.out = "pending"]}
    ELSE IF k.broken THEN {[k EXCEPT !.out = "ioerror"]}
    ELSE {[k EXCEPT !.written = TRUE, !.out = "complete"]}

Then(S, Stage(_)) == UNION {IF k.out = "go" THEN Stage(k) ELSE {k} : k \in S}

\* Connection::drive under the catch_unwind of drive_connections: an I/O error
\* ends the request, a panic answers 500 unless bytes have already been sent.
drive(k) ==
    LET results == Then(Then(Then(Then(drive_timeout(k), drive_continue),
                                  drive_read), drive_continue), drive_write)
        caught(r) ==
            IF r.out \notin {"ioerror", "panic"} THEN {r}
            ELSE IF ~r.active THEN {[r EXCEPT !.out = "closed"]}
            ELSE IF r.out = "panic" /\ ~r.written
            THEN {[queue_response(a, 500, FALSE) EXCEPT !.cont = FALSE,
                                                        !.out = "pending"] :
                    a \in guarded_abort(r)}
            ELSE {[a EXCEPT !.out = "complete", !.close = TRUE] :
                    a \in guarded_abort(r)}
    IN UNION {caught(r) : r \in results}

-----------------------------------------------------------------------------
(* The gauges                                                              *)

begin_in_flight(d, o) == [d EXCEPT ![o] = @ + 1]
end_in_flight(d, o) == [d EXCEPT ![o] = @ - 1]

reclassify_in_flight(d, from, to) ==
    IF from = to THEN d ELSE begin_in_flight(end_in_flight(d, from), to)

\* Variant: a request that waits is counted as begun on every drive.
Settle_keeps_started(c, k) ==
    LET d1 == IF k.started THEN begin_in_flight(delta, InvalidRequest) ELSE delta
        d2 == IF k.active THEN reclassify_in_flight(d1, k.metric, k.op) ELSE d1
        stays == [k EXCEPT !.out = "go"]
    IN \/ /\ k.out = "pending"
          /\ delta' = d2
          /\ conn' = [conn EXCEPT ![c] = [stays EXCEPT !.metric =
                        IF k.active THEN k.op ELSE @]]
       \/ /\ k.out \in {"closed", "complete"}
          /\ delta' = IF k.out = "closed" THEN d1 ELSE end_in_flight(d2, k.op)
          /\ conn' = [conn EXCEPT ![c] = Free]

\* The end of a loop of drive_connections: what the drive means for the
\* gauges, and whether the connection stays.
Settle(c, k) ==
    LET d1 == IF k.started THEN begin_in_flight(delta, InvalidRequest) ELSE delta
        d2 == IF k.active THEN reclassify_in_flight(d1, k.metric, k.op) ELSE d1
        stays == [k EXCEPT !.started = FALSE, !.out = "go"]
    IN \/ /\ k.out = "pending"
          /\ delta' = d2
          /\ conn' = [conn EXCEPT ![c] = [stays EXCEPT !.metric =
                        IF k.active THEN k.op ELSE @]]
       \/ /\ k.out = "closed"
          /\ delta' = d1
          /\ conn' = [conn EXCEPT ![c] = Free]
       \/ /\ k.out = "complete"
          /\ delta' = end_in_flight(d2, k.op)
          /\ conn' = [conn EXCEPT ![c] =
                IF k.close THEN Free
                ELSE [reset_exchange(stays) EXCEPT !.active = FALSE,
                                                   !.metric = InvalidRequest]]

Drive(c) ==
    /\ up /\ Open(conn[c])
    /\ \E k \in drive(conn[c]) : Settle(c, k)
    /\ UNCHANGED <<up, pid, primary, writable, row>>

\* Variant: a replacement process goes on with the gauge it finds.
Flushed_inherits(S, d) ==
    [o \in Operations |->
        IF ~writable \/ o \notin S THEN row[o]
        ELSE LET n == row[o].in_flight + d[o]
             IN [pid |-> pid, in_flight |-> IF n > 0 THEN n ELSE 0]]

\* pgs3._worker_add_metric for the operations in S.  A worker on a standby
\* drops its deltas; a replacement process does not inherit a gauge.
Flushed(S, d) ==
    [o \in Operations |->
        IF ~writable \/ o \notin S THEN row[o]
        ELSE LET base == IF row[o].pid = pid THEN row[o].in_flight ELSE 0
             IN [pid |-> pid,
                 in_flight |-> IF base + d[o] > 0 THEN base + d[o] ELSE 0]]

\* S are the operations whose transaction succeeds; the others keep their
\* delta for the next heartbeat.
flush_metrics(S, d) ==
    /\ row' = Flushed(S, d)
    /\ delta' = [o \in Operations |-> IF writable /\ o \notin S THEN d[o] ELSE 0]

Heartbeat ==
    /\ up
    /\ \E S \in SUBSET Operations : flush_metrics(S, delta)
    /\ UNCHANGED <<conn, up, pid, primary, writable>>

-----------------------------------------------------------------------------
(* The process                                                             *)

Accept(c) ==
    /\ up /\ conn[c].phase = "queued"
    /\ conn' = [conn EXCEPT ![c] =
          IF Cardinality({x \in Conns : Open(conn[x])}) < MaxConnections
          THEN [@ EXCEPT !.phase = "head"]
          ELSE Free]   \* the overload response; its gauge goes up and down at once
    /\ UNCHANGED <<up, pid, primary, writable, delta, row>>

\* SIGHUP with another address or port: the old listener and its backlog go.
Rebind ==
    /\ up /\ \E c \in Conns : conn[c].phase = "queued"
    /\ conn' = [c \in Conns |-> IF Open(conn[c]) THEN conn[c] ELSE Free]
    /\ UNCHANGED <<up, pid, primary, writable, delta, row>>

\* abandon_connections closes the gauge of every request it drops.
Abandoned(o) ==
    delta[o] - Cardinality({c \in Conns : conn[c].active /\ conn[c].metric = o})

\* SIGTERM: abandon_connections, flush_metrics, then the state "stopped", which
\* clears what a failed flush has left in the rows of this process.
Stop ==
    /\ up /\ pid < MaxPids
    /\ \E S \in SUBSET Operations :
          row' = [o \in Operations |->
                    LET r == Flushed(S, [x \in Operations |-> Abandoned(x)])[o]
                    IN IF writable /\ r.pid = pid THEN [r EXCEPT !.in_flight = 0]
                       ELSE r]
    /\ delta' = [o \in Operations |-> 0]
    /\ conn' = [c \in Conns |-> Free]
    /\ up' = FALSE
    /\ UNCHANGED <<pid, primary, writable>>

\* The process ends on an error PostgreSQL raises: nothing is flushed.
Exit ==
    /\ up /\ pid < MaxPids
    /\ up' = FALSE
    /\ delta' = [o \in Operations |-> 0]
    /\ conn' = [c \in Conns |-> Free]
    /\ UNCHANGED <<pid, primary, writable, row>>

Start ==
    /\ ~up
    /\ up' = TRUE
    /\ pid' = pid + 1
    /\ primary' = writable
    /\ UNCHANGED <<conn, writable, delta, row>>

Promote ==
    /\ ~writable
    /\ writable' = TRUE
    /\ UNCHANGED <<conn, up, pid, primary, delta, row>>

-----------------------------------------------------------------------------
(* The peers and the clock                                                 *)

Peer(c, k) ==
    /\ conn' = [conn EXCEPT ![c] = k]
    /\ UNCHANGED <<up, pid, primary, writable, delta, row>>

Connect(c) ==
    /\ up /\ conn[c].phase = "free"
    /\ Peer(c, [Free EXCEPT !.phase = "queued"])

Send(c, batch) ==
    /\ conn[c].phase # "free" /\ ~conn[c].eof /\ ~conn[c].broken
    /\ conn[c].todo = <<>> /\ conn[c].sent < MaxBatches
    /\ Peer(c, [conn[c] EXCEPT !.todo = FlattenSeq([i \in DOMAIN batch |-> Message(batch[i])]),
                               !.sent = @ + 1])

Arrive(c) ==
    /\ conn[c].todo # <<>>
    /\ Peer(c, [conn[c] EXCEPT !.wire = Append(@, Head(conn[c].todo)),
                               !.todo = Tail(@)])

Hangup(c) ==
    /\ Open(conn[c]) /\ ~conn[c].eof
    /\ Peer(c, [conn[c] EXCEPT !.todo = <<>>, !.eof = TRUE])

Break(c) ==
    /\ Open(conn[c]) /\ ~conn[c].broken
    /\ Peer(c, [conn[c] EXCEPT !.todo = <<>>, !.wire = <<>>, !.broken = TRUE])

\* The peer stops reading.
Stall(c) ==
    /\ Open(conn[c]) /\ ~conn[c].stalled
    /\ Peer(c, [conn[c] EXCEPT !.stalled = TRUE])

\* An idle_timeout has passed since the worker last read or wrote here.
Idle(c) ==
    /\ Open(conn[c]) /\ ~conn[c].idle
    /\ Peer(c, [conn[c] EXCEPT !.idle = TRUE])

-----------------------------------------------------------------------------
Init ==
    /\ conn = [c \in Conns |-> Free]
    /\ up = TRUE
    /\ pid = 1
    /\ writable \in BOOLEAN
    /\ primary = writable
    /\ delta = [o \in Operations |-> 0]
    /\ row = [o \in Operations |-> [pid |-> 0, in_flight |-> 0]]

PeerNext(c) ==
    \/ Connect(c) \/ Arrive(c) \/ Hangup(c) \/ Break(c) \/ Stall(c)
    \/ \E batch \in Batches : Send(c, batch)

Next ==
    \/ \E c \in Conns : Drive(c) \/ Accept(c) \/ Idle(c) \/ PeerNext(c)
    \/ Heartbeat \/ Rebind \/ Stop \/ Exit \/ Start \/ Promote

Spec == Init /\ [][Next]_vars

\* The worker's loop sleeps at most REACTOR_MAX_SLEEP, so it comes round to
\* every connection; and time passes.  Nothing is assumed of the peers.
Fairness ==
    \A c \in Conns : WF_vars(Drive(c)) /\ WF_vars(Idle(c))

FairSpec == Spec /\ Fairness

-----------------------------------------------------------------------------
(* Properties                                                              *)

\* The worker's state is well formed; between two drives no outcome is left
\* unsettled and no request half accounted for (the outcome arms of drive_connections).
TypeOK ==
    /\ conn \in [Conns -> Connection]
    /\ \A c \in Conns : conn[c].out = "go" /\ ~conn[c].started
    /\ up \in BOOLEAN /\ writable \in BOOLEAN /\ primary \in BOOLEAN
    /\ pid \in 1..MaxPids
    /\ delta \in [Operations -> Int]
    /\ row \in [Operations -> [pid : 0..MaxPids, in_flight : Nat]]

InFlight(o) == Cardinality({c \in Conns : conn[c].active /\ conn[c].metric = o})

\* The view pgs3.stats.
Shown(o) == IF up /\ row[o].pid = pid THEN row[o].in_flight ELSE 0

\* The in-flight gauge of an operation in pgs3.stats, with the delta not yet
\* flushed, is the number of connections inside a request of that operation,
\* through failed flushes, panics, reclassification, keep-alive, crashes and
\* replacement processes; a worker that began on a standby may only show less.
InFlightExact ==
    up => \A o \in Operations :
            /\ Shown(o) + delta[o] <= InFlight(o)
            /\ primary => Shown(o) + delta[o] = InFlight(o)

\* A session the service has opened is settled, finished, failed, aborted or
\* lost (its guarded abort panics), before the exchange leaves the body phase,
\* and never used after that.
SessionSettled ==
    \A c \in Conns : (conn[c].phase = "body") <=> (conn[c].session = "open")

\* The worker and the peer agree where a message begins: what the worker will
\* parse as a request head is never the rest of an entity.
InStep ==
    \A c \in Conns :
        LET unread == conn[c].wire \o conn[c].todo
        IN conn[c].phase = "head" /\ unread # <<>> =>
             unread[1].t = IF conn[c].active THEN "head" ELSE "part"

\* A request that was begun ends: it is answered or its connection is closed.
\* The worker waits on no peer for longer than an idle timeout.
RequestEnds ==
    \A c \in Conns : conn[c].active ~> ~conn[c].active
=============================================================================
