------------------------------ MODULE Launcher ------------------------------
(***************************************************************************)
(* The worker pool (src/src/workers/launcher.rs): launchers that keep one  *)
(* HTTP worker per slot and one collector running, the control functions   *)
(* pgs3.start() and pgs3.stop(), and the rows of pgs3.worker_state through *)
(* which they coordinate (src/src/workers/mod.rs,                          *)
(* src/sql/worker_runtime.sql).                                            *)
(*                                                                         *)
(* A launcher is a loop of short transactions; each of them, and each wait *)
(* for a process, is an action, so that two launchers, a control function  *)
(* and dying workers interleave as they do in one server.  A static        *)
(* launcher is registered with the postmaster, which starts it again when  *)
(* it crashes; a dynamic one and the workers are not started again.        *)
(***************************************************************************)
EXTENDS Naturals, FiniteSets, Functions

CONSTANTS
    MaxWorkers,     \* bound: values of pgs3.workers
    WithCollector,  \* whether the instance has the collector's slot
    MaxEvents,      \* bound: control calls, SIGHUPs, changes of the grants of
                    \* pgs3.server_role, workers that end by themselves or do
                    \* not start, waits that time out, promotion
    MaxCrashes,     \* bound: crashes of a launcher
    MaxPid,         \* bound: pids that are in use or still remembered
    Roles,          \* values of pgs3.server_role
    Hasty           \* whether a control call or a reload may come before the
                    \* launcher has taken up what was asked of it before

ASSUME LauncherAssumption ==
    /\ WithCollector \in BOOLEAN /\ Hasty \in BOOLEAN /\ Roles # {}
    /\ MaxWorkers \in Nat \ {0} /\ MaxPid \in Nat \ {0}
    /\ {MaxEvents, MaxCrashes} \subseteq Nat

Http == 0..(MaxWorkers - 1)
Gc == IF WithCollector THEN {MaxWorkers} ELSE {}
Slots == Http \cup Gc
Pids == 1..MaxPid
Modes == {"static", "dynamic"}

VARIABLES
    enabled, workers, role,     \* the settings
    ready,              \* the roles of which server_role_ready holds
    writable,           \* the server is not in recovery
    launcher,           \* the launchers that run, by pid
    child,              \* the workers that run, by pid
    term,               \* processes with a SIGTERM they have not acted on
    hup,                \* launchers with a SIGHUP they have not acted on
    static,             \* the postmaster's registration: "none", "up", "restart"
    lrow,               \* the launcher's row of worker_state
    crow,               \* the workers' rows, without the status they show
    call,               \* the control function that holds CONTROL_LOCK
    asked,              \* history: what was asked for last, and by whom
    budget              \* what is left of the bounds on the environment

settings == <<enabled, workers, role, ready, writable>>
processes == <<launcher, child, term, hup, static>>
rows == <<lrow, crow>>
vars == <<settings, processes, rows, call, asked, budget>>

NoCall == [pc |-> "done", pid |-> 0, mode |-> "none", ok |-> TRUE,
           wait |-> {},     \* workers still to be terminated
           at |-> 0,        \* the process whose end pg_terminate_backend awaits
           clear |-> TRUE]  \* history: no other request and no crash since

Setting(on) == IF on THEN "enabled" ELSE "disabled"

\* pgs3_launcher_main before its first loop.  A process has its own copy of the
\* configuration, which changes when it acts on SIGHUP.
NewLauncher(mode) ==
    [mode |-> mode, pc |-> "top", owned |-> FALSE,
     desired |-> (mode = "dynamic" \/ enabled),
     writes |-> FALSE,                       \* runtime_is_writable in this loop
     workers |-> workers, configured |-> role,
     role |-> role,                          \* WorkerPool.server_role
     orphans |-> {}, at |-> 0,               \* workers to end, the one awaited
     pool |-> [s \in Slots |-> 0],           \* ManagedWorker of each slot
     stopping |-> {}, spawning |-> {},       \* slots to stop and to start
     starting |-> {},                        \* the slot being started
     wanted |-> FALSE]                       \* desired_after_stop

\* The next process gets a pid that nothing refers to any more.
Remembered ==
    DOMAIN launcher \cup DOMAIN child \cup {child[c].parent : c \in DOMAIN child}
    \cup UNION {Range(launcher[p].pool) \cup launcher[p].orphans \cup {launcher[p].at} :
                 p \in DOMAIN launcher}
    \cup {lrow.pid, call.pid, call.at} \cup call.wait
    \cup UNION {{crow[s].pid, crow[s].launcher} : s \in Slots}

FreePids == Pids \ Remembered

NewPid == CHOOSE p \in FreePids : \A q \in FreePids : p <= q

\* The processes f with a new one, while the bound on pids leaves one.
Started(f, process) ==
    [p \in DOMAIN f \cup {NewPid} |-> IF p = NewPid THEN process ELSE f[p]]

Spend(what) == budget[what] > 0 /\ budget' = [budget EXCEPT ![what] = @ - 1]

Set(p, l) == launcher' = [launcher EXCEPT ![p] = l]

-----------------------------------------------------------------------------
(* The loop of a launcher                                                  *)

\* The slots a launcher has workers in.
Filled(l) == {s \in Slots : l.pool[s] # 0}

\* The workers that were to be stopped and to be started are, and the launcher
\* goes on.
Idle(l) == l.stopping = {} /\ l.spawning = {} /\ l.starting = {}

\* The loop starts, or comes round because wait_latch has seen no SIGTERM.
AtTop(p) ==
    LET l == launcher[p]
    IN l.pc = "top" \/ (l.pc = "wait" /\ Idle(l) /\ p \notin term)

\* SIGHUP: the process reads the settings, and a static launcher that owns the
\* launcher's row writes into it what is wanted now.
SighupReceived(p) ==
    LET l == launcher[p]
        desired == IF l.mode = "static" THEN enabled ELSE l.desired
    IN /\ AtTop(p) /\ p \in hup
       /\ hup' = hup \ {p}
       /\ Set(p, [l EXCEPT !.pc = "top", !.workers = workers, !.configured = role,
                           !.desired = desired])
       /\ lrow' = IF l.mode = "static" /\ l.owned /\ writable /\ lrow.pid = p
                  THEN [lrow EXCEPT !.desired = enabled] ELSE lrow
       /\ UNCHANGED <<settings, child, term, static, crow, call, asked, budget>>

\* The reconciliation of a launcher that owns no row starts with every worker
\* pg_stat_activity shows, whoever started it: ...
cleanup_orphan_children(p) ==
    LET l == launcher[p]
    IN /\ AtTop(p) /\ p \notin hup /\ writable /\ ~l.owned
       /\ Set(p, [l EXCEPT !.pc = "claim", !.writes = TRUE, !.orphans = DOMAIN child])
       /\ UNCHANGED <<settings, child, term, hup, static, rows, call, asked, budget>>

\* ... one after the other they are signalled and awaited, two seconds at most.
terminate_orphan(p) ==
    LET l == launcher[p]
    IN /\ \/ \E c \in l.orphans :
               /\ l.at = 0
               /\ Set(p, [l EXCEPT !.orphans = @ \ {c}, !.at = IF c \in DOMAIN child THEN c ELSE 0])
               /\ term' = IF c \in DOMAIN child THEN term \cup {c} ELSE term
               /\ UNCHANGED budget
          \/ /\ l.at # 0
             /\ \/ l.at \notin DOMAIN child /\ UNCHANGED budget
                \/ l.at \in DOMAIN child /\ Spend("events")
             /\ Set(p, [l EXCEPT !.at = 0])
             /\ UNCHANGED term
       /\ UNCHANGED <<settings, child, hup, static, rows, call, asked>>

\* On a standby it has no row to look at.
StandbyReconciles(p) ==
    /\ AtTop(p) /\ p \notin hup /\ ~writable
    /\ Set(p, [launcher[p] EXCEPT !.pc = "decide", !.writes = FALSE])
    /\ UNCHANGED <<settings, child, term, hup, static, rows, call, asked, budget>>

claim_launcher_state(p) ==
    LET l == launcher[p]
        desired == IF lrow.pid = p THEN lrow.desired ELSE l.desired
    IN /\ l.pc = "claim" /\ l.orphans = {} /\ l.at = 0
       /\ lrow' = [pid |-> p, mode |-> l.mode, desired |-> desired]
       /\ Set(p, [l EXCEPT !.pc = "beat", !.owned = TRUE, !.desired = desired])
       /\ UNCHANGED <<settings, child, term, hup, static, crow, call, asked, budget>>

\* Variant: a launcher that was replaced goes on.
heartbeat_launcher_stays(p) ==
    LET l == launcher[p]
    IN /\ l.pc = "beat" \/ (AtTop(p) /\ p \notin hup /\ l.owned)
       /\ Set(p, [l EXCEPT !.pc = "decide", !.writes = TRUE,
                           !.desired = IF lrow.pid = p THEN lrow.desired ELSE @])
       /\ UNCHANGED <<settings, child, term, hup, static, rows, call, asked, budget>>

\* A launcher whose row has another pid leaves.
heartbeat_launcher(p) ==
    LET l == launcher[p]
    IN /\ l.pc = "beat" \/ (AtTop(p) /\ p \notin hup /\ l.owned)
       /\ Set(p, IF lrow.pid = p
                 THEN [l EXCEPT !.pc = "decide", !.writes = TRUE, !.desired = lrow.desired]
                 ELSE [l EXCEPT !.pc = "leave", !.stopping = Filled(l), !.wanted = FALSE])
       /\ UNCHANGED <<settings, child, term, hup, static, rows, call, asked, budget>>

ErrorRow(p) == [pid |-> 0, launcher |-> p, desired |-> TRUE]

\* WorkerPool::reconcile: workers that have ended are forgotten, and all HTTP
\* workers stopped if the role has changed, otherwise the surplus ones.  A
\* launcher that is not to run stops every worker.
Decide(p) ==
    LET l == launcher[p]
        gone == {s \in Filled(l) : l.pool[s] \notin DOMAIN child}
        left == Filled(l) \ gone
        changed == l.configured # l.role
    IN /\ l.pc = "decide"
       /\ \/ /\ l.desired
             /\ Set(p, [l EXCEPT !.pc = "ready",
                                 !.pool = [s \in Slots |-> IF s \in gone THEN 0 ELSE @[s]],
                                 !.role = l.configured, !.wanted = changed,
                                 !.stopping = {s \in left \cap Http : changed \/ s >= l.workers}])
             /\ crow' = IF ~writable THEN crow
                        ELSE [s \in Slots |-> IF s \in gone THEN ErrorRow(p) ELSE crow[s]]
          \/ /\ ~l.desired
             /\ Set(p, [l EXCEPT !.pc = "wait", !.stopping = Filled(l), !.wanted = FALSE])
             /\ UNCHANGED crow
       /\ UNCHANGED <<settings, child, term, hup, static, lrow, call, asked, budget>>

\* The slots of the HTTP workers a launcher is configured to have.
Configured(l) == {s \in Http : s < l.workers}

\* server_role_ready: the empty slots are filled, or every HTTP worker stopped ...
Ready(p) ==
    LET l == launcher[p]
    IN /\ l.pc = "ready" /\ Idle(l)
       /\ Set(p, IF l.role \in ready
                 THEN [l EXCEPT !.pc = "gc", !.spawning = Configured(l) \ Filled(l)]
                 ELSE [l EXCEPT !.pc = "refuse", !.stopping = Filled(l) \cap Http,
                                !.wanted = TRUE])
       /\ UNCHANGED <<settings, child, term, hup, static, rows, call, asked, budget>>

\* ... and then the rows say why.
Refuse(p) ==
    LET l == launcher[p]
    IN /\ l.pc = "refuse" /\ Idle(l)
       /\ Set(p, [l EXCEPT !.pc = "gc"])
       /\ crow' = IF ~writable THEN crow
                  ELSE [s \in Slots |-> IF s \in Configured(l) THEN ErrorRow(p) ELSE crow[s]]
       /\ UNCHANGED <<settings, child, term, hup, static, lrow, call, asked, budget>>

\* A standby has no collector.
Collector(p) ==
    LET l == launcher[p]
    IN /\ l.pc = "gc" /\ Idle(l)
       /\ Set(p, IF l.writes
                 THEN [l EXCEPT !.pc = "wait", !.spawning = Gc \ Filled(l)]
                 ELSE [l EXCEPT !.pc = "wait", !.stopping = Filled(l) \cap Gc, !.wanted = FALSE])
       /\ UNCHANGED <<settings, child, term, hup, static, rows, call, asked, budget>>

\* Variant: the pid is signalled although its process may have ended.
Terminate_stale(p) ==
    /\ \E s \in launcher[p].stopping :
          launcher[p].pool[s] \notin term /\ term' = term \cup {launcher[p].pool[s]}
    /\ UNCHANGED <<settings, launcher, child, hup, static, rows, call, asked, budget>>

\* stop_managed terminates the worker, ...
Terminate(p) ==
    /\ \E s \in launcher[p].stopping :
          LET c == launcher[p].pool[s]
          IN c \in DOMAIN child /\ c \notin term /\ term' = term \cup {c}
    /\ UNCHANGED <<settings, launcher, child, hup, static, rows, call, asked, budget>>

\* ... waits for its end and records it in the row, if the row is still its own.
record_child_stopped(p) ==
    LET l == launcher[p]
    IN /\ \E s \in l.stopping :
            /\ l.pool[s] \notin DOMAIN child
            /\ Set(p, [l EXCEPT !.pool[s] = 0, !.stopping = @ \ {s}])
            /\ crow' = IF writable /\ crow[s].launcher = p
                       THEN [crow EXCEPT ![s].desired = l.wanted]
                       ELSE crow
       /\ UNCHANGED <<settings, child, term, hup, static, lrow, call, asked, budget>>

\* spawn_child: the postmaster starts the process, or cannot.  A worker takes its
\* role from the settings of its start and keeps it.
spawn_child(p) ==
    LET l == launcher[p]
    IN /\ l.starting = {}
       /\ \E s \in l.spawning :
            \/ /\ FreePids # {}
               /\ child' = Started(child, [slot |-> s, parent |-> p, role |-> role])
               /\ Set(p, [l EXCEPT !.pool[s] = NewPid, !.starting = {s}, !.spawning = @ \ {s}])
               /\ UNCHANGED <<crow, budget>>
            \/ /\ Spend("events")
               /\ Set(p, [l EXCEPT !.spawning = @ \ {s}])
               /\ crow' = IF writable THEN [crow EXCEPT ![s] = ErrorRow(p)] ELSE crow
               /\ UNCHANGED child
       /\ UNCHANGED <<settings, term, hup, static, lrow, call, asked>>

record_child_starting(p) ==
    LET l == launcher[p]
    IN /\ \E s \in l.starting :
            crow' = IF ~writable THEN crow
                    ELSE [crow EXCEPT ![s] =
                            [pid |-> l.pool[s], launcher |-> p, desired |-> TRUE]]
       /\ Set(p, [l EXCEPT !.starting = {}])
       /\ UNCHANGED <<settings, child, term, hup, static, lrow, call, asked, budget>>

\* A launcher told to stop leaves through stop_all.
SigtermReceived(p) ==
    LET l == launcher[p]
    IN /\ l.pc = "wait" /\ Idle(l) /\ p \in term
       /\ Set(p, [l EXCEPT !.pc = "leave", !.stopping = Filled(l), !.wanted = FALSE])
       /\ UNCHANGED <<settings, child, term, hup, static, rows, call, asked, budget>>

Gone(p) ==
    /\ launcher' = Restrict(launcher, DOMAIN launcher \ {p})
    /\ term' = term \ {p}
    /\ hup' = hup \ {p}

\* mark_launcher_stopped; a normal end also ends the registration.
Leave(p) ==
    LET l == launcher[p]
    IN /\ l.pc = "leave" /\ Idle(l)
       /\ Gone(p)
       /\ static' = IF l.mode = "static" THEN "none" ELSE static
       /\ lrow' = IF l.owned /\ writable /\ lrow.pid = p
                  THEN [lrow EXCEPT !.desired = FALSE] ELSE lrow
       /\ UNCHANGED <<settings, child, crow, call, asked, budget>>

Loop(p) ==
    \/ SighupReceived(p) \/ cleanup_orphan_children(p) \/ terminate_orphan(p) \/ StandbyReconciles(p)
    \/ claim_launcher_state(p) \/ heartbeat_launcher(p)
    \/ Decide(p) \/ Ready(p) \/ Refuse(p) \/ Collector(p)
    \/ Terminate(p) \/ record_child_stopped(p) \/ spawn_child(p)
    \/ record_child_starting(p) \/ SigtermReceived(p) \/ Leave(p)

-----------------------------------------------------------------------------
(* The workers                                                             *)

\* pgs3._worker_set_state: a row of another launcher is left alone.  A worker
\* that stops writes the same row as one that runs, but for the status.
Recorded(c) ==
    LET s == child[c].slot
    IN IF writable /\ crow[s].launcher \in {0, child[c].parent}
       THEN [crow EXCEPT ![s] = [pid |-> c, launcher |-> child[c].parent, desired |-> TRUE]]
       ELSE crow

Ended(c) ==
    /\ child' = Restrict(child, DOMAIN child \ {c})
    /\ term' = term \ {c}

Running(c) ==
    /\ crow' = Recorded(c)
    /\ UNCHANGED <<settings, processes, lrow, call, asked, budget>>

Stopped(c) ==
    /\ c \in term
    /\ crow' = Recorded(c)
    /\ Ended(c)
    /\ UNCHANGED <<settings, launcher, hup, static, lrow, call, asked, budget>>

\* A worker ends without a word: an error, a missing schema, a failed bind.
ExitsAlone(c) ==
    /\ Spend("events")
    /\ Ended(c)
    /\ UNCHANGED <<settings, launcher, hup, static, rows, call, asked>>

-----------------------------------------------------------------------------
(* pgs3.start() and pgs3.stop()                                            *)

\* A launcher pg_stat_activity shows (the code takes the oldest), and its mode
\* if the row is its own.
active_launcher ==
    IF DOMAIN launcher = {} THEN {[pid |-> 0, mode |-> "none"]}
    ELSE {[pid |-> p, mode |-> IF lrow.pid = p THEN lrow.mode ELSE "none"] :
            p \in DOMAIN launcher}

\* Every launcher runs, owns the row and has no signal to act on.
Calm ==
    \A p \in DOMAIN launcher :
       p \notin hup \cup term /\ launcher[p].pc # "leave" /\ launcher[p].owned /\ lrow.pid = p

\* A call that finds the static launcher crashed, and so about to come back, is
\* not clear about what the pool is going to be.
Call(op) ==
    /\ call.pc = "done" /\ writable /\ (Hasty \/ Calm)
    /\ Spend("events")
    /\ call' = [NoCall EXCEPT !.pc = op, !.clear = static # "restart"]
    /\ UNCHANGED <<settings, processes, rows, asked>>

Return(what) ==
    /\ call' = NoCall
    /\ asked' = IF call.clear THEN what ELSE "unclear"

\* start_dynamic gives up: a pool in another database, no advisory lock, a
\* launcher that cannot be registered or does not start, a row not written.
StartRefused ==
    /\ call.pc \in {"start", "desire"}
    /\ Spend("events")
    /\ call' = NoCall
    /\ UNCHANGED <<settings, processes, rows, asked>>

\* start_dynamic without a launcher: register one and wait for its startup.
StartNew ==
    /\ call.pc = "start" /\ DOMAIN launcher = {}
    /\ FreePids # {}
    /\ launcher' = Started(launcher, NewLauncher("dynamic"))
    /\ Return("started")
    /\ UNCHANGED <<settings, child, term, hup, static, rows, budget>>

\* start_dynamic with one, and set_existing_launcher_desired in two statements.
StartFound ==
    /\ call.pc = "start" /\ DOMAIN launcher # {}
    /\ \E a \in active_launcher :
          call' = [call EXCEPT !.pc = "desire", !.pid = a.pid, !.mode = a.mode]
    /\ UNCHANGED <<settings, processes, rows, asked, budget>>

set_existing_launcher_desired ==
    /\ call.pc = "desire"
    /\ lrow' = [pid |-> call.pid, desired |-> TRUE,
                mode |-> IF call.mode = "none" THEN "static" ELSE call.mode]
    /\ Return("started")
    /\ UNCHANGED <<settings, processes, crow, budget>>

\* stop_dynamic: the launcher and the workers of one snapshot of
\* pg_stat_activity, which a transaction takes once.
StopFound ==
    /\ call.pc = "stop"
    /\ \E a \in active_launcher :
          call' = [call EXCEPT !.pc = "children", !.wait = DOMAIN child,
                               !.pid = a.pid, !.mode = a.mode]
    /\ UNCHANGED <<settings, processes, rows, asked, budget>>

\* pg_terminate_backend is false of a process that has ended before; otherwise
\* it signals the process and waits.
Signalled(c, pid, running) ==
    /\ term' = IF pid \in running THEN term \cup {pid} ELSE term
    /\ call' = IF pid \in running THEN [c EXCEPT !.at = pid] ELSE [c EXCEPT !.ok = FALSE]

\* The workers one after the other, ...
terminate_live_children ==
    /\ call.pc = "children" /\ call.at = 0
    /\ \E c \in call.wait :
          Signalled([call EXCEPT !.wait = @ \ {c}], c, DOMAIN child)
    /\ UNCHANGED <<settings, launcher, child, hup, static, rows, asked, budget>>

\* ... then, if the launcher is known to be dynamic, the launcher.
terminate_pid ==
    LET marks == [call EXCEPT !.pc = "mark"]
    IN /\ call.pc = "children" /\ call.at = 0 /\ call.wait = {}
       /\ \/ call.mode = "dynamic" /\ Signalled(marks, call.pid, DOMAIN launcher)
          \/ call.mode # "dynamic" /\ call' = marks /\ UNCHANGED term
       /\ UNCHANGED <<settings, launcher, child, hup, static, rows, asked, budget>>

\* The wait ends with the process, or times out, and stop() will return false.
Awaited ==
    /\ call.at # 0
    /\ \/ /\ call.at \notin DOMAIN launcher \cup DOMAIN child
          /\ call' = [call EXCEPT !.at = 0]
          /\ UNCHANGED budget
       \/ /\ call.at \in DOMAIN launcher \cup DOMAIN child
          /\ Spend("events")
          /\ call' = [call EXCEPT !.at = 0, !.ok = FALSE]
    /\ UNCHANGED <<settings, processes, rows, asked>>

mark_pool_stopped ==
    /\ call.pc = "mark" /\ call.at = 0
    /\ crow' = [s \in Slots |-> [crow[s] EXCEPT !.desired = FALSE]]
    /\ lrow' = IF lrow.mode # "none" \/ lrow.pid # 0 THEN [lrow EXCEPT !.desired = FALSE]
               ELSE [pid |-> IF call.mode = "none" THEN 0 ELSE call.pid,
                     mode |-> call.mode, desired |-> FALSE]
    /\ Return(IF call.ok THEN "stopped" ELSE "stop failed")
    /\ UNCHANGED <<settings, processes, budget>>

Control ==
    \/ StartRefused \/ StartNew \/ StartFound \/ set_existing_launcher_desired
    \/ StopFound \/ terminate_live_children \/ terminate_pid \/ Awaited \/ mark_pool_stopped

-----------------------------------------------------------------------------
(* The server                                                              *)

\* A request or a crash during a control call: which of the two counts is open.
Overtaken == call' = [call EXCEPT !.clear = call.pc = "done"]

\* A launcher crashes and its workers stay.  The static one comes back with the
\* setting.
Crash(p) ==
    /\ Spend("crashes")
    /\ Gone(p)
    /\ static' = IF launcher[p].mode = "static" THEN "restart" ELSE static
    /\ asked' = IF asked = "unclear" THEN asked
                ELSE IF launcher[p].mode = "static" THEN Setting(enabled) ELSE "crashed"
    /\ Overtaken
    /\ UNCHANGED <<settings, child, rows>>

\* The postmaster starts the static launcher again.
Restart ==
    /\ static = "restart"
    /\ static' = "up"
    /\ FreePids # {}
    /\ launcher' = Started(launcher, NewLauncher("static"))
    /\ UNCHANGED <<settings, child, term, hup, rows, call, asked, budget>>

\* Every launcher has acted on the last reload, on a changed role too.
TakenUp ==
    \A p \in DOMAIN launcher :
       LET l == launcher[p]
       IN p \notin hup /\ (l.configured = l.role \/ Filled(l) \cap Http = {})

\* A dynamic launcher does not look at pgs3.enabled.
Reload ==
    /\ Spend("events") /\ (Hasty \/ TakenUp)
    /\ enabled' \in BOOLEAN /\ workers' \in 1..MaxWorkers /\ role' \in Roles
    /\ hup' = hup \cup DOMAIN launcher
    /\ asked' = IF static = "none" \/ asked = "unclear" THEN asked ELSE Setting(enabled')
    /\ Overtaken
    /\ UNCHANGED <<ready, writable, launcher, child, term, static, rows>>

Drift ==
    /\ Spend("events")
    /\ \E r \in Roles : ready' = IF r \in ready THEN ready \ {r} ELSE ready \cup {r}
    /\ UNCHANGED <<enabled, workers, role, writable, processes, rows, call, asked>>

Promote ==
    /\ ~writable /\ Spend("events")
    /\ writable' = TRUE
    /\ UNCHANGED <<enabled, workers, role, ready, processes, rows, call, asked>>

-----------------------------------------------------------------------------
Init ==
    /\ enabled \in BOOLEAN /\ workers \in 1..MaxWorkers
    /\ role = (CHOOSE r \in Roles : TRUE) /\ ready = Roles /\ writable \in BOOLEAN
    /\ static \in {"none", "up"}
    /\ launcher = [p \in (IF static = "up" THEN {1} ELSE {}) |-> NewLauncher("static")]
    /\ child = <<>> /\ term = {} /\ hup = {}
    /\ lrow = [pid |-> 0, mode |-> "none", desired |-> FALSE]
    /\ crow = [s \in Slots |-> [pid |-> 0, launcher |-> 0, desired |-> FALSE]]
    /\ call = NoCall /\ asked = Setting(static = "up" /\ enabled)
    /\ budget = [events |-> MaxEvents, crashes |-> MaxCrashes]

Next ==
    \/ \E p \in DOMAIN launcher : Loop(p) \/ Crash(p)
    \/ \E c \in DOMAIN child : Running(c) \/ Stopped(c) \/ ExitsAlone(c)
    \/ Control \/ \E op \in {"start", "stop"} : Call(op)
    \/ Restart \/ Reload \/ Drift \/ Promote

Spec == Init /\ [][Next]_vars

\* A launcher loops every 250 ms, a worker acts on SIGTERM and records itself
\* every second, a control function runs to its end, the postmaster restarts.
Fairness ==
    /\ \A p \in Pids : WF_vars(p \in DOMAIN launcher /\ Loop(p))
    /\ \A c \in Pids : WF_vars(c \in DOMAIN child /\ Running(c))
    /\ \A c \in Pids : WF_vars(c \in DOMAIN child /\ Stopped(c))
    /\ WF_vars(Control) /\ WF_vars(Restart)

FairSpec == Spec /\ Fairness

-----------------------------------------------------------------------------
(* Properties                                                              *)

\* The state is well formed: pools and rows name pids in use or zero, and a
\* signal is pending only for a process that runs (stop_managed and the
\* control functions signal no process that has ended).
TypeOK ==
    /\ enabled \in BOOLEAN /\ workers \in 1..MaxWorkers
    /\ role \in Roles /\ ready \subseteq Roles /\ writable \in BOOLEAN
    /\ DOMAIN launcher \subseteq Pids /\ DOMAIN child \subseteq Pids
    /\ \A p \in DOMAIN launcher :
          /\ launcher[p].mode \in Modes
          /\ launcher[p].pool \in [Slots -> Pids \cup {0}]
    /\ \A c \in DOMAIN child :
          child[c].slot \in Slots /\ child[c].parent \in Pids /\ child[c].role \in Roles
    /\ term \subseteq DOMAIN launcher \cup DOMAIN child
    /\ hup \subseteq DOMAIN launcher
    /\ lrow \in [pid : Pids \cup {0}, mode : Modes \cup {"none"}, desired : BOOLEAN]
    /\ crow \in [Slots -> [pid : Pids \cup {0}, launcher : Pids \cup {0}, desired : BOOLEAN]]

Workers(s) == {c \in DOMAIN child : child[c].slot = s}

\* Every HTTP worker runs as the role that is configured now.
Identified == \A c \in DOMAIN child : child[c].slot \in Http => child[c].role = role

\* The pool is on: one launcher, and its workers, one per slot, are the only ones;
\* there is no HTTP worker without a usable role, or with another one.  A row that
\* this launcher or its worker wrote last names the worker.
On ==
    LET wanted == Gc \cup {s \in Http : s < workers /\ role \in ready}
    IN \E p \in DOMAIN launcher :
         /\ DOMAIN launcher = {p}
         /\ \A c \in DOMAIN child :
              LET row == crow[child[c].slot]
              IN child[c].parent = p /\ (row.launcher = p => row.pid = c /\ row.desired)
         /\ \A s \in Slots : Cardinality(Workers(s)) = IF s \in wanted THEN 1 ELSE 0
         /\ Identified

\* It is off: no worker runs, and no launcher but the static one.
Off == DOMAIN child = {} /\ \A p \in DOMAIN launcher : launcher[p].mode = "static"

\* The workers of a dynamic launcher that crashed stay, nobody looks after them.
Orphaned == DOMAIN launcher = {} /\ \A s \in Slots : Cardinality(Workers(s)) <= 1

\* The pool is what was asked for: by the setting, to which the static launcher
\* listens, or by the last of pgs3.start() and pgs3.stop(), also by a stop() that
\* returns false because it has not seen every process end.
Converged ==
    writable =>
      CASE asked \in {"enabled", "started"} -> On
        [] asked \in {"disabled", "stopped", "stop failed"} -> Off
        [] asked = "crashed" -> Orphaned
        [] asked = "unclear" -> On \/ Off \/ Orphaned

\* However launchers crash, restart and replace each other, workers die, grants
\* drift, settings and control calls interleave: once that ends, the pool becomes
\* what was last asked for, and stays so.
PoolConverges == <>[]Converged


\* "Start or reactivate the pool in the caller's current database": when start()
\* has returned true and nothing is asked for after it, a launcher is left to keep
\* the workers running.
StartStarts == (asked = "started") ~> (asked # "started" \/ DOMAIN launcher # {})

\* "On SIGHUP the launcher stops old-identity listeners": in the end no worker
\* runs as a role that is not configured any more.
RoleFollows == <>[]Identified
=============================================================================
