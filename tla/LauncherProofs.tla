--------------------------- MODULE LauncherProofs ---------------------------
(***************************************************************************)
(* Theorem about Launcher, for any numbers of slots, events, crashes and   *)
(* pids.                                                                   *)
(***************************************************************************)
EXTENDS Launcher, LeastElements, TLAPS

\* A launcher between two of its transactions: the slots it is going to stop
\* and to start, and the slot whose start it has not recorded yet, are slots.
LauncherOK(l) ==
    l \in [mode : Modes,
           pc : {"top", "claim", "beat", "decide", "ready", "refuse", "gc", "wait", "leave"},
           owned : BOOLEAN, desired : BOOLEAN, writes : BOOLEAN,
           workers : 1 .. MaxWorkers, configured : Roles, role : Roles,
           orphans : SUBSET Pids, at : Pids \cup {0},
           pool : [Slots -> Pids \cup {0}],
           stopping : SUBSET Slots, spawning : SUBSET Slots, starting : SUBSET Slots,
           wanted : BOOLEAN]

\* A control function waits for processes it has seen running, and a mode
\* that it has read is one of a launcher's row.
CallOK ==
    call \in [pc : {"done", "start", "desire", "stop", "children", "mark"},
              pid : Pids \cup {0}, mode : Modes \cup {"none"}, ok : BOOLEAN,
              wait : SUBSET Pids, at : Pids \cup {0}, clear : BOOLEAN]

\* The settings.
SettingsOK ==
    /\ enabled \in BOOLEAN /\ workers \in 1..MaxWorkers
    /\ role \in Roles /\ ready \subseteq Roles /\ writable \in BOOLEAN

\* The processes: a signal is pending for one that runs.
LaunchersOK ==
    /\ DOMAIN launcher \subseteq Pids
    /\ \A p \in DOMAIN launcher : LauncherOK(launcher[p])
    /\ hup \subseteq DOMAIN launcher
\* The workers.
ChildrenOK ==
    /\ DOMAIN child \subseteq Pids
    /\ \A c \in DOMAIN child :
          child[c].slot \in Slots /\ child[c].parent \in Pids /\ child[c].role \in Roles
\* The signals.
TermOK == term \subseteq DOMAIN launcher \cup DOMAIN child

\* The rows of worker_state: the launcher's, and the workers'.
LrowOK == lrow \in [pid : Pids \cup {0}, mode : Modes \cup {"none"}, desired : BOOLEAN]
\* A row of a worker.
RowOK(r) == r \in [pid : Pids \cup {0}, launcher : Pids \cup {0}, desired : BOOLEAN]
\* The rows of the workers.
CrowOK == crow = [s \in Slots |-> crow[s]] /\ \A s \in Slots : RowOK(crow[s])

\* The inductive invariant.
Inv == SettingsOK /\ LaunchersOK /\ ChildrenOK /\ TermOK /\ LrowOK /\ CrowOK /\ CallOK

\* The bounds that the first state needs.
LEMMA BoundsNat == 1 \in Pids /\ MaxWorkers \in 1 .. MaxWorkers
BY LauncherAssumption DEF Pids

\* A new process has a pid of its own.
LEMMA NewPidIs ==
    ASSUME FreePids # {}
    PROVE  NewPid \in Pids
<1>1. FreePids \subseteq Nat /\ FreePids \subseteq Pids
  BY DEF FreePids, Pids
<1>2. \E p \in FreePids : \A q \in FreePids : p <= q
  BY <1>1, LeastNatural
<1>3. NewPid \in FreePids
  BY <1>2 DEF NewPid
<1> QED BY <1>1, <1>3

\* The processes after a start.
LEMMA StartedIs ==
    ASSUME NEW f, NEW x
    PROVE  /\ DOMAIN Started(f, x) = DOMAIN f \cup {NewPid}
           /\ \A p \in DOMAIN f : Started(f, x)[p] = x \/ Started(f, x)[p] = f[p]
           /\ Started(f, x)[NewPid] = x
BY DEF Started

\* The processes after an end.
LEMMA RestrictIs ==
    ASSUME NEW f, NEW p
    PROVE  /\ DOMAIN Restrict(f, DOMAIN f \ {p}) = DOMAIN f \ {p}
           /\ \A q \in DOMAIN f \ {p} : Restrict(f, DOMAIN f \ {p})[q] = f[q]
BY DEF Restrict

\* A launcher starts well formed.
LEMMA NewLauncherOK ==
    ASSUME SettingsOK, NEW mode \in Modes
    PROVE  LauncherOK(NewLauncher(mode))
<1>1. [s \in Slots |-> 0] \in [Slots -> Pids \cup {0}]
  OBVIOUS
<1>2. (mode = "dynamic" \/ enabled) \in BOOLEAN
  OBVIOUS
<1> QED BY <1>1, <1>2 DEF LauncherOK, NewLauncher, SettingsOK

\* The invariant is stronger than the property.
LEMMA InvTyped == Inv => TypeOK
<1> SUFFICES ASSUME Inv PROVE TypeOK
  OBVIOUS
<1>1. \A p \in DOMAIN launcher :
        launcher[p].mode \in Modes /\ launcher[p].pool \in [Slots -> Pids \cup {0}]
  BY DEF Inv, LaunchersOK, LauncherOK
<1>2. crow \in [Slots -> [pid : Pids \cup {0}, launcher : Pids \cup {0}, desired : BOOLEAN]]
  BY DEF Inv, CrowOK, RowOK
<1> QED BY <1>1, <1>2
     DEF Inv, TypeOK, SettingsOK, LaunchersOK, ChildrenOK, TermOK, LrowOK

\* The first state.
LEMMA InitInv == Init => Inv
<1> SUFFICES ASSUME Init PROVE Inv
  OBVIOUS
<1>1. SettingsOK
  BY BoundsNat, LauncherAssumption DEF Init, SettingsOK
<1>2. \A p \in DOMAIN launcher : launcher[p] = NewLauncher("static")
  BY DEF Init
<1>3. DOMAIN launcher \subseteq {1} /\ hup = {} /\ term = {} /\ DOMAIN child = {}
  BY DEF Init
<1>4. LauncherOK(NewLauncher("static"))
  BY <1>1, NewLauncherOK DEF Modes
<1>5. LaunchersOK /\ ChildrenOK /\ TermOK
  BY <1>2, <1>3, <1>4, BoundsNat DEF LaunchersOK, ChildrenOK, TermOK
<1>6. LrowOK /\ CrowOK
  BY DEF Init, LrowOK, CrowOK, RowOK
<1>7. CallOK
  BY DEF Init, CallOK, NoCall
<1> QED BY <1>1, <1>5, <1>6, <1>7 DEF Inv

\* One launcher goes on.
LEMMA SetKeeps ==
    ASSUME LaunchersOK, NEW p \in DOMAIN launcher, NEW l, LauncherOK(l), Set(p, l), hup' \subseteq hup
    PROVE  LaunchersOK' /\ DOMAIN launcher' = DOMAIN launcher
<1>1. DOMAIN launcher' = DOMAIN launcher
  BY DEF Set
<1>2. \A q \in DOMAIN launcher : launcher'[q] = l \/ launcher'[q] = launcher[q]
  BY DEF Set
<1> QED BY <1>1, <1>2 DEF LaunchersOK

\* A step of one launcher, which may signal workers and write rows.
LEMMA LoopStep ==
    ASSUME Inv, NEW p \in DOMAIN launcher, NEW l, LauncherOK(l), Set(p, l), hup' \subseteq hup,
           ChildrenOK', term' \subseteq term \cup DOMAIN child, DOMAIN child \subseteq DOMAIN child',
           LrowOK', CrowOK', UNCHANGED <<settings, call>>
    PROVE  Inv'
<1>1. LaunchersOK' /\ DOMAIN launcher' = DOMAIN launcher
  BY SetKeeps DEF Inv
<1>2. TermOK'
  BY <1>1 DEF Inv, TermOK
<1>3. SettingsOK' /\ CallOK'
  BY DEF Inv, SettingsOK, CallOK, settings
<1> QED BY <1>1, <1>2, <1>3 DEF Inv

-----------------------------------------------------------------------------
(* The loop of a launcher.                                                 *)

\* What a step may rely on.
LEMMA LauncherIs ==
    ASSUME Inv, NEW p \in DOMAIN launcher
    PROVE  /\ LauncherOK(launcher[p]) /\ p \in Pids /\ SettingsOK /\ ChildrenOK /\ LrowOK /\ CrowOK
           /\ \A s \in Slots : RowOK(crow[s])
BY DEF Inv, LaunchersOK, CrowOK

\* A step that only changes the launcher.
LEMMA OwnStep ==
    ASSUME Inv, NEW p \in DOMAIN launcher, NEW l, LauncherOK(l), Set(p, l),
           child' = child, term' = term, hup' = hup, lrow' = lrow, crow' = crow,
           UNCHANGED <<settings, call>>
    PROVE  Inv'
<1>1. ChildrenOK' /\ CrowOK' /\ LrowOK'
  BY LauncherIs DEF ChildrenOK, CrowOK, LrowOK
<1> QED BY <1>1, LoopStep

\* The launcher reads the settings again.
LEMMA SighupStep ==
    ASSUME Inv, NEW p \in DOMAIN launcher, SighupReceived(p)
    PROVE  Inv'
<1> DEFINE l == launcher[p]
           desired == IF l.mode = "static" THEN enabled ELSE l.desired
           n == [l EXCEPT !.pc = "top", !.workers = workers, !.configured = role,
                          !.desired = desired]
<1>1. LauncherOK(l) /\ SettingsOK /\ ChildrenOK /\ LrowOK /\ CrowOK
  BY LauncherIs
<1>2. desired \in BOOLEAN
  BY <1>1 DEF LauncherOK, SettingsOK
<1>3. LauncherOK(n)
  <2> HIDE DEF desired
  <2> QED BY <1>1, <1>2 DEF LauncherOK, SettingsOK
<1>4. LrowOK'
  <2>1. lrow' = lrow \/ lrow' = [lrow EXCEPT !.desired = enabled]
    BY DEF SighupReceived
  <2> QED BY <1>1, <2>1 DEF LrowOK, SettingsOK
<1>5. /\ Set(p, n) /\ hup' \subseteq hup /\ term' = term /\ child' = child /\ crow' = crow
      /\ UNCHANGED <<settings, call>>
  BY DEF SighupReceived
<1>6. ChildrenOK' /\ CrowOK'
  BY <1>1, <1>5 DEF ChildrenOK, CrowOK
<1> HIDE DEF n
<1> QED BY <1>3, <1>4, <1>5, <1>6, LoopStep

\* The workers that run are remembered, whoever started them, ...
LEMMA OrphanStep ==
    ASSUME Inv, NEW p \in DOMAIN launcher, cleanup_orphan_children(p)
    PROVE  Inv'
<1> DEFINE n == [launcher[p] EXCEPT !.pc = "claim", !.writes = TRUE, !.orphans = DOMAIN child]
<1>1. LauncherOK(launcher[p]) /\ DOMAIN child \subseteq Pids
  BY LauncherIs DEF ChildrenOK
<1>2. LauncherOK(n)
  BY <1>1 DEF LauncherOK
<1>3. /\ Set(p, n) /\ hup' = hup /\ term' = term /\ child' = child /\ crow' = crow /\ lrow' = lrow
      /\ UNCHANGED <<settings, call>>
  BY DEF cleanup_orphan_children, rows
<1> HIDE DEF n
<1> QED BY <1>2, <1>3, OwnStep

\* ... and signalled as long as they do.
LEMMA OrphanEndStep ==
    ASSUME Inv, NEW p \in DOMAIN launcher, terminate_orphan(p)
    PROVE  Inv'
<1> DEFINE l == launcher[p]
<1>1. LauncherOK(l) /\ ChildrenOK /\ LrowOK /\ CrowOK /\ DOMAIN child \subseteq Pids
  BY LauncherIs DEF ChildrenOK
<1>2. PICK n : /\ LauncherOK(n) /\ Set(p, n) /\ term' \subseteq term \cup DOMAIN child
  <2>1. CASE \E c \in l.orphans :
               /\ Set(p, [l EXCEPT !.orphans = @ \ {c}, !.at = IF c \in DOMAIN child THEN c ELSE 0])
               /\ term' = IF c \in DOMAIN child THEN term \cup {c} ELSE term
    <3>1. PICK c \in l.orphans :
            /\ Set(p, [l EXCEPT !.orphans = @ \ {c}, !.at = IF c \in DOMAIN child THEN c ELSE 0])
            /\ term' = IF c \in DOMAIN child THEN term \cup {c} ELSE term
      BY <2>1
    <3>2. PICK at \in Pids \cup {0} : at = IF c \in DOMAIN child THEN c ELSE 0
      BY <1>1
    <3>3. LauncherOK([l EXCEPT !.orphans = @ \ {c}, !.at = at])
      BY <1>1 DEF LauncherOK
    <3>4. Set(p, [l EXCEPT !.orphans = @ \ {c}, !.at = at])
      BY <3>1, <3>2
    <3>5. term' \subseteq term \cup DOMAIN child
      BY <3>1
    <3> QED BY <3>3, <3>4, <3>5
  <2>2. CASE Set(p, [l EXCEPT !.at = 0]) /\ term' = term
    <3>1. LauncherOK([l EXCEPT !.at = 0])
      BY <1>1 DEF LauncherOK
    <3> QED BY <3>1, <2>2
  <2> QED BY <2>1, <2>2 DEF terminate_orphan
<1>3. hup' = hup /\ child' = child /\ lrow' = lrow /\ crow' = crow /\ UNCHANGED <<settings, call>>
  BY DEF terminate_orphan, rows
<1>4. ChildrenOK' /\ CrowOK' /\ LrowOK'
  BY <1>1, <1>3 DEF ChildrenOK, CrowOK, LrowOK
<1> QED BY <1>2, <1>3, <1>4, LoopStep

\* A standby has no row to look at.
LEMMA StandbyStep ==
    ASSUME Inv, NEW p \in DOMAIN launcher, StandbyReconciles(p)
    PROVE  Inv'
<1> DEFINE n == [launcher[p] EXCEPT !.pc = "decide", !.writes = FALSE]
<1>1. LauncherOK(n)
  BY LauncherIs DEF LauncherOK
<1>2. /\ Set(p, n) /\ hup' = hup /\ term' = term /\ child' = child /\ crow' = crow /\ lrow' = lrow
      /\ UNCHANGED <<settings, call>>
  BY DEF StandbyReconciles, rows
<1> HIDE DEF n
<1> QED BY <1>1, <1>2, OwnStep

\* A launcher takes the row over.
LEMMA ClaimStep ==
    ASSUME Inv, NEW p \in DOMAIN launcher, claim_launcher_state(p)
    PROVE  Inv'
<1> DEFINE l == launcher[p]
           desired == IF lrow.pid = p THEN lrow.desired ELSE l.desired
           n == [l EXCEPT !.pc = "beat", !.owned = TRUE, !.desired = desired]
<1>1. LauncherOK(l) /\ SettingsOK /\ ChildrenOK /\ LrowOK /\ CrowOK /\ p \in Pids
  BY LauncherIs
<1>2. desired \in BOOLEAN
  BY <1>1 DEF LauncherOK, LrowOK
<1>3. LauncherOK(n)
  <2> HIDE DEF desired
  <2> QED BY <1>1, <1>2 DEF LauncherOK
<1>4. LrowOK'
  <2>1. lrow' = [pid |-> p, mode |-> l.mode, desired |-> desired] /\ l.mode \in Modes
    BY <1>1 DEF claim_launcher_state, LauncherOK
  <2> HIDE DEF desired
  <2> QED BY <1>1, <1>2, <2>1 DEF LrowOK
<1>5. /\ Set(p, n) /\ hup' = hup /\ term' = term /\ child' = child /\ crow' = crow
      /\ UNCHANGED <<settings, call>>
  BY DEF claim_launcher_state
<1>6. ChildrenOK' /\ CrowOK'
  BY <1>1, <1>5 DEF ChildrenOK, CrowOK
<1> HIDE DEF n
<1> QED BY <1>3, <1>4, <1>5, <1>6, LoopStep

\* What a launcher becomes when it stops workers, or starts some.
LEMMA StopsOK ==
    ASSUME NEW l, LauncherOK(l), NEW S \in SUBSET Slots, NEW w \in BOOLEAN,
           NEW pc \in {"wait", "refuse", "leave", "gc"}
    PROVE  /\ LauncherOK([l EXCEPT !.pc = pc, !.stopping = S, !.wanted = w])
           /\ LauncherOK([l EXCEPT !.pc = pc, !.spawning = S])
BY DEF LauncherOK

\* The slots with workers are slots.
LEMMA FilledSlots == ASSUME NEW l PROVE Filled(l) \in SUBSET Slots
BY DEF Filled

\* A launcher that was replaced leaves.
LEMMA HeartbeatStep ==
    ASSUME Inv, NEW p \in DOMAIN launcher, heartbeat_launcher(p)
    PROVE  Inv'
<1> DEFINE l == launcher[p]
           stays == [l EXCEPT !.pc = "decide", !.writes = TRUE, !.desired = lrow.desired]
           leaves == [l EXCEPT !.pc = "leave", !.stopping = Filled(l), !.wanted = FALSE]
<1>1. LauncherOK(l) /\ LrowOK
  BY LauncherIs
<1>2. LauncherOK(stays)
  <2>1. lrow.desired \in BOOLEAN
    BY <1>1 DEF LrowOK
  <2> QED BY <1>1, <2>1 DEF LauncherOK
<1>3. LauncherOK(leaves)
  BY <1>1, FilledSlots, StopsOK
<1>4. /\ Set(p, stays) \/ Set(p, leaves)
      /\ hup' = hup /\ term' = term /\ child' = child /\ crow' = crow /\ lrow' = lrow
      /\ UNCHANGED <<settings, call>>
  BY DEF heartbeat_launcher, rows
<1> HIDE DEF stays, leaves
<1> QED BY <1>2, <1>3, <1>4, OwnStep

\* Some rows say that there is no worker, and why.
LEMMA ErrorsKeep ==
    ASSUME CrowOK, NEW p \in Pids, NEW S,
           crow' = crow \/ crow' = [s \in Slots |-> IF s \in S THEN ErrorRow(p) ELSE crow[s]]
    PROVE  CrowOK'
<1>1. RowOK(ErrorRow(p))
  BY DEF RowOK, ErrorRow
<1>2. CASE crow' = crow
  BY <1>2 DEF CrowOK
<1>3. CASE crow' = [s \in Slots |-> IF s \in S THEN ErrorRow(p) ELSE crow[s]]
  BY <1>1, <1>3 DEF CrowOK
<1> QED BY <1>2, <1>3

\* Workers that have ended are forgotten, the others kept or stopped.
LEMMA DecideStep ==
    ASSUME Inv, NEW p \in DOMAIN launcher, Decide(p)
    PROVE  Inv'
<1> DEFINE l == launcher[p]
           gone == {s \in Filled(l) : l.pool[s] \notin DOMAIN child}
           left == Filled(l) \ gone
           changed == l.configured # l.role
           pool == [s \in Slots |-> IF s \in gone THEN 0 ELSE l.pool[s]]
           surplus == {s \in left \cap Http : changed \/ s >= l.workers}
           busy == [l EXCEPT !.pc = "ready", !.pool = pool, !.role = l.configured,
                             !.wanted = changed, !.stopping = surplus]
           idle == [l EXCEPT !.pc = "wait", !.stopping = Filled(l), !.wanted = FALSE]
<1>1. LauncherOK(l) /\ SettingsOK /\ ChildrenOK /\ LrowOK /\ CrowOK /\ p \in Pids
  BY LauncherIs
<1>2. LauncherOK(busy)
  <2>1. pool \in [Slots -> Pids \cup {0}]
    BY <1>1 DEF LauncherOK
  <2>2. changed \in BOOLEAN
    OBVIOUS
  <2>3. surplus \in SUBSET Slots
    BY DEF Slots
  <2>4. l.configured \in Roles
    BY <1>1 DEF LauncherOK
  <2> HIDE DEF pool, changed, surplus
  <2> QED BY <1>1, <2>1, <2>2, <2>3, <2>4 DEF LauncherOK
<1>3. LauncherOK(idle)
  BY <1>1, FilledSlots, StopsOK
<1>4. CrowOK'
  <2>1. crow' = crow \/ crow' = [s \in Slots |-> IF s \in gone THEN ErrorRow(p) ELSE crow[s]]
    BY DEF Decide
  <2> HIDE DEF gone
  <2> QED BY <1>1, <2>1, ErrorsKeep
<1>5. /\ Set(p, busy) \/ Set(p, idle)
      /\ hup' = hup /\ term' = term /\ child' = child /\ lrow' = lrow
      /\ UNCHANGED <<settings, call>>
  BY DEF Decide
<1> HIDE DEF busy, idle
<1>6. ChildrenOK' /\ LrowOK'
  BY <1>1, <1>5 DEF ChildrenOK, LrowOK
<1> QED BY <1>2, <1>3, <1>4, <1>5, <1>6, LoopStep

\* The role is examined.
LEMMA ReadyStep ==
    ASSUME Inv, NEW p \in DOMAIN launcher, Ready(p)
    PROVE  Inv'
<1> DEFINE l == launcher[p]
           fills == [l EXCEPT !.pc = "gc", !.spawning = Configured(l) \ Filled(l)]
           refuses == [l EXCEPT !.pc = "refuse", !.stopping = Filled(l) \cap Http, !.wanted = TRUE]
<1>1. LauncherOK(l)
  BY LauncherIs
<1>2. Configured(l) \ Filled(l) \in SUBSET Slots /\ Filled(l) \cap Http \in SUBSET Slots
  BY DEF Configured, Slots
<1>3. LauncherOK(fills) /\ LauncherOK(refuses)
  BY <1>1, <1>2, StopsOK
<1>4. /\ Set(p, fills) \/ Set(p, refuses)
      /\ hup' = hup /\ term' = term /\ child' = child /\ crow' = crow /\ lrow' = lrow
      /\ UNCHANGED <<settings, call>>
  BY DEF Ready, rows
<1> HIDE DEF fills, refuses
<1> QED BY <1>3, <1>4, OwnStep

\* It cannot be used.
LEMMA RefuseStep ==
    ASSUME Inv, NEW p \in DOMAIN launcher, Refuse(p)
    PROVE  Inv'
<1> DEFINE l == launcher[p]
           n == [l EXCEPT !.pc = "gc"]
<1>1. LauncherOK(l) /\ ChildrenOK /\ LrowOK /\ CrowOK /\ p \in Pids
  BY LauncherIs
<1>2. LauncherOK(n)
  BY <1>1 DEF LauncherOK
<1>3. CrowOK'
  <2>1. crow' = crow
          \/ crow' = [s \in Slots |-> IF s \in Configured(l) THEN ErrorRow(p) ELSE crow[s]]
    BY DEF Refuse
  <2> QED BY <1>1, <2>1, ErrorsKeep
<1>4. /\ Set(p, n) /\ hup' = hup /\ term' = term /\ child' = child /\ lrow' = lrow
      /\ UNCHANGED <<settings, call>>
  BY DEF Refuse
<1>5. ChildrenOK' /\ LrowOK'
  BY <1>1, <1>4 DEF ChildrenOK, LrowOK
<1> HIDE DEF n
<1> QED BY <1>2, <1>3, <1>4, <1>5, LoopStep

\* The collector.
LEMMA CollectorStep ==
    ASSUME Inv, NEW p \in DOMAIN launcher, Collector(p)
    PROVE  Inv'
<1> DEFINE l == launcher[p]
           fills == [l EXCEPT !.pc = "wait", !.spawning = Gc \ Filled(l)]
           stops == [l EXCEPT !.pc = "wait", !.stopping = Filled(l) \cap Gc, !.wanted = FALSE]
<1>1. LauncherOK(l)
  BY LauncherIs
<1>2. Gc \ Filled(l) \in SUBSET Slots /\ Filled(l) \cap Gc \in SUBSET Slots
  BY DEF Slots
<1>3. LauncherOK(fills) /\ LauncherOK(stops)
  BY <1>1, <1>2, StopsOK
<1>4. /\ Set(p, fills) \/ Set(p, stops)
      /\ hup' = hup /\ term' = term /\ child' = child /\ crow' = crow /\ lrow' = lrow
      /\ UNCHANGED <<settings, call>>
  BY DEF Collector, rows
<1> HIDE DEF fills, stops
<1> QED BY <1>3, <1>4, OwnStep

\* A worker that runs is signalled.
LEMMA TerminateStep ==
    ASSUME Inv, NEW p \in DOMAIN launcher, Terminate(p)
    PROVE  Inv'
<1>1. /\ term' \subseteq term \cup DOMAIN child /\ launcher' = launcher /\ child' = child /\ hup' = hup
      /\ lrow' = lrow /\ crow' = crow /\ UNCHANGED <<settings, call>>
  BY DEF Terminate, rows
<1>2. TermOK'
  BY <1>1 DEF Inv, TermOK
<1> QED BY <1>1, <1>2
     DEF Inv, SettingsOK, LaunchersOK, ChildrenOK, LrowOK, CrowOK, CallOK, settings

\* A slot is emptied, filled, or its start recorded.
LEMMA SlotOK ==
    ASSUME NEW l, LauncherOK(l), NEW s \in Slots, NEW pid \in Pids \cup {0}
    PROVE  /\ LauncherOK([l EXCEPT !.pool[s] = pid, !.stopping = @ \ {s}])
           /\ LauncherOK([l EXCEPT !.pool[s] = pid, !.starting = {s}, !.spawning = @ \ {s}])
           /\ LauncherOK([l EXCEPT !.spawning = @ \ {s}])
           /\ LauncherOK([l EXCEPT !.starting = {}])
<1>1. l.pool \in [Slots -> Pids \cup {0}]
  BY DEF LauncherOK
<1>2. [l.pool EXCEPT ![s] = pid] \in [Slots -> Pids \cup {0}]
  BY <1>1
<1>3. /\ l.stopping \ {s} \in SUBSET Slots /\ l.spawning \ {s} \in SUBSET Slots
      /\ {s} \in SUBSET Slots /\ {} \in SUBSET Slots
  BY DEF LauncherOK
<1>4. ASSUME NEW q \in [Slots -> Pids \cup {0}], NEW S \in SUBSET Slots, NEW T \in SUBSET Slots
      PROVE  /\ LauncherOK([l EXCEPT !.pool = q, !.stopping = S])
             /\ LauncherOK([l EXCEPT !.pool = q, !.starting = T, !.spawning = S])
             /\ LauncherOK([l EXCEPT !.spawning = S])
             /\ LauncherOK([l EXCEPT !.starting = T])
  BY <1>4 DEF LauncherOK
<1>5. /\ [l EXCEPT !.pool[s] = pid, !.stopping = @ \ {s}]
           = [l EXCEPT !.pool = [l.pool EXCEPT ![s] = pid], !.stopping = l.stopping \ {s}]
      /\ [l EXCEPT !.pool[s] = pid, !.starting = {s}, !.spawning = @ \ {s}]
           = [l EXCEPT !.pool = [l.pool EXCEPT ![s] = pid], !.starting = {s},
                       !.spawning = l.spawning \ {s}]
      /\ [l EXCEPT !.spawning = @ \ {s}] = [l EXCEPT !.spawning = l.spawning \ {s}]
  OBVIOUS
<1> QED BY <1>2, <1>3, <1>4, <1>5

\* One row of a worker is written.
LEMMA RowKeeps ==
    ASSUME CrowOK, NEW s \in Slots, NEW row, RowOK(row), crow' = [crow EXCEPT ![s] = row]
    PROVE  CrowOK'
<1>1. crow' = [t \in Slots |-> IF t = s THEN row ELSE crow[t]]
  BY DEF CrowOK
<1> QED BY <1>1 DEF CrowOK

\* The end of a worker is recorded.
LEMMA RecordStoppedStep ==
    ASSUME Inv, NEW p \in DOMAIN launcher, record_child_stopped(p)
    PROVE  Inv'
<1> DEFINE l == launcher[p]
<1>1. LauncherOK(l) /\ SettingsOK /\ ChildrenOK /\ LrowOK /\ CrowOK
  BY LauncherIs
<1>2. PICK s \in l.stopping :
        /\ Set(p, [l EXCEPT !.pool[s] = 0, !.stopping = @ \ {s}])
        /\ crow' = IF writable /\ crow[s].launcher = p
                   THEN [crow EXCEPT ![s].desired = l.wanted]
                   ELSE crow
  BY DEF record_child_stopped
<1>3. s \in Slots
  BY <1>1 DEF LauncherOK
<1>4. CrowOK'
  <2> DEFINE row == [crow[s] EXCEPT !.desired = l.wanted]
  <2>1. l.wanted \in BOOLEAN
    BY <1>1 DEF LauncherOK
  <2>2. RowOK(crow[s])
    BY <1>1, <1>3 DEF CrowOK
  <2>3. RowOK(row)
    BY <2>1, <2>2 DEF RowOK
  <2>4. [crow EXCEPT ![s].desired = l.wanted] = [crow EXCEPT ![s] = row]
    BY <1>1, <1>3 DEF CrowOK
  <2> HIDE DEF row
  <2>5. crow' = crow \/ crow' = [crow EXCEPT ![s] = row]
    BY <1>2, <2>4
  <2>6. CASE crow' = crow
    BY <1>1, <2>6 DEF CrowOK
  <2>7. CASE crow' = [crow EXCEPT ![s] = row]
    BY <1>1, <1>3, <2>3, <2>7, RowKeeps
  <2> QED BY <2>5, <2>6, <2>7
<1>5. LauncherOK([l EXCEPT !.pool[s] = 0, !.stopping = @ \ {s}])
  BY <1>1, <1>3, SlotOK
<1>6. PICK n : n = [l EXCEPT !.pool[s] = 0, !.stopping = @ \ {s}]
  OBVIOUS
<1>7. Set(p, n) /\ LauncherOK(n)
  BY <1>2, <1>5, <1>6
<1>8. hup' = hup /\ term' = term /\ child' = child /\ lrow' = lrow /\ UNCHANGED <<settings, call>>
  BY DEF record_child_stopped
<1>9. ChildrenOK' /\ LrowOK'
  BY <1>1, <1>8 DEF ChildrenOK, LrowOK
<1> QED BY <1>4, <1>7, <1>8, <1>9, LoopStep

\* A worker is started, or cannot be.
LEMMA SpawnStep ==
    ASSUME Inv, NEW p \in DOMAIN launcher, spawn_child(p)
    PROVE  Inv'
<1> DEFINE l == launcher[p]
<1>1. LauncherOK(l) /\ SettingsOK /\ ChildrenOK /\ LrowOK /\ CrowOK /\ p \in Pids
  BY LauncherIs
<1>2. /\ hup' = hup /\ term' = term /\ lrow' = lrow /\ UNCHANGED <<settings, call>>
      /\ \A s \in l.spawning : s \in Slots
  BY <1>1 DEF spawn_child, LauncherOK
<1>3. LrowOK'
  BY <1>1, <1>2 DEF LrowOK
<1>4. ASSUME NEW s \in l.spawning, FreePids # {},
             child' = Started(child, [slot |-> s, parent |-> p, role |-> role]),
             Set(p, [l EXCEPT !.pool[s] = NewPid, !.starting = {s}, !.spawning = @ \ {s}]),
             crow' = crow
      PROVE  Inv'
  <2>1. NewPid \in Pids
    BY <1>4, NewPidIs
  <2>2. ChildrenOK' /\ DOMAIN child \subseteq DOMAIN child'
    <3> DEFINE x == [slot |-> s, parent |-> p, role |-> role]
    <3>1. x.slot \in Slots /\ x.parent \in Pids /\ x.role \in Roles
      BY <1>1, <1>2 DEF SettingsOK
    <3>2. child' = Started(child, x)
      BY <1>4
    <3> HIDE DEF x
    <3>3. /\ DOMAIN child' = DOMAIN child \cup {NewPid}
          /\ \A c \in DOMAIN child : child'[c] = x \/ child'[c] = child[c]
          /\ child'[NewPid] = x
      BY <3>2, StartedIs
    <3> QED BY <1>1, <2>1, <3>1, <3>3 DEF ChildrenOK
  <2>3. PICK n : n = [l EXCEPT !.pool[s] = NewPid, !.starting = {s}, !.spawning = @ \ {s}]
    OBVIOUS
  <2>4. LauncherOK(n) /\ Set(p, n)
    BY <1>1, <1>2, <1>4, <2>1, <2>3, SlotOK
  <2>5. CrowOK'
    BY <1>1, <1>4 DEF CrowOK
  <2> QED BY <1>2, <1>3, <2>2, <2>4, <2>5, LoopStep
<1>5. ASSUME NEW s \in l.spawning, child' = child, Set(p, [l EXCEPT !.spawning = @ \ {s}]),
             crow' = IF writable THEN [crow EXCEPT ![s] = ErrorRow(p)] ELSE crow
      PROVE  Inv'
  <2>1. CrowOK'
    <3>1. RowOK(ErrorRow(p))
      BY <1>1 DEF RowOK, ErrorRow
    <3>2. CASE crow' = crow
      BY <1>1, <3>2 DEF CrowOK
    <3>3. CASE crow' = [crow EXCEPT ![s] = ErrorRow(p)]
      BY <1>1, <1>2, <3>1, <3>3, RowKeeps
    <3> QED BY <1>5, <3>2, <3>3
  <2>2. PICK n : n = [l EXCEPT !.spawning = @ \ {s}]
    OBVIOUS
  <2>3. LauncherOK(n) /\ Set(p, n)
    BY <1>1, <1>2, <1>5, <2>2, SlotOK
  <2>4. ChildrenOK' /\ DOMAIN child \subseteq DOMAIN child'
    BY <1>1, <1>5 DEF ChildrenOK
  <2> QED BY <1>2, <1>3, <2>1, <2>3, <2>4, LoopStep
<1> QED BY <1>4, <1>5 DEF spawn_child

\* The start of a worker is recorded.
LEMMA RecordStartingStep ==
    ASSUME Inv, NEW p \in DOMAIN launcher, record_child_starting(p)
    PROVE  Inv'
<1> DEFINE l == launcher[p]
           row(s) == [pid |-> l.pool[s], launcher |-> p, desired |-> TRUE]
           n == [l EXCEPT !.starting = {}]
<1>1. LauncherOK(l) /\ SettingsOK /\ ChildrenOK /\ LrowOK /\ CrowOK /\ p \in Pids
  BY LauncherIs
<1>2. PICK s \in l.starting : crow' = IF ~writable THEN crow ELSE [crow EXCEPT ![s] = row(s)]
  BY DEF record_child_starting
<1>3. s \in Slots /\ l.pool[s] \in Pids \cup {0}
  BY <1>1 DEF LauncherOK
<1>4. CrowOK'
  <2>1. RowOK(row(s))
    BY <1>1, <1>3 DEF RowOK
  <2> HIDE DEF row
  <2>2. CASE crow' = crow
    BY <1>1, <2>2 DEF CrowOK
  <2>3. CASE crow' = [crow EXCEPT ![s] = row(s)]
    BY <1>1, <1>3, <2>1, <2>3, RowKeeps
  <2> QED BY <1>2, <2>2, <2>3
<1>5. LauncherOK(n)
  BY <1>1 DEF LauncherOK
<1>6. /\ Set(p, n) /\ hup' = hup /\ term' = term /\ child' = child /\ lrow' = lrow
      /\ UNCHANGED <<settings, call>>
  BY DEF record_child_starting
<1>7. ChildrenOK' /\ LrowOK'
  BY <1>1, <1>6 DEF ChildrenOK, LrowOK
<1> HIDE DEF n
<1> QED BY <1>4, <1>5, <1>6, <1>7, LoopStep

\* A launcher told to stop.
LEMMA SigtermStep ==
    ASSUME Inv, NEW p \in DOMAIN launcher, SigtermReceived(p)
    PROVE  Inv'
<1> DEFINE l == launcher[p]
           n == [l EXCEPT !.pc = "leave", !.stopping = Filled(l), !.wanted = FALSE]
<1>1. LauncherOK(l)
  BY LauncherIs
<1>2. LauncherOK(n)
  BY <1>1, FilledSlots, StopsOK
<1>3. /\ Set(p, n)
      /\ hup' = hup /\ term' = term /\ child' = child /\ crow' = crow /\ lrow' = lrow
      /\ UNCHANGED <<settings, call>>
  BY DEF SigtermReceived, rows
<1> HIDE DEF n
<1> QED BY <1>2, <1>3, OwnStep

-----------------------------------------------------------------------------
(* Ends of processes, the control functions and the server.                *)

\* A launcher ends, with the signals that were pending for it.
LEMMA GoneStep ==
    ASSUME Inv, NEW p \in DOMAIN launcher, Gone(p), LrowOK', child' = child, crow' = crow,
           CallOK', UNCHANGED settings
    PROVE  Inv'
<1>1. /\ DOMAIN launcher' = DOMAIN launcher \ {p}
      /\ \A q \in DOMAIN launcher' : launcher'[q] = launcher[q]
  BY RestrictIs DEF Gone
<1>2. LaunchersOK'
  BY <1>1 DEF Inv, LaunchersOK, Gone
<1>3. TermOK'
  BY <1>1 DEF Inv, TermOK, Gone
<1> QED BY <1>2, <1>3 DEF Inv, SettingsOK, ChildrenOK, CrowOK, settings

\* A launcher leaves.
LEMMA LeaveStep ==
    ASSUME Inv, NEW p \in DOMAIN launcher, Leave(p)
    PROVE  Inv'
<1>1. lrow' = lrow \/ lrow' = [lrow EXCEPT !.desired = FALSE]
  BY DEF Leave
<1>2. LrowOK' /\ CallOK'
  BY <1>1, LauncherIs DEF LrowOK, Inv, CallOK, Leave
<1> QED BY <1>2, GoneStep DEF Leave

\* A control function is overtaken.
LEMMA OvertakenKeeps ==
    ASSUME Inv, Overtaken
    PROVE  CallOK'
<1>1. (call.pc = "done") \in BOOLEAN
  OBVIOUS
<1> QED BY <1>1 DEF Inv, Overtaken, CallOK

\* A launcher crashes.
LEMMA CrashStep ==
    ASSUME Inv, NEW p \in DOMAIN launcher, Crash(p)
    PROVE  Inv'
<1>1. LrowOK'
  BY LauncherIs DEF LrowOK, Crash, rows
<1>2. CallOK'
  BY OvertakenKeeps DEF Crash
<1> QED BY <1>1, <1>2, GoneStep DEF Crash, rows

\* A worker writes its row.
LEMMA RecordedKeeps ==
    ASSUME Inv, NEW c \in DOMAIN child, crow' = Recorded(c)
    PROVE  CrowOK'
<1> DEFINE s == child[c].slot
           row == [pid |-> c, launcher |-> child[c].parent, desired |-> TRUE]
<1>1. s \in Slots /\ c \in Pids /\ child[c].parent \in Pids /\ CrowOK
  BY DEF Inv, ChildrenOK
<1>2. RowOK(row)
  BY <1>1 DEF RowOK
<1>3. crow' = crow \/ crow' = [crow EXCEPT ![s] = row]
  BY DEF Recorded
<1> HIDE DEF row
<1>4. CASE crow' = crow
  BY <1>1, <1>4 DEF CrowOK
<1>5. CASE crow' = [crow EXCEPT ![s] = row]
  BY <1>1, <1>2, <1>5, RowKeeps
<1> QED BY <1>3, <1>4, <1>5

\* A worker ends, with the signal that was pending for it.
LEMMA EndedStep ==
    ASSUME Inv, NEW c \in DOMAIN child, Ended(c), CrowOK', launcher' = launcher, hup' = hup,
           lrow' = lrow, UNCHANGED <<settings, call>>
    PROVE  Inv'
<1>1. /\ DOMAIN child' = DOMAIN child \ {c}
      /\ \A q \in DOMAIN child' : child'[q] = child[q]
  BY RestrictIs DEF Ended
<1>2. ChildrenOK'
  BY <1>1 DEF Inv, ChildrenOK
<1>3. TermOK'
  BY <1>1 DEF Inv, TermOK, Ended
<1> QED BY <1>2, <1>3 DEF Inv, SettingsOK, LaunchersOK, LrowOK, CallOK, settings

\* The workers.
LEMMA ChildStep ==
    ASSUME Inv, NEW c \in DOMAIN child, Running(c) \/ Stopped(c) \/ ExitsAlone(c)
    PROVE  Inv'
<1>1. CASE Running(c)
  <2>1. CrowOK'
    BY <1>1, RecordedKeeps DEF Running
  <2> QED BY <1>1, <2>1
       DEF Inv, Running, SettingsOK, LaunchersOK, ChildrenOK, TermOK, LrowOK, CallOK, settings, processes
<1>2. CASE Stopped(c)
  <2>1. CrowOK'
    BY <1>2, RecordedKeeps DEF Stopped
  <2> QED BY <1>2, <2>1, EndedStep DEF Stopped
<1>3. CASE ExitsAlone(c)
  <2>1. CrowOK'
    BY <1>3 DEF Inv, CrowOK, ExitsAlone, rows
  <2> QED BY <1>3, <2>1, EndedStep DEF ExitsAlone, rows
<1> QED BY <1>1, <1>2, <1>3

\* The launcher that a control function finds.
LEMMA ActiveIs ==
    ASSUME Inv, NEW a \in active_launcher
    PROVE  a.pid \in Pids \cup {0} /\ a.mode \in Modes \cup {"none"}
<1>1. DOMAIN launcher \subseteq Pids /\ lrow.mode \in Modes \cup {"none"}
  BY DEF Inv, LaunchersOK, LrowOK
<1>2. \/ a = [pid |-> 0, mode |-> "none"]
      \/ \E p \in DOMAIN launcher : a = [pid |-> p, mode |-> IF lrow.pid = p THEN lrow.mode ELSE "none"]
  BY DEF active_launcher
<1> QED BY <1>1, <1>2

\* A launcher is started.
LEMMA LaunchStep ==
    ASSUME Inv, NEW mode \in Modes, FreePids # {}, launcher' = Started(launcher, NewLauncher(mode)),
           CallOK', child' = child, term' = term, hup' = hup, lrow' = lrow, crow' = crow,
           UNCHANGED settings
    PROVE  Inv'
<1>1. NewPid \in Pids /\ LauncherOK(NewLauncher(mode))
  BY NewPidIs, NewLauncherOK DEF Inv
<1>2. PICK x : x = NewLauncher(mode)
  OBVIOUS
<1>3. /\ DOMAIN launcher' = DOMAIN launcher \cup {NewPid}
      /\ \A p \in DOMAIN launcher : launcher'[p] = x \/ launcher'[p] = launcher[p]
      /\ launcher'[NewPid] = x
  BY <1>2, StartedIs
<1>4. LaunchersOK'
  BY <1>1, <1>2, <1>3 DEF Inv, LaunchersOK
<1>5. TermOK'
  BY <1>3 DEF Inv, TermOK
<1> QED BY <1>4, <1>5 DEF Inv, SettingsOK, ChildrenOK, LrowOK, CrowOK, settings

\* A control function that has returned.
LEMMA ReturnKeeps ==
    ASSUME NEW what, Return(what)
    PROVE  CallOK'
BY DEF Return, CallOK, NoCall

\* A step of a control function that changes nothing but itself, signals of
\* processes that run, and rows.
LEMMA ControlStep ==
    ASSUME Inv, CallOK', LrowOK', CrowOK', term' \subseteq term \cup DOMAIN launcher \cup DOMAIN child,
           launcher' = launcher, child' = child, hup' = hup, UNCHANGED settings
    PROVE  Inv'
<1>1. TermOK'
  BY DEF Inv, TermOK
<1> QED BY <1>1 DEF Inv, SettingsOK, LaunchersOK, ChildrenOK, settings

\* What a control function goes on with.
NextCallOK(m) ==
    m \in [pc : {"done", "start", "desire", "stop", "children", "mark"},
           pid : Pids \cup {0}, mode : Modes \cup {"none"}, ok : BOOLEAN,
           wait : SUBSET Pids, at : Pids \cup {0}, clear : BOOLEAN]

\* A process that runs is signalled.
LEMMA SignalledKeeps ==
    ASSUME NEW m, NextCallOK(m), NEW pid, NEW running \in SUBSET Pids, Signalled(m, pid, running)
    PROVE  CallOK' /\ term' \subseteq term \cup running
<1>1. \/ pid \in running /\ call' = [m EXCEPT !.at = pid]
      \/ call' = [m EXCEPT !.ok = FALSE]
  BY DEF Signalled
<1>2. CallOK'
  BY <1>1 DEF NextCallOK, CallOK
<1>3. term' \subseteq term \cup running
  BY DEF Signalled
<1> QED BY <1>2, <1>3

\* pgs3.start() and pgs3.stop().
LEMMA ControlKeeps ==
    ASSUME Inv, Control
    PROVE  Inv'
<1>1. CASE StartNew
  <2>1. CallOK'
    BY <1>1, ReturnKeeps DEF StartNew
  <2> QED BY <1>1, <2>1, LaunchStep DEF StartNew, Modes, rows
<1>2. CASE StartFound
  <2>1. PICK a \in active_launcher : call' = [call EXCEPT !.pc = "desire", !.pid = a.pid, !.mode = a.mode]
    BY <1>2 DEF StartFound
  <2>2. CallOK'
    BY <2>1, ActiveIs DEF Inv, CallOK
  <2>3. LrowOK' /\ CrowOK'
    BY <1>2 DEF Inv, LrowOK, CrowOK, StartFound, rows
  <2> QED BY <1>2, <2>2, <2>3, ControlStep DEF StartFound, rows, processes
<1>3. CASE set_existing_launcher_desired
  <2>1. CallOK'
    BY <1>3, ReturnKeeps DEF set_existing_launcher_desired
  <2>2. LrowOK' /\ CrowOK'
    BY <1>3 DEF Inv, LrowOK, CrowOK, CallOK, Modes, set_existing_launcher_desired
  <2> QED BY <1>3, <2>1, <2>2, ControlStep DEF set_existing_launcher_desired, processes
<1>4. CASE StopFound
  <2>1. PICK a \in active_launcher :
          call' = [call EXCEPT !.pc = "children", !.wait = DOMAIN child, !.pid = a.pid, !.mode = a.mode]
    BY <1>4 DEF StopFound
  <2>2. DOMAIN child \in SUBSET Pids
    BY DEF Inv, ChildrenOK
  <2>3. CallOK'
    BY <2>1, <2>2, ActiveIs DEF Inv, CallOK
  <2>4. LrowOK' /\ CrowOK'
    BY <1>4 DEF Inv, LrowOK, CrowOK, StopFound, rows
  <2> QED BY <1>4, <2>3, <2>4, ControlStep DEF StopFound, rows, processes
<1>5. CASE terminate_live_children
  <2>1. PICK c \in call.wait : Signalled([call EXCEPT !.wait = @ \ {c}], c, DOMAIN child)
    BY <1>5 DEF terminate_live_children
  <2>2. PICK m : m = [call EXCEPT !.wait = @ \ {c}]
    OBVIOUS
  <2>3. NextCallOK(m)
    <3>1. call.wait \ {c} \in SUBSET Pids
      BY DEF Inv, CallOK
    <3> QED BY <2>2, <3>1 DEF Inv, CallOK, NextCallOK
  <2>4. CallOK' /\ term' \subseteq term \cup DOMAIN child
    BY <2>1, <2>2, <2>3, SignalledKeeps DEF Inv, ChildrenOK
  <2>5. LrowOK' /\ CrowOK'
    BY <1>5 DEF Inv, LrowOK, CrowOK, terminate_live_children, rows
  <2> QED BY <1>5, <2>4, <2>5, ControlStep DEF terminate_live_children, rows
<1>6. CASE terminate_pid
  <2>1. PICK m : m = [call EXCEPT !.pc = "mark"]
    OBVIOUS
  <2>2. NextCallOK(m)
    BY <2>1 DEF Inv, CallOK, NextCallOK
  <2>3. Signalled(m, call.pid, DOMAIN launcher) \/ (call' = m /\ term' = term)
    BY <1>6, <2>1 DEF terminate_pid
  <2>4. CallOK' /\ term' \subseteq term \cup DOMAIN launcher
    <3>1. CASE Signalled(m, call.pid, DOMAIN launcher)
      BY <2>2, <3>1, SignalledKeeps DEF Inv, LaunchersOK
    <3>2. CASE call' = m /\ term' = term
      BY <2>2, <3>2 DEF NextCallOK, CallOK
    <3> QED BY <2>3, <3>1, <3>2
  <2>5. LrowOK' /\ CrowOK'
    BY <1>6 DEF Inv, LrowOK, CrowOK, terminate_pid, rows
  <2> QED BY <1>6, <2>4, <2>5, ControlStep DEF terminate_pid, rows
<1>7. CASE Awaited
  <2>1. call' = [call EXCEPT !.at = 0] \/ call' = [call EXCEPT !.at = 0, !.ok = FALSE]
    BY <1>7 DEF Awaited
  <2>2. CallOK'
    BY <2>1 DEF Inv, CallOK
  <2>3. LrowOK' /\ CrowOK'
    BY <1>7 DEF Inv, LrowOK, CrowOK, Awaited, rows
  <2> QED BY <1>7, <2>2, <2>3, ControlStep DEF Awaited, rows, processes
<1>8. CASE mark_pool_stopped
  <2>1. CallOK'
    BY <1>8, ReturnKeeps DEF mark_pool_stopped
  <2>2. CrowOK'
    <3>1. crow' = [s \in Slots |-> [crow[s] EXCEPT !.desired = FALSE]]
      BY <1>8 DEF mark_pool_stopped
    <3>2. \A s \in Slots : RowOK([crow[s] EXCEPT !.desired = FALSE])
      BY DEF Inv, CrowOK, RowOK
    <3> QED BY <3>1, <3>2 DEF CrowOK
  <2>3. LrowOK'
    <3>1. \/ lrow' = [lrow EXCEPT !.desired = FALSE]
          \/ lrow' = [pid |-> IF call.mode = "none" THEN 0 ELSE call.pid,
                      mode |-> call.mode, desired |-> FALSE]
      BY <1>8 DEF mark_pool_stopped
    <3>2. /\ call.mode \in Modes \cup {"none"}
          /\ (IF call.mode = "none" THEN 0 ELSE call.pid) \in Pids \cup {0}
      BY DEF Inv, CallOK
    <3>3. CASE lrow' = [lrow EXCEPT !.desired = FALSE]
      BY <3>3 DEF Inv, LrowOK
    <3>4. CASE lrow' = [pid |-> IF call.mode = "none" THEN 0 ELSE call.pid,
                        mode |-> call.mode, desired |-> FALSE]
      BY <3>2, <3>4 DEF LrowOK
    <3> QED BY <3>1, <3>3, <3>4
  <2> QED BY <1>8, <2>1, <2>2, <2>3, ControlStep DEF mark_pool_stopped, processes
<1>9. CASE StartRefused
  <2>1. CallOK'
    BY <1>9 DEF StartRefused, CallOK, NoCall
  <2>2. LrowOK' /\ CrowOK'
    BY <1>9 DEF Inv, LrowOK, CrowOK, StartRefused, rows
  <2> QED BY <1>9, <2>1, <2>2, ControlStep DEF StartRefused, rows, processes
<1> QED BY <1>1, <1>2, <1>3, <1>4, <1>5, <1>6, <1>7, <1>8, <1>9 DEF Control

\* A control function is called.
LEMMA CallStep ==
    ASSUME Inv, NEW op \in {"start", "stop"}, Call(op)
    PROVE  Inv'
<1>1. CallOK'
  <2>1. (static # "restart") \in BOOLEAN
    OBVIOUS
  <2> QED BY <2>1 DEF Call, CallOK, NoCall
<1>2. LrowOK' /\ CrowOK'
  BY DEF Inv, LrowOK, CrowOK, Call, rows
<1> QED BY <1>1, <1>2, ControlStep DEF Call, rows, processes

\* The server and its settings.
LEMMA ServerStep ==
    ASSUME Inv, Restart \/ Reload \/ Drift \/ Promote
    PROVE  Inv'
<1>1. CASE Restart
  <2>1. CallOK'
    BY <1>1 DEF Inv, CallOK, Restart
  <2> QED BY <1>1, <2>1, LaunchStep DEF Restart, Modes, rows
<1>2. CASE Reload
  <2>1. CallOK'
    BY <1>2, OvertakenKeeps DEF Reload
  <2> QED BY <1>2, <2>1
       DEF Reload, Inv, SettingsOK, LaunchersOK, ChildrenOK, TermOK, LrowOK, CrowOK, rows
<1>3. CASE Drift
  BY <1>3 DEF Drift, Inv, SettingsOK, LaunchersOK, ChildrenOK, TermOK, LrowOK, CrowOK, CallOK,
              rows, processes
<1>4. CASE Promote
  BY <1>4 DEF Promote, Inv, SettingsOK, LaunchersOK, ChildrenOK, TermOK, LrowOK, CrowOK, CallOK,
              rows, processes
<1> QED BY <1>1, <1>2, <1>3, <1>4

\* Every step keeps the invariant.
LEMMA NextInv == Inv /\ [Next]_vars => Inv'
<1> SUFFICES ASSUME Inv, [Next]_vars PROVE Inv'
  OBVIOUS
<1>1. ASSUME NEW p \in DOMAIN launcher, Loop(p) PROVE Inv'
  BY <1>1, SighupStep, OrphanStep, OrphanEndStep, StandbyStep, ClaimStep, HeartbeatStep, DecideStep, ReadyStep,
     RefuseStep, CollectorStep, TerminateStep, RecordStoppedStep, SpawnStep, RecordStartingStep,
     SigtermStep, LeaveStep DEF Loop
<1>2. ASSUME NEW p \in DOMAIN launcher, Crash(p) PROVE Inv'
  BY <1>2, CrashStep
<1>3. ASSUME NEW c \in DOMAIN child, Running(c) \/ Stopped(c) \/ ExitsAlone(c) PROVE Inv'
  BY <1>3, ChildStep
<1>4. CASE Control
  BY <1>4, ControlKeeps
<1>5. ASSUME NEW op \in {"start", "stop"}, Call(op) PROVE Inv'
  BY <1>5, CallStep
<1>6. CASE Restart \/ Reload \/ Drift \/ Promote
  BY <1>6, ServerStep
<1>7. CASE UNCHANGED vars
  BY <1>7 DEF vars, settings, processes, rows, Inv, SettingsOK, LaunchersOK, ChildrenOK, TermOK,
              LrowOK, CrowOK, CallOK
<1> QED BY <1>1, <1>2, <1>3, <1>4, <1>5, <1>6, <1>7 DEF Next

-----------------------------------------------------------------------------
(* The theorem.                                                            *)

\* A signal is pending only for a launcher or a worker that runs, although
\* workers end by themselves while stop_managed, stop() and the orphan
\* clean-up decide whom to signal, and pools and rows of worker_state name
\* slots, launchers and workers, for any number of slots, launchers, crashes
\* and control calls (launcher.rs).
THEOREM SignalsReachProcesses == Spec => []TypeOK
BY InitInv, NextInv, InvTyped, PTL DEF Spec

=============================================================================
