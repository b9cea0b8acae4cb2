----------------------------- MODULE MCLauncher -----------------------------
(***************************************************************************)
(* Two HTTP slots and the collector, two roles, two events and a crash;    *)
(* MaxLoad leaves out the behaviours that have all of them and a static    *)
(* launcher as well.                                                       *)
(***************************************************************************)
EXTENDS Launcher

CONSTANT MaxLoad    \* bound: events, crashes, the second HTTP slot and the
                    \* static launcher that one behaviour has

Load ==
    (MaxEvents - budget.events) + (MaxCrashes - budget.crashes) + (workers - 1)
    + (IF static = "none" THEN 0 ELSE 1)

MCSpec == Init /\ [][Next /\ Load' <= MaxLoad]_vars /\ Fairness
=============================================================================
