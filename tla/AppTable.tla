------------------------------ MODULE AppTable ------------------------------
(***************************************************************************)
(* What the supervisor promises about one app to those who use it: the     *)
(* table holds a bundle that passed the checks and never goes back to an   *)
(* older one without the app being dropped in between; a process is only   *)
(* ever started from the bundle in the table, and only when none of that   *)
(* binary is running, whoever started it.  A process of a bundle already   *)
(* replaced or dropped may still run, but is not started again.  The       *)
(* promise about processes ends with the first resume request.             *)
(***************************************************************************)
EXTENDS Integers

CONSTANTS Bundles, NoBundle

VARIABLES
    table,     \* the bundle the app is installed as, or NoBundle
    running,   \* the binary paths some process of the app runs
    resumed    \* whether a resume was ever requested

tableVars == <<table, running, resumed>>

Init == table = NoBundle /\ running = {} /\ resumed = FALSE

Adopt(b) ==
    /\ table' = b /\ b.ok
    /\ table # NoBundle => b.ver >= table.ver /\ b # table
    /\ UNCHANGED <<running, resumed>>

(* The app is uninstalled, or the daemon forgets it by dying.              *)
Drop == table' = NoBundle /\ UNCHANGED <<running, resumed>>

Start(b) ==
    /\ ~resumed => b = table /\ b.path \notin running
    /\ running' = running \union {b.path}
    /\ UNCHANGED <<table, resumed>>

Exit(p) == running' = running \ {p} /\ UNCHANGED <<table, resumed>>

Resume == resumed' = TRUE /\ UNCHANGED <<table, running>>

Next ==
    \/ \E b \in Bundles : Adopt(b) \/ Start(b)
    \/ Drop \/ Resume
    \/ \E p \in running : Exit(p)

Spec == Init /\ [][Next]_tableVars
=============================================================================
