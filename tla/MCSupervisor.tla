---------------------------- MODULE MCSupervisor ----------------------------
(***************************************************************************)
(* Instances of Supervisor for TLC.  v1 and v2 share a binary path, v1r is *)
(* v1 rebuilt under another path, bad fails the checks of scanInstalled.   *)
(* A goroutine is started at most once per boot, install and resume, so    *)
(* each cfg has that many and StartOne never runs short.                   *)
(***************************************************************************)
EXTENDS Supervisor, TLC

Bundle(v, s, p, k) == [ver |-> v, sha |-> s, path |-> p, ok |-> k]
v1  == Bundle(1, "s1", "app", TRUE)
v1r == Bundle(1, "s1r", "app2", TRUE)
v2  == Bundle(2, "s2", "app", TRUE)
bad == Bundle(2, "s2", "app", FALSE)

OneBundle   == {v1}
Upgrade     == {v1, v2}
RebuiltOrBad == {v1, v1r, bad}

Events(i, u, r, d, s) ==
    [install |-> i, uninstall |-> u, resume |-> r, down |-> d, stop |-> s]
Replace    == {Events(1, 0, 0, 0, 0)}
Resume     == {Events(0, 0, 1, 0, 0)}
LiveRemove == {Events(0, 1, 0, 0, 1)}
Disrupt    == {Events(1, 0, 0, 1, 0), Events(0, 1, 1, 0, 1)}

Perms == Permutations(Goroutines)
=============================================================================
