---------------------------- MODULE RetainedLog ----------------------------
(***************************************************************************)
(* What the audit log of one app promises its reader: lines are appended   *)
(* in order, and space is made by giving up the oldest lines, never one in *)
(* the middle, and never so many that fewer than MinKept are left.  The    *)
(* promise is made for a log with a sole writer; once a second goroutine   *)
(* has written to the same install dir, lines may be lost anywhere.        *)
(***************************************************************************)
EXTENDS Naturals, FiniteSets

CONSTANT MinKept

VARIABLES
    written,   \* how many lines were ever written
    kept,      \* the numbers of the lines that can still be read
    sole,      \* whether a single goroutine has written so far
    dir        \* which install dir the log is in

logVars == <<written, kept, sole, dir>>

Init == written = 0 /\ kept = {} /\ sole \in BOOLEAN /\ dir = 0

Append == /\ written' = written + 1
          /\ kept' = kept \cup {written + 1}
          /\ UNCHANGED <<sole, dir>>

(* A line written to a file that has left the install dir is lost at once.*)
Lose == /\ sole => kept = {}
        /\ written' = written + 1
        /\ UNCHANGED <<kept, sole, dir>>

Discard == /\ kept' \subseteq kept
           /\ sole => /\ \A old \in kept \ kept', k \in kept' : old < k
                      /\ Cardinality(kept') >= MinKept
           /\ UNCHANGED <<written, sole, dir>>

(* The app is uninstalled, or its install dir is replaced: the log goes.  *)
Clear == dir' # dir /\ kept' = {} /\ UNCHANGED <<written, sole>>

Share == sole' = FALSE /\ UNCHANGED <<written, kept, dir>>

Next == Append \/ Lose \/ Discard \/ Clear \/ Share

Spec == Init /\ [][Next]_logVars
=============================================================================
