---------------------------- MODULE CrashWindow ----------------------------
(***************************************************************************)
(* recordCrash of plugin/appstore/supervisor.go: the sliding window of one *)
(* app's crashes and the suspension it leads to.  One call holds s.mu.     *)
(***************************************************************************)
EXTENDS Integers, FiniteSets

CONSTANTS
    CrashLoopWindow,      \* length of the window
    MaxCrashesInWindow    \* crashes it may hold

VARIABLES
    now,         \* the clock
    times,       \* the crashes the record still holds, [at, no]
    suspended,   \* the record's suspended bit
    crashed      \* every crash since the record was made

Init == times = {} /\ suspended = FALSE /\ crashed = {}

(* Faulty variant: a crash as old as the window still counts.              *)
RecentInclusive(ts) == {c \in ts : c.at >= now - CrashLoopWindow}

(* A crash as old as the window is no longer in it.                        *)
Recent(ts) == {c \in ts : c.at > now - CrashLoopWindow}

RecordCrash(no) ==
    LET crash == [at |-> now, no |-> no]
        kept == Recent(times) \cup {crash}
    IN  /\ times' = kept
        /\ suspended' = (suspended \/ Cardinality(kept) > MaxCrashesInWindow)
        /\ crashed' = crashed \cup {crash}

-----------------------------------------------------------------------------
(* The reference, over the whole history: an app is suspended exactly when *)
(* more than the allowed number of its crashes ever fell within less than  *)
(* one window of each other ("exceed the cap", "once max-in-window has     *)
(* been exceeded"), and stays so; forgetting old crashes loses none that   *)
(* still count.                                                            *)
SuspendedExactly ==
    suspended <=> \E c \in crashed :
        Cardinality({d \in crashed : d.at <= c.at /\ c.at - d.at < CrashLoopWindow
                                      /\ d.no <= c.no}) > MaxCrashesInWindow

(* What CHANGELOG.md says of the crash-loop cap, "5 crashes in 60s         *)
(* suspends an app": as many crashes as the cap suspend.  recordCrash lets *)
(* the window hold that many and suspends at the next one.                 *)
CapSuspends ==
    (\E c \in crashed :
        Cardinality({d \in crashed : d.at <= c.at /\ c.at - d.at < CrashLoopWindow})
          >= MaxCrashesInWindow)
      => suspended
=============================================================================
