--------------------------- MODULE SlidingWindow ---------------------------
(***************************************************************************)
(* What a per-node rate limit promises: with every request ever granted at *)
(* hand, a request is granted exactly when fewer than MaxReqs of the same  *)
(* node were granted within the Window that ends now.                      *)
(***************************************************************************)
EXTENDS Integers, FiniteSets

CONSTANTS Nodes, MaxReqs, Window

VARIABLES
    now,       \* the clock
    granted,   \* node -> the requests granted so far, [at, no]
    answer     \* <<node, granted?>> of the last request

windowVars == <<now, granted, answer>>

Within(n) == {g \in granted[n] : g.at >= now - Window}

Init == /\ now = 0
        /\ granted = [n \in Nodes |-> {}]
        /\ answer = <<>>

Request(n) ==
    \/ /\ Cardinality(Within(n)) < MaxReqs
       /\ answer' = <<n, TRUE>>
       /\ \E g \in granted'[n] : /\ g \notin granted[n] /\ g.at = now
                                 /\ granted' = [granted EXCEPT ![n] = @ \cup {g}]
       /\ UNCHANGED now
    \/ /\ ~(Cardinality(Within(n)) < MaxReqs)
       /\ answer' = <<n, FALSE>>
       /\ UNCHANGED <<now, granted>>

Tick == now' > now /\ UNCHANGED <<granted, answer>>

Next == Tick \/ \E n \in Nodes : Request(n)

Spec == Init /\ [][Next]_windowVars
=============================================================================
