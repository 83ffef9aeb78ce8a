---------------------------- MODULE NodeLimiter ----------------------------
(***************************************************************************)
(* The per-node limiter of pkg/appkit/limiter.go.  Allow runs under the    *)
(* limiter's mutex and reads the clock there, so it is one step.  A hit is *)
(* its time and a number that tells hits of one instant apart; a bucket is *)
(* a set, its hits ordered by time.                                        *)
(***************************************************************************)
EXTENDS Integers, FiniteSets

CONSTANTS
    Nodes,       \* node addresses
    MaxReqs,     \* requests per node and window
    Window,      \* length of the window
    MaxTime,     \* bound on the clock
    MaxEvents    \* bound on the requests made

ASSUME LimiterAssumption == Window \in Nat \ {0} /\ MaxReqs \in Nat

VARIABLES
    now,         \* the clock
    hits,        \* the nodes that have a bucket -> the hits in it
    lastSweep,   \* when buckets were last swept
    granted,     \* node -> every hit recorded so far
    answer,      \* <<node, allowed?>> of the last Allow
    events       \* how many requests were made

limiterVars == <<now, hits, lastSweep, granted, answer, events>>

Init == /\ now = 0
        /\ hits = [n \in {} |-> {}]
        /\ lastSweep = -Window             \* the zero time: long ago
        /\ granted = [n \in Nodes |-> {}]
        /\ answer = <<>>
        /\ events = 0

Bucket(h, n) == IF n \in DOMAIN h THEN h[n] ELSE {}

(* Faulty variant: a hit exactly one window old goes.                      *)
PruneBeforeStrict(bucket, cutoff) == {h \in bucket : h.at > cutoff}

(* pruneBefore: hits older than the cutoff go, one exactly that old stays. *)
PruneBefore(bucket, cutoff) == {h \in bucket : h.at >= cutoff}

(* Faulty variant: a bucket is judged by its oldest hit.                   *)
SweptByOldest(h, t) ==
    IF t - lastSweep < Window THEN h
    ELSE [n \in {k \in DOMAIN h : PruneBefore(h[k], t - Window) = h[k]} |-> h[n]]

(* Faulty variant: nothing is ever swept.                                  *)
SweptNever(h, t) == h

(* sweepLocked: at most once per window, buckets without a recent hit go.  *)
Swept(h, t) ==
    IF t - lastSweep < Window THEN h
    ELSE [n \in {k \in DOMAIN h : PruneBefore(h[k], t - Window) # {}} |-> h[n]]

(* Faulty variant: one request more than the budget.                       *)
DecideOneMore(n, kept, others) ==
    LET ok == Cardinality(kept) <= MaxReqs
        hit == [at |-> now, no |-> events]
        bucket == IF ok THEN kept \cup {hit} ELSE kept
    IN  /\ answer' = <<n, ok>>
        /\ hits' = [k \in DOMAIN others \cup {n} |-> IF k = n THEN bucket ELSE others[k]]
        /\ granted' = IF ok THEN [granted EXCEPT ![n] = @ \cup {hit}] ELSE granted

(* Allow, once the bucket holds only the hits of the window.               *)
Decide(n, kept, others) ==
    LET ok == Cardinality(kept) < MaxReqs
        hit == [at |-> now, no |-> events]
        bucket == IF ok THEN kept \cup {hit} ELSE kept
    IN  /\ answer' = <<n, ok>>
        /\ hits' = [k \in DOMAIN others \cup {n} |-> IF k = n THEN bucket ELSE others[k]]
        /\ granted' = IF ok THEN [granted EXCEPT ![n] = @ \cup {hit}] ELSE granted

Allow(n) ==
    LET h == Swept(hits, now)
    IN  /\ events < MaxEvents
        /\ events' = events + 1
        /\ lastSweep' = IF now - lastSweep < Window THEN lastSweep ELSE now
        /\ Decide(n, PruneBefore(Bucket(h, n), now - Window), h)
        /\ UNCHANGED now

Tick == now < MaxTime /\ now' = now + 1 /\ UNCHANGED <<hits, lastSweep, granted, answer, events>>

Next == Tick \/ \E n \in Nodes : Allow(n)

Spec == Init /\ [][Next]_limiterVars

-----------------------------------------------------------------------------
Hits == [at : Nat, no : Nat]

TypeOK == /\ now \in Nat
          /\ events \in Nat
          /\ DOMAIN hits \subseteq Nodes
          /\ hits \in [DOMAIN hits -> SUBSET Hits]
          /\ lastSweep \in Int
          /\ granted \in [Nodes -> SUBSET Hits]

(* The inductive invariant: whatever was pruned and swept, a bucket holds  *)
(* every grant of its node that still counts, and nothing but grants.      *)
LimiterInv ==
    /\ TypeOK
    /\ lastSweep <= now
    /\ \A n \in Nodes :
         /\ IsFiniteSet(granted[n])
         /\ \A g \in granted[n] : g.at <= now /\ g.no < events
         /\ Bucket(hits, n) \subseteq granted[n]
         /\ \A g \in granted[n] : g.at >= now - Window => g \in Bucket(hits, n)

(* Refinement: dropping old hits and sweeping buckets never changes an     *)
(* answer.  The limiter gives every node the answers of one that remembers *)
(* every grant: none over the budget, and none refused below it.           *)
Budget == INSTANCE SlidingWindow
ExactBudget == Budget!Spec

(* The budget itself: no window of the length, wherever it begins, holds   *)
(* more than MaxReqs granted requests of a node.                           *)
WindowBound ==
    \A n \in Nodes : \A start \in {g.at : g \in granted[n]} :
        Cardinality({g \in granted[n] : g.at \in start .. start + Window}) <= MaxReqs

(* Memory: a bucket that survived the last sweep had a hit in the window   *)
(* before it, so idle nodes cost nothing for more than two windows.        *)
NoStaleBuckets ==
    \A n \in DOMAIN hits : hits[n] = {} \/ \E h \in hits[n] : h.at >= lastSweep - Window
=============================================================================
