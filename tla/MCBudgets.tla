----------------------------- MODULE MCBudgets -----------------------------
(***************************************************************************)
(* The three budgets of the system on one stream of events.  They do not   *)
(* meet in the program; here each request that reaches the node limiter is *)
(* a hook call for the token bucket too and, for one key, a crash, so that *)
(* one run goes through every history of all three.                        *)
(***************************************************************************)
EXTENDS Gates

CONSTANTS PerToken, Rate, Burst, CrashLoopWindow, MaxCrashesInWindow, Crasher

ASSUME BudgetsAssumption ==
    /\ PerToken \in Nat \ {0} /\ Rate \in Nat /\ Burst \in Nat
    /\ CrashLoopWindow \in Nat \ {0} /\ MaxCrashesInWindow \in Nat

VARIABLES buckets, passed, refused, times, suspended, crashed

bucketVars == <<buckets, passed, refused>>
crashVars == <<times, suspended, crashed>>

Tokens == INSTANCE RateLimiter
Crashes == INSTANCE CrashWindow

Origin(n, a) == [node |-> n, auth |-> a]
Bridged(o) == [bridged |-> TRUE, origin |-> o, verified |-> {}]
OutOfBand(o, v) == [bridged |-> FALSE, origin |-> o, verified |-> v]

(* Proven and unproven senders; out of band, claims that match neither.    *)
MCRequests == {Bridged({Origin("a", TRUE)}), Bridged({Origin("b", TRUE)}),
               Bridged({Origin("a", FALSE)}), Bridged({Origin("", TRUE)}), Bridged({}),
               OutOfBand({Origin("b", TRUE)}, {Origin("a", TRUE)}),
               OutOfBand({Origin("b", TRUE)}, {Origin("b", FALSE)}),
               OutOfBand({Origin("b", TRUE)}, {})}

MCInit == GatesInit /\ Tokens!Init /\ Crashes!Init

Event(r) == /\ Handle(r)
            /\ Tokens!Allow(answer'[1], events)
            /\ IF answer'[1] = Crasher THEN Crashes!RecordCrash(events) ELSE UNCHANGED crashVars

MCNext == \/ Tick /\ UNCHANGED <<served, bucketVars, crashVars>>
          \/ \E r \in Requests : Event(r)

MCSpec == MCInit /\ [][MCNext]_<<gatesVars, bucketVars, crashVars>>

(* The token bucket passes all that a burst and the refill allow, over     *)
(* every interval, and no more.                                            *)
BucketExact == Tokens!BucketExact

(* An app is suspended exactly when too many crashes fell in one window.   *)
SuspendedExactly == Crashes!SuspendedExactly

(* As many crashes in one window as the cap suspend an app: the reading of *)
(* CHANGELOG.md, which recordCrash does not follow.                        *)
CapSuspends == Crashes!CapSuspends

-----------------------------------------------------------------------------
(* The inductive invariant.  What a key has spent since s and what is left *)
(* in its bucket never exceed a burst and the refill since s, and make up  *)
(* exactly that since the bucket was last full.                            *)
Spent(k, s) == Cardinality(Tokens!PassedSince(k, s)) * PerToken
Income(s, t) == Tokens!Capacity + (t - s) * Rate

BucketTypes ==
    /\ DOMAIN buckets \subseteq Nodes
    /\ buckets \in [DOMAIN buckets -> [tokens : 0 .. Tokens!Capacity, last : 0 .. now]]
    /\ passed \in [Nodes -> SUBSET Hits]

BucketInv ==
    /\ BucketTypes
    /\ \A k \in Nodes : IsFiniteSet(passed[k]) /\ \A e \in passed[k] :
          e.no < events /\ k \in DOMAIN buckets /\ e.at <= buckets[k].last
    /\ \A k \in DOMAIN buckets :
          LET b == buckets[k]
          IN  /\ \A s \in 0 .. b.last : Spent(k, s) + b.tokens <= Income(s, b.last)
              /\ \E s \in 0 .. b.last : Spent(k, s) + b.tokens = Income(s, b.last)

(* The record holds every crash that can still count.                      *)
CrashInv ==
    /\ times \subseteq crashed /\ crashed \subseteq Hits /\ IsFiniteSet(crashed)
    /\ suspended \in BOOLEAN
    /\ \A c \in crashed : c.at <= now /\ c.no < events
    /\ \A c \in crashed \ times : c.at <= now - CrashLoopWindow

(* Bucket and crash record against everything that ever happened.          *)
BudgetsInv == BucketInv /\ CrashInv
=============================================================================
