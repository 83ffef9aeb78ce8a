---------------------------- MODULE RateLimiter ----------------------------
(***************************************************************************)
(* The token bucket of pkg/extend/ratelimit.go that bounds how often the   *)
(* hooks of one app are called.  Tokens are counted in parts, PerToken of  *)
(* them to a token, so that a rate below one token per unit of time is a   *)
(* whole number; the code's float64 rounding is left out.                  *)
(***************************************************************************)
EXTENDS Integers, FiniteSets

CONSTANTS
    Nodes,       \* the keys: app ids
    PerToken,    \* parts of a token
    Rate,        \* parts refilled per unit of time
    Burst        \* capacity of a bucket, in tokens

VARIABLES
    now,         \* the clock
    buckets,     \* the keys that have a bucket -> [tokens, last]
    passed,      \* key -> the events let through so far, [at, no]
    refused      \* <<key, time>> of the last event, when it was refused

Init == /\ now = 0
        /\ buckets = [k \in {} |-> 0]
        /\ passed = [k \in Nodes |-> {}]
        /\ refused = <<>>

Capacity == Burst * PerToken

(* Faulty variant: an idle key saves up more than a burst.                 *)
RefilledUncapped(k) ==
    IF k \notin DOMAIN buckets THEN Capacity
    ELSE buckets[k].tokens + (now - buckets[k].last) * Rate

(* The bucket of a key, filled up for the time that has passed.            *)
Refilled(k) ==
    IF k \notin DOMAIN buckets THEN Capacity
    ELSE LET filled == buckets[k].tokens + (now - buckets[k].last) * Rate
         IN  IF filled > Capacity THEN Capacity ELSE filled

Allow(k, no) ==
    LET tokens == Refilled(k)
        ok == tokens >= PerToken
        left == IF ok THEN tokens - PerToken ELSE tokens
    IN  /\ buckets' = [j \in DOMAIN buckets \cup {k} |->
                          IF j = k THEN [tokens |-> left, last |-> now] ELSE buckets[j]]
        /\ passed' = IF ok THEN [passed EXCEPT ![k] = @ \cup {[at |-> now, no |-> no]}]
                           ELSE passed
        /\ refused' = IF ok THEN <<>> ELSE <<k, now>>

-----------------------------------------------------------------------------
PassedSince(k, s) == {e \in passed[k] : e.at >= s}

(* What may pass from time s to time t: a full burst and the refill.       *)
Fits(count, s, t) == count * PerToken <= Capacity + (t - s) * Rate

(* The reference: over every interval, no more events pass than a burst    *)
(* and the refill of the interval, and an event is refused only when one   *)
(* more would have been too many for some interval that ends then.         *)
BucketExact ==
    /\ \A k \in Nodes : \A s \in {e.at : e \in passed[k]}, t \in {e.at : e \in passed[k]} :
          s <= t => Fits(Cardinality({e \in PassedSince(k, s) : e.at <= t}), s, t)
    /\ refused # <<>> =>
          \E s \in 0 .. refused[2] :
             ~Fits(Cardinality(PassedSince(refused[1], s)) + 1, s, refused[2])
=============================================================================
