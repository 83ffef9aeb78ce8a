--------------------------- MODULE LimiterProofs ---------------------------
(***************************************************************************)
(* The per-node limiter implements the sliding window it promises, for any *)
(* nodes, budget and window, and the gates spend a node's budget on its    *)
(* own requests alone.  The token bucket and the crash window answer as a  *)
(* look at the whole history would.                                        *)
(***************************************************************************)
EXTENDS MCBudgets, FiniteSetTheorems, TLAPS

(* What Allow finds once it has swept and pruned: every grant within the   *)
(* window, and nothing else.                                               *)
Kept(n) == PruneBefore(Bucket(Swept(hits, now), n), now - Window)

LEMMA KeptIsWithin ==
    ASSUME LimiterInv, NEW n \in Nodes
    PROVE  Kept(n) = Budget!Within(n)
  <1> DEFINE cut == now - Window
  <1>1. PruneBefore(Bucket(hits, n), cut) = Budget!Within(n)
    BY DEF LimiterInv, PruneBefore, Budget!Within
  <1>2. CASE now - lastSweep < Window
    BY <1>1, <1>2 DEF Kept, Swept
  <1>3. CASE ~(now - lastSweep < Window)
    <2> DEFINE live == {k \in DOMAIN hits : PruneBefore(hits[k], cut) # {}}
    <2>1. Swept(hits, now) = [k \in live |-> hits[k]]
      BY <1>3 DEF Swept
    <2>2. CASE n \in live
      BY <1>1, <2>1, <2>2 DEF Kept, Bucket
    <2>3. CASE n \notin live
      <3>1. Bucket(Swept(hits, now), n) = {}
        BY <2>1, <2>3 DEF Bucket
      <3>2. PruneBefore(Bucket(hits, n), cut) = {}
        BY <2>3 DEF Bucket, PruneBefore
      <3>3. QED
        BY <1>1, <3>1, <3>2 DEF Kept, PruneBefore
    <2>4. QED
      BY <2>2, <2>3
  <1>4. QED
    BY <1>2, <1>3

(* The buckets a sweep keeps are buckets as they were.                     *)
LEMMA SweptBuckets ==
    ASSUME TypeOK
    PROVE  /\ DOMAIN Swept(hits, now) \subseteq DOMAIN hits
           /\ \A k \in DOMAIN Swept(hits, now) : Swept(hits, now)[k] = hits[k]
           /\ now - lastSweep < Window => Swept(hits, now) = hits
           /\ ~(now - lastSweep < Window) =>
                \A k \in DOMAIN Swept(hits, now) : PruneBefore(hits[k], now - Window) # {}
           /\ \A k \in Nodes : PruneBefore(Bucket(hits, k), now - Window)
                                 \subseteq Bucket(Swept(hits, now), k)
  BY DEF TypeOK, Swept, Bucket, PruneBefore

(* Allow, spelled out: the answer, the bucket of the node, and that no     *)
(* other bucket changes but by being swept.                                *)
LEMMA AllowEffect ==
    ASSUME LimiterInv, NEW n \in Nodes, Allow(n)
    PROVE  LET ok == Cardinality(Budget!Within(n)) < MaxReqs
               hit == [at |-> now, no |-> events]
               swept == Swept(hits, now)
           IN  /\ answer' = <<n, ok>>
               /\ now' = now /\ events' = events + 1
               /\ lastSweep' = IF now - lastSweep < Window THEN lastSweep ELSE now
               /\ granted' = IF ok THEN [granted EXCEPT ![n] = @ \cup {hit}] ELSE granted
               /\ hits' = [k \in DOMAIN swept \cup {n} |->
                             IF k = n THEN (IF ok THEN Budget!Within(n) \cup {hit}
                                                  ELSE Budget!Within(n))
                                      ELSE swept[k]]
  <1>1. Decide(n, Kept(n), Swept(hits, now))
    BY DEF Allow, Kept
  <1>2. Decide(n, Budget!Within(n), Swept(hits, now))
    BY <1>1, KeptIsWithin
  <1>3. QED
    BY <1>2 DEF Allow, Decide

LEMMA InitInv == Init => LimiterInv
  <1> SUFFICES ASSUME Init PROVE LimiterInv
    OBVIOUS
  <1>1. DOMAIN hits = {} /\ hits \in [DOMAIN hits -> SUBSET Hits]
    BY DEF Init
  <1>2. TypeOK
    BY <1>1, LimiterAssumption DEF Init, TypeOK
  <1>3. \A n \in Nodes : granted[n] = {} /\ Bucket(hits, n) = {} /\ IsFiniteSet(granted[n])
    BY <1>1, FS_EmptySet DEF Init, Bucket
  <1>4. lastSweep <= now
    BY LimiterAssumption DEF Init
  <1>5. QED
    BY <1>2, <1>3, <1>4 DEF LimiterInv

LEMMA TickInv ==
    ASSUME LimiterInv, Tick
    PROVE  LimiterInv'
  <1>1. TypeOK' /\ lastSweep' <= now'
    BY DEF LimiterInv, TypeOK, Tick
  <1>2. ASSUME NEW n \in Nodes
        PROVE  /\ IsFiniteSet(granted'[n])
               /\ \A g \in granted'[n] : g.at <= now' /\ g.no < events'
               /\ Bucket(hits', n) \subseteq granted'[n]
               /\ \A g \in granted'[n] : g.at >= now' - Window => g \in Bucket(hits', n)
    <2>1. granted' = granted /\ hits' = hits /\ events' = events /\ now' = now + 1 /\ now \in Nat
      BY DEF Tick, LimiterInv, TypeOK
    <2>2. \A g \in granted[n] : g.at \in Nat /\ g.no \in Nat
      BY DEF LimiterInv, TypeOK, Hits
    <2>3. QED
      BY <2>1, <2>2, LimiterAssumption DEF LimiterInv, Bucket
  <1>3. QED
    BY <1>1, <1>2 DEF LimiterInv, Bucket

LEMMA AllowInv ==
    ASSUME LimiterInv, NEW n \in Nodes, Allow(n)
    PROVE  LimiterInv'
  <1> DEFINE ok == Cardinality(Budget!Within(n)) < MaxReqs
  <1> DEFINE hit == [at |-> now, no |-> events]
  <1> DEFINE swept == Swept(hits, now)
  <1>1. /\ now' = now /\ events' = events + 1
        /\ lastSweep' = IF now - lastSweep < Window THEN lastSweep ELSE now
        /\ granted' = IF ok THEN [granted EXCEPT ![n] = @ \cup {hit}] ELSE granted
        /\ hits' = [k \in DOMAIN swept \cup {n} |->
                      IF k = n THEN (IF ok THEN Budget!Within(n) \cup {hit} ELSE Budget!Within(n))
                               ELSE swept[k]]
    BY AllowEffect
  <1>2. TypeOK /\ now \in Nat /\ events \in Nat /\ hit \in Hits /\ lastSweep \in Int
    BY DEF LimiterInv, TypeOK, Hits
  <1>3. /\ DOMAIN swept \subseteq DOMAIN hits
        /\ \A k \in DOMAIN swept : swept[k] = hits[k]
        /\ \A k \in Nodes : PruneBefore(Bucket(hits, k), now - Window) \subseteq Bucket(swept, k)
    BY <1>2, SweptBuckets
  <1>4. Budget!Within(n) \subseteq granted[n] /\ granted[n] \subseteq Hits
    BY <1>2 DEF Budget!Within, TypeOK
  <1> HIDE DEF ok, hit, swept
  <1>5. granted' \in [Nodes -> SUBSET Hits]
    BY <1>1, <1>2, <1>4 DEF TypeOK
  <1>6. DOMAIN hits' \subseteq Nodes /\ hits' \in [DOMAIN hits' -> SUBSET Hits]
    <2>1. DOMAIN hits' = DOMAIN swept \cup {n}
      BY <1>1
    <2>2. \A k \in DOMAIN hits' : hits'[k] \subseteq Hits
      BY <1>1, <1>2, <1>3, <1>4 DEF TypeOK
    <2>3. QED
      BY <1>1, <1>2, <1>3, <2>1, <2>2 DEF TypeOK
  <1>7. TypeOK' /\ lastSweep' <= now'
    BY <1>1, <1>2, <1>5, <1>6 DEF TypeOK, LimiterInv
  <1>8. ASSUME NEW k \in Nodes
        PROVE  /\ IsFiniteSet(granted'[k])
               /\ \A g \in granted'[k] : g.at <= now' /\ g.no < events'
               /\ Bucket(hits', k) \subseteq granted'[k]
               /\ \A g \in granted'[k] : g.at >= now' - Window => g \in Bucket(hits', k)
    <2>1. /\ IsFiniteSet(granted[k])
          /\ \A g \in granted[k] : g \in Hits /\ g.at <= now /\ g.no < events
          /\ Bucket(hits, k) \subseteq granted[k]
          /\ \A g \in granted[k] : g.at >= now - Window => g \in Bucket(hits, k)
      BY <1>2 DEF LimiterInv, TypeOK
    <2>2. CASE k = n
      <3>1. granted'[n] = IF ok THEN granted[n] \cup {hit} ELSE granted[n]
        BY <1>1, <1>2 DEF TypeOK
      <3>2. Bucket(hits', n) = IF ok THEN Budget!Within(n) \cup {hit} ELSE Budget!Within(n)
        BY <1>1 DEF Bucket
      <3>3. IsFiniteSet(granted'[n])
        BY <2>1, <2>2, <3>1, FS_AddElement
      <3>4. hit.at = now /\ hit.no = events
        BY DEF hit
      <3>5. \A g \in granted'[n] : g.at <= now' /\ g.no < events'
        BY <1>1, <1>2, <2>1, <2>2, <3>1, <3>4 DEF Hits
      <3>6. \A g \in granted[n] : g.at >= now - Window => g \in Budget!Within(n)
        BY DEF Budget!Within
      <3>7. Bucket(hits', n) \subseteq granted'[n]
        BY <1>4, <3>1, <3>2
      <3>8. \A g \in granted'[n] : g.at >= now - Window => g \in Bucket(hits', n)
        BY <3>1, <3>2, <3>6
      <3>9. now' = now
        BY <1>1
      <3>10. QED
        BY <2>2, <3>3, <3>5, <3>7, <3>8, <3>9
    <2>3. CASE k # n
      <3>1. granted'[k] = granted[k]
        BY <1>1, <1>2, <2>3 DEF TypeOK
      <3>2. Bucket(hits', k) = Bucket(swept, k)
        BY <1>1, <2>3 DEF Bucket
      <3>3. Bucket(swept, k) \subseteq granted[k]
        BY <1>3, <2>1 DEF Bucket
      <3>4. \A g \in granted[k] : g.at >= now - Window => g \in Bucket(swept, k)
        BY <1>3, <2>1 DEF PruneBefore
      <3>5. \A g \in granted[k] : g.at <= now' /\ g.no < events'
        BY <1>1, <1>2, <2>1 DEF Hits
      <3>6. now' = now
        BY <1>1
      <3>7. QED
        BY <2>1, <3>1, <3>2, <3>3, <3>4, <3>5, <3>6
    <2>4. QED
      BY <2>2, <2>3
  <1>9. QED
    BY <1>7, <1>8 DEF LimiterInv, Bucket

(* What a bucket holds is what still counts, for every budget and window,  *)
(* whatever Allow has pruned and swept.                                    *)
THEOREM LimiterInvariant == Spec => []LimiterInv
  <1>1. ASSUME LimiterInv, [Next]_limiterVars
        PROVE  LimiterInv'
    <2>1. CASE Tick
      BY <1>1, <2>1, TickInv
    <2>2. ASSUME NEW n \in Nodes, Allow(n)
          PROVE  LimiterInv'
      BY <1>1, <2>2, AllowInv
    <2>3. CASE UNCHANGED limiterVars
      BY <1>1, <2>3 DEF limiterVars, LimiterInv, TypeOK, Bucket
    <2>4. QED
      BY <1>1, <2>1, <2>2, <2>3 DEF Next
  <1>2. QED
    BY InitInv, <1>1, PTL DEF Spec

-----------------------------------------------------------------------------
(* The instance of SlidingWindow counts as this module does.               *)
LEMMA SameCardinality == \A S : Budget!Cardinality(S) = Cardinality(S)
  BY DEF Budget!Cardinality, Cardinality

LEMMA AllowIsRequest ==
    ASSUME LimiterInv, NEW n \in Nodes, Allow(n)
    PROVE  Budget!Request(n)
  <1> DEFINE ok == Cardinality(Budget!Within(n)) < MaxReqs
  <1> DEFINE hit == [at |-> now, no |-> events]
  <1>1. /\ answer' = <<n, ok>>
        /\ now' = now
        /\ granted' = IF ok THEN [granted EXCEPT ![n] = @ \cup {hit}] ELSE granted
    BY AllowEffect
  <1>2. granted \in [Nodes -> SUBSET Hits] /\ \A g \in granted[n] : g.no < events /\ events \in Nat
    BY DEF LimiterInv, TypeOK
  <1>3. hit \notin granted[n]
    BY <1>2 DEF Hits
  <1>4. ok => hit \in granted'[n]
    BY <1>1, <1>2
  <1>5. ok => \E g \in granted'[n] : /\ g \notin granted[n] /\ g.at = now
                                     /\ granted' = [granted EXCEPT ![n] = @ \cup {g}]
    BY <1>1, <1>3, <1>4
  <1>6. ~ok => granted' = granted
    BY <1>1
  <1>7. ok \in BOOLEAN /\ answer' = <<n, ok>> /\ now' = now
    BY <1>1
  <1> HIDE DEF hit, ok
  <1>8. CASE ok
    <2>1. answer' = <<n, TRUE>>
      BY <1>7, <1>8
    <2>2. QED
      BY <1>5, <1>7, <1>8, <2>1, SameCardinality DEF Budget!Request, ok
  <1>9. CASE ~ok
    <2>1. answer' = <<n, FALSE>>
      BY <1>7, <1>9
    <2>2. QED
      BY <1>6, <1>7, <1>9, <2>1, SameCardinality DEF Budget!Request, ok
  <1>10. QED
    BY <1>8, <1>9

(* The limiter of pkg/appkit implements the exact sliding window: pruning  *)
(* and sweeping change no answer, for any nodes, budget and window.        *)
THEOREM ImplementsBudget == Spec => ExactBudget
  <1>1. Init => Budget!Init
    BY DEF Init, Budget!Init
  <1>2. ASSUME LimiterInv, [Next]_limiterVars
        PROVE  [Budget!Next]_Budget!windowVars
    <2>1. CASE Tick
      BY <1>2, <2>1 DEF Tick, LimiterInv, TypeOK, Budget!Next, Budget!Tick
    <2>2. ASSUME NEW n \in Nodes, Allow(n)
          PROVE  Budget!Next
      BY <1>2, <2>2, AllowIsRequest DEF Budget!Next
    <2>3. CASE UNCHANGED limiterVars
      BY <2>3 DEF limiterVars, Budget!windowVars
    <2>4. QED
      BY <1>2, <2>1, <2>2, <2>3 DEF Next
  <1>3. QED
    BY LimiterInvariant, <1>1, <1>2, PTL DEF Spec, ExactBudget, Budget!Spec

-----------------------------------------------------------------------------
(* One grant keeps every window within the budget: one that contains it    *)
(* holds, besides it, only grants that Allow has just counted.             *)
LEMMA AllowWindow ==
    ASSUME LimiterInv, WindowBound, NEW n \in Nodes, Allow(n)
    PROVE  WindowBound'
  <1> DEFINE ok == Cardinality(Budget!Within(n)) < MaxReqs
  <1> DEFINE hit == [at |-> now, no |-> events]
  <1> DEFINE In(G, start) == {g \in G : g.at \in start .. start + Window}
  <1>1. granted' = IF ok THEN [granted EXCEPT ![n] = @ \cup {hit}] ELSE granted
    BY AllowEffect
  <1>2. /\ granted \in [Nodes -> SUBSET Hits] /\ now \in Nat /\ events \in Nat
        /\ Window \in Nat /\ MaxReqs \in Nat
    BY LimiterAssumption DEF LimiterInv, TypeOK
  <1>3. \A g \in granted[n] : g \in Hits /\ g.at <= now
    BY <1>2 DEF LimiterInv
  <1>4. SUFFICES ASSUME NEW k \in Nodes, NEW start \in {g.at : g \in granted'[k]}
                 PROVE  Cardinality(In(granted'[k], start)) <= MaxReqs
    BY DEF WindowBound
  <1>5. CASE k # n \/ ~ok
    <2>1. granted'[k] = granted[k]
      BY <1>1, <1>2, <1>5
    <2>2. QED
      BY <2>1 DEF WindowBound
  <1>6. CASE k = n /\ ok
    <2>1. granted'[n] = granted[n] \cup {hit}
      BY <1>1, <1>2, <1>6
    <2>2. start \in Nat /\ start <= now
      BY <1>2, <1>3, <1>4, <1>6, <2>1 DEF Hits
    <2>3. CASE start + Window < now
      <3>1. In(granted'[n], start) = In(granted[n], start)
        BY <1>2, <2>1, <2>2, <2>3
      <3>2. start \in {g.at : g \in granted[n]}
        BY <1>2, <1>4, <1>6, <2>1, <2>2, <2>3
      <3>3. QED
        BY <1>6, <3>1, <3>2 DEF WindowBound
    <2>4. CASE ~(start + Window < now)
      <3> DEFINE W == Budget!Within(n)
      <3>1. In(granted'[n], start) \subseteq W \cup {hit}
        <4>1. \A g \in granted[n] : g.at \in start .. start + Window => g \in W
          BY <1>2, <1>3, <2>2, <2>4 DEF Budget!Within, Hits
        <4>2. QED
          BY <2>1, <4>1
      <3>2. IsFiniteSet(W)
        BY FS_Subset DEF LimiterInv, Budget!Within
      <3> HIDE DEF W, hit
      <3>3. /\ IsFiniteSet(W \cup {hit})
            /\ Cardinality(W) \in Nat
            /\ Cardinality(W \cup {hit}) <= Cardinality(W) + 1
        <4>1. Cardinality(W) \in Nat
          BY <3>2, FS_CardinalityType
        <4>2. /\ IsFiniteSet(W \cup {hit})
              /\ Cardinality(W \cup {hit}) = IF hit \in W THEN Cardinality(W) ELSE Cardinality(W) + 1
          BY <3>2, FS_AddElement
        <4>3. QED
          BY <4>1, <4>2
      <3>4. /\ Cardinality(In(granted'[n], start)) <= Cardinality(W \cup {hit})
            /\ Cardinality(In(granted'[n], start)) \in Nat
            /\ Cardinality(W \cup {hit}) \in Nat
        BY <3>1, <3>3, FS_Subset, FS_CardinalityType
      <3>5. Cardinality(W) < MaxReqs
        BY <1>6 DEF W
      <3>6. QED
        BY <1>2, <1>6, <3>3, <3>4, <3>5
    <2>5. QED
      BY <2>3, <2>4
  <1>7. QED
    BY <1>5, <1>6

(* No window of the length ever holds more granted requests of a node than *)
(* the budget, wherever it begins.                                         *)
THEOREM WindowBoundHolds == Spec => []WindowBound
  <1>1. Init => WindowBound
    BY DEF Init, WindowBound
  <1>2. ASSUME LimiterInv, WindowBound, [Next]_limiterVars
        PROVE  WindowBound'
    <2>1. CASE Tick
      BY <1>2, <2>1 DEF Tick, WindowBound
    <2>2. ASSUME NEW n \in Nodes, Allow(n)
          PROVE  WindowBound'
      BY <1>2, <2>2, AllowWindow
    <2>3. CASE UNCHANGED limiterVars
      BY <1>2, <2>3 DEF limiterVars, WindowBound
    <2>4. QED
      BY <1>2, <2>1, <2>2, <2>3 DEF Next
  <1>3. QED
    BY LimiterInvariant, <1>1, <1>2, PTL DEF Spec

-----------------------------------------------------------------------------
(* A bucket that a sweep has passed had a hit in the window before it: the *)
(* limiter forgets every idle node.                                        *)
THEOREM NoStaleBucketsHolds == Spec => []NoStaleBuckets
  <1>1. Init => NoStaleBuckets
    BY DEF Init, NoStaleBuckets
  <1>2. ASSUME LimiterInv, NoStaleBuckets, NEW n \in Nodes, Allow(n)
        PROVE  NoStaleBuckets'
    <2> DEFINE ok == Cardinality(Budget!Within(n)) < MaxReqs
    <2> DEFINE hit == [at |-> now, no |-> events]
    <2> DEFINE swept == Swept(hits, now)
    <2>1. /\ now' = now
          /\ lastSweep' = IF now - lastSweep < Window THEN lastSweep ELSE now
          /\ hits' = [k \in DOMAIN swept \cup {n} |->
                        IF k = n THEN (IF ok THEN Budget!Within(n) \cup {hit} ELSE Budget!Within(n))
                                 ELSE swept[k]]
      BY <1>2, AllowEffect
    <2>2. TypeOK /\ now \in Nat /\ lastSweep \in Int /\ lastSweep <= now /\ Window \in Nat
      BY <1>2, LimiterAssumption DEF LimiterInv, TypeOK
    <2>3. \A g \in Budget!Within(n) : g.at \in Nat /\ g.at >= now - Window
      BY <2>2 DEF Budget!Within, TypeOK, Hits
    <2>4. /\ \A k \in DOMAIN swept : k \in DOMAIN hits /\ swept[k] = hits[k]
          /\ ~(now - lastSweep < Window) =>
                \A k \in DOMAIN swept : PruneBefore(hits[k], now - Window) # {}
      BY <2>2, SweptBuckets
    <2>5. SUFFICES ASSUME NEW k \in DOMAIN hits', hits'[k] # {}
                   PROVE  \E h \in hits'[k] : h.at >= lastSweep' - Window
      BY DEF NoStaleBuckets
    <2> HIDE DEF ok, swept
    <2>6. CASE k = n
      <3>1. \A h \in hits'[k] : h.at \in Nat /\ h.at >= now - Window
        BY <2>1, <2>2, <2>3, <2>6
      <3>2. lastSweep' \in Int /\ lastSweep' <= now
        BY <2>1, <2>2
      <3>3. QED
        BY <2>2, <2>5, <3>1, <3>2
    <2>7. CASE k # n
      <3>1. k \in DOMAIN hits /\ hits'[k] = hits[k] /\ k \in DOMAIN swept
        BY <2>1, <2>4, <2>5, <2>7
      <3>2. CASE now - lastSweep < Window
        BY <1>2, <2>1, <2>5, <3>1, <3>2 DEF NoStaleBuckets
      <3>3. CASE ~(now - lastSweep < Window)
        BY <2>1, <2>4, <3>1, <3>3 DEF PruneBefore
      <3>4. QED
        BY <3>2, <3>3
    <2>8. QED
      BY <2>6, <2>7
  <1>3. ASSUME LimiterInv, NoStaleBuckets, [Next]_limiterVars
        PROVE  NoStaleBuckets'
    <2>1. CASE Tick
      BY <1>3, <2>1 DEF Tick, NoStaleBuckets
    <2>2. CASE UNCHANGED limiterVars
      BY <1>3, <2>2 DEF limiterVars, NoStaleBuckets
    <2>3. QED
      BY <1>2, <1>3, <2>1, <2>2 DEF Next
  <1>4. QED
    BY LimiterInvariant, <1>1, <1>3, PTL DEF Spec

-----------------------------------------------------------------------------
(* What passes the gates: the proven identity, authenticated, with a node. *)
LEMMA HandleEffect ==
    ASSUME NEW r \in Requests, Handle(r)
    PROVE  \E n \in Nodes : /\ Proven(r) = {[node |-> n, auth |-> TRUE]}
                            /\ Allow(n)
                            /\ served' = IF answer'[2]
                                         THEN served \cup {[no |-> events, node |-> n, req |-> r]}
                                         ELSE served
  <1>1. /\ r \in [bridged : BOOLEAN, origin : Optional(Origins), verified : Optional(Origins)]
        /\ "" \notin Nodes
    BY RequestsAssumption
  <1>2. PICK p \in (IF r.bridged THEN {r} ELSE RequireEnvelope(r)) :
               \E q \in RequireOrigin(p) : LimitPerNode(q, r)
    BY DEF Handle
  <1>3. p.origin = Proven(r) /\ Proven(r) \in Optional(Origins)
    <2>1. CASE r.bridged
      BY <1>1, <1>2, <2>1 DEF Proven
    <2>2. CASE ~r.bridged
      <3>1. PICK v \in r.verified : p = [r EXCEPT !.origin = {v}]
        BY <1>2, <2>2 DEF RequireEnvelope
      <3>2. r.verified = {v}
        BY <1>1, <3>1 DEF Optional
      <3>3. QED
        BY <1>1, <2>2, <3>1, <3>2 DEF Proven
    <2>3. QED
      BY <2>1, <2>2
  <1>4. LimitPerNode(p, r) /\ \E o \in p.origin : o.auth
    BY <1>2 DEF RequireOrigin
  <1>5. PICK o \in p.origin :
            /\ o.node # ""
            /\ Allow(o.node)
            /\ served' = IF answer'[2] THEN served \cup {[no |-> events, node |-> o.node, req |-> r]}
                                       ELSE served
    BY <1>4 DEF LimitPerNode
  <1>6. p.origin = {o} /\ o \in Origins
    BY <1>3, <1>5 DEF Optional
  <1>7. o = [node |-> o.node, auth |-> TRUE] /\ o.node \in Nodes
    <2>1. o.auth /\ o.auth \in BOOLEAN
      BY <1>4, <1>6 DEF Origins
    <2>2. o.auth = TRUE
      BY <2>1
    <2>3. QED
      BY <1>5, <1>6, <2>2 DEF Origins
  <1>8. QED
    BY <1>3, <1>5, <1>6, <1>7

LEMMA GatesStep ==
    ASSUME LimiterInv, ServedProven, NEW r \in Requests, Handle(r)
    PROVE  ServedProven'
  <1>1. PICK n \in Nodes : /\ Proven(r) = {[node |-> n, auth |-> TRUE]}
                           /\ Allow(n)
                           /\ served' = IF answer'[2]
                                        THEN served \cup {[no |-> events, node |-> n, req |-> r]}
                                        ELSE served
    BY HandleEffect
  <1> DEFINE ok == Cardinality(Budget!Within(n)) < MaxReqs
  <1> DEFINE hit == [at |-> now, no |-> events]
  <1> DEFINE run == [no |-> events, node |-> n, req |-> r]
  <1>2. answer' = <<n, ok>> /\ granted' = IF ok THEN [granted EXCEPT ![n] = @ \cup {hit}] ELSE granted
    BY <1>1, AllowEffect
  <1>3. ok \in BOOLEAN /\ hit.no = events /\ run.no = events /\ run.node = n /\ run.req = r
    OBVIOUS
  <1>4. granted \in [Nodes -> SUBSET Hits]
    BY DEF LimiterInv, TypeOK
  <1> HIDE DEF ok, hit, run
  <1>5. served' = IF ok THEN served \cup {run} ELSE served
    <2>1. answer'[2] = ok
      BY <1>2
    <2>2. QED
      BY <1>1, <2>1 DEF run
  <1>6. \A s \in served' : Proven(s.req) = {[node |-> s.node, auth |-> TRUE]}
    BY <1>1, <1>3, <1>5 DEF ServedProven
  <1>7. ASSUME NEW k \in Nodes
        PROVE  {g.no : g \in granted'[k]} = {s.no : s \in {t \in served' : t.node = k}}
    <2>1. {g.no : g \in granted[k]} = {s.no : s \in {t \in served : t.node = k}}
      BY DEF ServedProven
    <2>2. CASE ~ok
      BY <1>2, <1>5, <2>1, <2>2
    <2>3. CASE ok /\ k # n
      <3>1. granted'[k] = granted[k]
        BY <1>2, <1>4, <2>3
      <3>2. {t \in served' : t.node = k} = {t \in served : t.node = k}
        BY <1>3, <1>5, <2>3
      <3>3. QED
        BY <2>1, <3>1, <3>2
    <2>4. CASE ok /\ k = n
      <3>1. granted'[k] = granted[k] \cup {hit}
        BY <1>2, <1>4, <2>4
      <3>2. {t \in served' : t.node = k} = {t \in served : t.node = k} \cup {run}
        BY <1>3, <1>5, <2>4
      <3>3. {g.no : g \in granted'[k]} = {g.no : g \in granted[k]} \cup {events}
        BY <1>3, <3>1
      <3>4. {s.no : s \in {t \in served' : t.node = k}}
              = {s.no : s \in {t \in served : t.node = k}} \cup {events}
        BY <1>3, <3>2
      <3>5. QED
        BY <2>1, <3>3, <3>4
    <2>5. QED
      BY <2>2, <2>3, <2>4
  <1>8. QED
    BY <1>6, <1>7 DEF ServedProven, Proven

(* The handler runs only as a node the daemon has proven, and each node's  *)
(* budget is spent by its own served requests alone, for any requests.     *)
THEOREM ServedProvenHolds == GatesSpec => []ServedProven
  <1> DEFINE Both == LimiterInv /\ ServedProven
  <1>1. GatesInit => Both
    <2>1. ASSUME GatesInit PROVE ServedProven
      BY <2>1 DEF GatesInit, Init, ServedProven
    <2>2. QED
      BY <2>1, InitInv DEF GatesInit
  <1>2. ASSUME Both, [GatesNext]_gatesVars
        PROVE  Both'
    <2>1. CASE Tick /\ UNCHANGED served
      <3>1. ServedProven'
        BY <1>2, <2>1 DEF Tick, ServedProven, Proven
      <3>2. QED
        BY <1>2, <2>1, <3>1, TickInv
    <2>2. ASSUME NEW r \in Requests, Handle(r)
          PROVE  Both'
      BY <1>2, <2>2, HandleEffect, AllowInv, GatesStep
    <2>3. CASE UNCHANGED gatesVars
      BY <1>2, <2>3 DEF gatesVars, limiterVars, LimiterInv, TypeOK, Bucket, ServedProven, Proven
    <2>4. QED
      BY <1>2, <2>1, <2>2, <2>3 DEF GatesNext
  <1>3. QED
    BY <1>1, <1>2, PTL DEF GatesSpec

-----------------------------------------------------------------------------
(* The token bucket.                                                       *)

LEMMA Elapsed ==
    ASSUME NEW r \in Nat, NEW t \in Nat, NEW u \in Nat, NEW v \in Nat, t <= u, u <= v
    PROVE  /\ (u - t) * r \in Nat /\ (v - u) * r \in Nat
           /\ (u - t) * r + (v - u) * r = (v - t) * r
  OBVIOUS

LEMMA OneTokenMore ==
    ASSUME NEW n \in Nat, NEW p \in Nat
    PROVE  n * p \in Nat /\ (n + 1) * p = n * p + p
  OBVIOUS

LEMMA CapacityType == Tokens!Capacity \in Nat
  BY BudgetsAssumption DEF Tokens!Capacity

LEMMA SpentType ==
    ASSUME BucketInv, NEW k \in Nodes, NEW s \in Nat
    PROVE  /\ IsFiniteSet(Tokens!PassedSince(k, s))
           /\ Cardinality(Tokens!PassedSince(k, s)) \in Nat
           /\ Spent(k, s) \in Nat
           /\ (\A e \in passed[k] : e.at < s) => Spent(k, s) = 0
  <1>1. Tokens!PassedSince(k, s) \subseteq passed[k] /\ IsFiniteSet(passed[k])
    BY DEF Tokens!PassedSince, BucketInv
  <1>2. IsFiniteSet(Tokens!PassedSince(k, s)) /\ Cardinality(Tokens!PassedSince(k, s)) \in Nat
    BY <1>1, FS_Subset, FS_CardinalityType
  <1>3. Spent(k, s) \in Nat
    BY <1>2, BudgetsAssumption, OneTokenMore DEF Spent
  <1>4. ASSUME \A e \in passed[k] : e.at < s
        PROVE  Spent(k, s) = 0
    <2>1. \A e \in passed[k] : e.at \in Nat
      BY DEF BucketInv, BucketTypes, Hits
    <2>2. Tokens!PassedSince(k, s) = {}
      BY <1>4, <2>1 DEF Tokens!PassedSince
    <2> QED
      BY <2>2, FS_EmptySet, BudgetsAssumption DEF Spent
  <1> QED
    BY <1>2, <1>3, <1>4

(* Refilling carries the balance of a bucket over to the present: what was *)
(* lost at the brim is lost once and for all.                              *)
LEMMA RefilledBalance ==
    ASSUME BucketInv, now \in Nat, NEW k \in Nodes
    PROVE  /\ Tokens!Refilled(k) \in 0 .. Tokens!Capacity
           /\ \A s \in 0 .. now : Spent(k, s) + Tokens!Refilled(k) <= Income(s, now)
           /\ \E s \in 0 .. now : Spent(k, s) + Tokens!Refilled(k) = Income(s, now)
  <1> DEFINE C == Tokens!Capacity
             R == Tokens!Refilled(k)
  <1>1. C \in Nat /\ Rate \in Nat
    BY CapacityType, BudgetsAssumption
  <1>2. \A s \in 0 .. now : (now - s) * Rate \in Nat /\ Spent(k, s) \in Nat
    BY <1>1, Elapsed, SpentType
  <1>3. Income(now, now) = C
    BY <1>1 DEF Income
  <1> HIDE DEF C
  <1>4. CASE k \notin DOMAIN buckets
    <2>1. R = C
      BY <1>4 DEF Tokens!Refilled, C
    <2>2. passed[k] = {}
      BY <1>4 DEF BucketInv
    <2>3. \A s \in 0 .. now : Spent(k, s) = 0
      BY <2>2, SpentType
    <2>4. \A s \in 0 .. now : Spent(k, s) + R <= Income(s, now)
      BY <1>1, <1>2, <2>1, <2>3 DEF Income, C
    <2>5. Spent(k, now) + R = Income(now, now)
      BY <1>1, <1>3, <2>1, <2>3
    <2> QED
      BY <1>1, <2>1, <2>4, <2>5 DEF C
  <1>5. CASE k \in DOMAIN buckets
    <2> DEFINE b == buckets[k]
               more == (now - b.last) * Rate
    <2>1. b.tokens \in 0 .. C /\ b.last \in 0 .. now
      BY <1>5 DEF BucketInv, BucketTypes, C
    <2>2. /\ \A s \in 0 .. b.last : Spent(k, s) + b.tokens <= Income(s, b.last)
          /\ \E s \in 0 .. b.last : Spent(k, s) + b.tokens = Income(s, b.last)
      BY <1>5 DEF BucketInv
    <2>3. R = IF b.tokens + more > C THEN C ELSE b.tokens + more
      BY <1>5 DEF Tokens!Refilled, C
    <2>4. more \in Nat /\ \A s \in 0 .. b.last : (b.last - s) * Rate \in Nat
      BY <1>1, <2>1, Elapsed
    <2>5. \A s \in 0 .. b.last : Income(s, b.last) + more = Income(s, now) /\ Income(s, now) \in Nat
      <3> SUFFICES ASSUME NEW s \in 0 .. b.last
                   PROVE  Income(s, b.last) + more = Income(s, now) /\ Income(s, now) \in Nat
        OBVIOUS
      <3>1. (b.last - s) * Rate + more = (now - s) * Rate
        BY <1>1, <2>1, Elapsed
      <3>2. (b.last - s) * Rate \in Nat /\ (now - s) * Rate \in Nat
        BY <1>1, <1>2, <2>1, <2>4
      <3> DEFINE x == (b.last - s) * Rate
                 y == (now - s) * Rate
      <3>3. Income(s, b.last) = C + x /\ Income(s, now) = C + y
        BY DEF Income, C
      <3> HIDE DEF more, x, y
      <3>4. x + more = y /\ x \in Nat /\ y \in Nat
        BY <3>1, <3>2 DEF x, y
      <3> QED
        BY <1>1, <2>4, <3>3, <3>4
    <2>6. \A e \in passed[k] : e.at \in Nat /\ e.at <= b.last
      BY DEF BucketInv, BucketTypes, Hits
    <2>7. \A s \in 0 .. now : s > b.last => Spent(k, s) = 0
      BY <2>1, <2>6, SpentType
    <2>8. \A s \in 0 .. b.last : Income(s, b.last) \in Nat /\ Spent(k, s) \in Nat
      BY <1>1, <1>2, <2>1, <2>4 DEF Income, C
    <2> HIDE DEF more, R
    <2>9. R \in 0 .. C
      BY <1>1, <2>1, <2>3, <2>4
    <2>10. ASSUME NEW s \in 0 .. now
           PROVE  Spent(k, s) + R <= Income(s, now)
      <3>1. CASE s <= b.last
        <4>1. s \in 0 .. b.last
          BY <2>1, <3>1
        <4>2. Spent(k, s) + b.tokens <= Income(s, b.last) /\ Income(s, b.last) + more = Income(s, now)
          BY <2>2, <2>5, <4>1
        <4>3. R <= b.tokens + more
          BY <1>1, <2>1, <2>3, <2>4
        <4> QED
          BY <1>1, <2>1, <2>4, <2>8, <2>9, <4>1, <4>2, <4>3
      <3>2. CASE s > b.last
        <4>1. Spent(k, s) = 0 /\ (now - s) * Rate \in Nat /\ Income(s, now) = C + (now - s) * Rate
          BY <1>2, <2>7, <3>2 DEF Income, C
        <4> QED
          BY <1>1, <2>9, <4>1
      <3> QED
        BY <2>1, <3>1, <3>2
    <2>11. \E s \in 0 .. now : Spent(k, s) + R = Income(s, now)
      <3>1. CASE b.tokens + more > C
        <4>1. now # b.last
          <5> SUFFICES ASSUME now = b.last PROVE FALSE
            OBVIOUS
          <5>1. more = 0
            BY <1>1, <2>1 DEF more
          <5> QED
            BY <1>1, <2>1, <3>1, <5>1
        <4>2. Spent(k, now) = 0
          BY <2>1, <2>7, <4>1
        <4>3. Spent(k, now) + R = Income(now, now)
          BY <1>1, <1>3, <2>3, <3>1, <4>2
        <4> QED
          BY <4>3
      <3>2. CASE ~(b.tokens + more > C)
        <4>1. PICK s \in 0 .. b.last : Spent(k, s) + b.tokens = Income(s, b.last)
          BY <2>2
        <4>2. Income(s, b.last) + more = Income(s, now)
          BY <2>5
        <4>3. Spent(k, s) + R = Income(s, now)
          BY <2>1, <2>3, <2>4, <2>8, <3>2, <4>1, <4>2
        <4> QED
          BY <2>1, <4>3
      <3> QED
        BY <3>1, <3>2
    <2> QED
      BY <2>9, <2>10, <2>11 DEF C, R
  <1> QED
    BY <1>4, <1>5

(* What one event does to the bucket of its key: a token goes exactly when *)
(* the event passes, so the balance stays what refilling made it.          *)
LEMMA AllowBalance ==
    ASSUME BucketInv, now \in Nat, events \in Nat, NEW k \in Nodes, Tokens!Allow(k, events)
    PROVE  LET R == Tokens!Refilled(k)
               ok == R >= PerToken
               left == IF ok THEN R - PerToken ELSE R
               hit == [at |-> now, no |-> events]
           IN  /\ DOMAIN buckets' = DOMAIN buckets \cup {k}
               /\ \A j \in DOMAIN buckets' : buckets'[j] = IF j = k THEN [tokens |-> left, last |-> now]
                                                                    ELSE buckets[j]
               /\ buckets' = [j \in DOMAIN buckets' |-> buckets'[j]]
               /\ passed' \in [Nodes -> SUBSET Hits]
               /\ \A j \in Nodes : passed'[j] = IF ok /\ j = k THEN passed[j] \cup {hit} ELSE passed[j]
               /\ refused' = IF ok THEN <<>> ELSE <<k, now>>
               /\ left \in 0 .. Tokens!Capacity
               /\ \A j \in Nodes : j # k => \A s \in Nat : Spent(j, s)' = Spent(j, s)
               /\ \A s \in 0 .. now : Spent(k, s)' + left = Spent(k, s) + R
  <1> DEFINE C == Tokens!Capacity
             R == Tokens!Refilled(k)
             ok == R >= PerToken
             left == IF ok THEN R - PerToken ELSE R
             hit == [at |-> now, no |-> events]
  <1>1. R \in 0 .. C /\ C \in Nat /\ PerToken \in Nat
    BY RefilledBalance, CapacityType, BudgetsAssumption
  <1>2. /\ buckets' = [j \in DOMAIN buckets \cup {k} |->
                         IF j = k THEN [tokens |-> left, last |-> now] ELSE buckets[j]]
        /\ passed' = IF ok THEN [passed EXCEPT ![k] = @ \cup {hit}] ELSE passed
        /\ refused' = IF ok THEN <<>> ELSE <<k, now>>
    BY DEF Tokens!Allow
  <1>3. passed \in [Nodes -> SUBSET Hits] /\ hit \in Hits /\ hit.at = now
    BY DEF BucketInv, BucketTypes, Hits
  <1>4. hit \notin passed[k]
    BY <1>3 DEF BucketInv, Hits
  <1> HIDE DEF C, R
  <1>5. left \in 0 .. C
    BY <1>1
  <1> HIDE DEF left, ok, hit
  <1>6. /\ passed' \in [Nodes -> SUBSET Hits]
        /\ \A j \in Nodes : passed'[j] = IF ok /\ j = k THEN passed[j] \cup {hit} ELSE passed[j]
    BY <1>2, <1>3
  <1>7. \A j \in Nodes : j # k \/ ~ok => \A s \in Nat : Spent(j, s)' = Spent(j, s)
    BY <1>6 DEF Spent, Tokens!PassedSince
  <1>8. ASSUME ok, NEW s \in 0 .. now
        PROVE  Spent(k, s)' = Spent(k, s) + PerToken
    <2> DEFINE P == Tokens!PassedSince(k, s)
    <2>1. Tokens!PassedSince(k, s)' = P \cup {hit}
      BY <1>3, <1>6, <1>8 DEF Tokens!PassedSince
    <2>2. hit \notin P
      BY <1>4 DEF Tokens!PassedSince
    <2>3. IsFiniteSet(P) /\ Cardinality(P) \in Nat
      BY SpentType
    <2> HIDE DEF P
    <2>4. Cardinality(P \cup {hit}) = Cardinality(P) + 1
      BY <2>2, <2>3, FS_AddElement
    <2>5. Spent(k, s)' = (Cardinality(P) + 1) * PerToken /\ Spent(k, s) = Cardinality(P) * PerToken
      BY <2>1, <2>4 DEF Spent, P
    <2> QED
      BY <1>1, <2>3, <2>5, OneTokenMore
  <1>9. ASSUME NEW s \in 0 .. now
        PROVE  Spent(k, s)' + left = Spent(k, s) + R
    <2>1. Spent(k, s) \in Nat
      BY SpentType
    <2>2. CASE ok
      BY <1>1, <1>8, <2>1, <2>2 DEF left
    <2>3. CASE ~ok
      BY <1>1, <1>7, <2>1, <2>3 DEF left
    <2> QED
      BY <2>2, <2>3
  <1>10. /\ DOMAIN buckets' = DOMAIN buckets \cup {k}
         /\ \A j \in DOMAIN buckets' : buckets'[j] = IF j = k THEN [tokens |-> left, last |-> now]
                                                              ELSE buckets[j]
         /\ buckets' = [j \in DOMAIN buckets' |-> buckets'[j]]
    BY <1>2
  <1> QED
    BY <1>2, <1>5, <1>6, <1>7, <1>9, <1>10 DEF C, R, ok, left, hit

LEMMA AllowBucket ==
    ASSUME BucketInv, now \in Nat, events \in Nat, NEW k \in Nodes, Tokens!Allow(k, events),
           now' = now, events' = events + 1
    PROVE  BucketInv'
  <1> DEFINE C == Tokens!Capacity
             R == Tokens!Refilled(k)
             ok == R >= PerToken
             left == IF ok THEN R - PerToken ELSE R
             hit == [at |-> now, no |-> events]
  <1>1. /\ DOMAIN buckets' = DOMAIN buckets \cup {k}
        /\ \A j \in DOMAIN buckets' : buckets'[j] = IF j = k THEN [tokens |-> left, last |-> now]
                                                             ELSE buckets[j]
        /\ buckets' = [j \in DOMAIN buckets' |-> buckets'[j]]
        /\ passed' \in [Nodes -> SUBSET Hits]
        /\ \A j \in Nodes : passed'[j] = IF ok /\ j = k THEN passed[j] \cup {hit} ELSE passed[j]
        /\ left \in 0 .. C
        /\ \A j \in Nodes : j # k => \A s \in Nat : Spent(j, s)' = Spent(j, s)
        /\ \A s \in 0 .. now : Spent(k, s)' + left = Spent(k, s) + R
    BY AllowBalance
  <1>2. /\ \A s \in 0 .. now : Spent(k, s) + R <= Income(s, now)
        /\ \E s \in 0 .. now : Spent(k, s) + R = Income(s, now)
    BY RefilledBalance
  <1>3. hit.at = now /\ hit.no = events
    OBVIOUS
  <1>4. C' = C /\ \A s, t : Income(s, t)' = Income(s, t)
    BY DEF Tokens!Capacity, Income
  <1> HIDE DEF C, R, left, ok, hit
  <1>5. BucketTypes /\ DOMAIN buckets \subseteq Nodes
    BY DEF BucketInv, BucketTypes
  <1>6. BucketTypes'
    <2>1. \A j \in DOMAIN buckets' : buckets'[j] \in [tokens : 0 .. C, last : 0 .. now]
      BY <1>1, <1>5 DEF BucketTypes, C
    <2>2. DOMAIN buckets' \subseteq Nodes
      BY <1>1, <1>5
    <2>3. buckets' \in [DOMAIN buckets' -> [tokens : 0 .. C, last : 0 .. now]]
      BY <1>1, <2>1
    <2> QED
      BY <1>1, <1>4, <2>2, <2>3 DEF BucketTypes, C
  <1>7. ASSUME NEW j \in Nodes
        PROVE  /\ IsFiniteSet(passed'[j])
               /\ \A e \in passed'[j] : e.no < events' /\ j \in DOMAIN buckets' /\ e.at <= buckets'[j].last
    <2>1. /\ IsFiniteSet(passed[j])
          /\ \A e \in passed[j] : /\ e.at \in Nat /\ e.no \in Nat /\ e.no < events
                                  /\ j \in DOMAIN buckets /\ e.at <= buckets[j].last
      BY <1>5 DEF BucketInv, BucketTypes, Hits
    <2>2. IsFiniteSet(passed'[j])
      BY <1>1, <2>1, FS_AddElement
    <2>3. CASE j # k
      BY <1>1, <2>1, <2>2, <2>3
    <2>4. CASE j = k
      <3>1. buckets'[k].last = now
        BY <1>1
      <3>2. \A e \in passed[k] : e.at <= now
        BY <1>5, <2>1, <2>4 DEF BucketTypes
      <3> QED
        BY <1>1, <1>3, <2>1, <2>2, <2>4, <3>1, <3>2
    <2> QED
      BY <2>3, <2>4
  <1>8. ASSUME NEW j \in DOMAIN buckets'
        PROVE  /\ \A s \in 0 .. buckets'[j].last :
                     Spent(j, s)' + buckets'[j].tokens <= Income(s, buckets'[j].last)
               /\ \E s \in 0 .. buckets'[j].last :
                     Spent(j, s)' + buckets'[j].tokens = Income(s, buckets'[j].last)
    <2>1. CASE j = k
      <3>1. buckets'[j].last = now /\ buckets'[j].tokens = left
        BY <1>1, <2>1
      <3> QED
        BY <1>1, <1>2, <2>1, <3>1
    <2>2. CASE j # k
      <3>1. j \in DOMAIN buckets /\ j \in Nodes /\ buckets'[j] = buckets[j]
        BY <1>1, <1>5, <2>2
      <3>2. /\ \A s \in 0 .. buckets[j].last : Spent(j, s) + buckets[j].tokens <= Income(s, buckets[j].last)
            /\ \E s \in 0 .. buckets[j].last : Spent(j, s) + buckets[j].tokens = Income(s, buckets[j].last)
        BY <3>1 DEF BucketInv
      <3>3. \A s \in 0 .. buckets[j].last : Spent(j, s)' = Spent(j, s)
        BY <1>1, <2>2, <3>1
      <3> QED
        BY <3>1, <3>2, <3>3
    <2> QED
      BY <2>1, <2>2
  <1> QED
    BY <1>4, <1>6, <1>7, <1>8 DEF BucketInv

(* The instances count as this module does.                                *)
LEMMA SameCounting == \A S : Tokens!Cardinality(S) = Cardinality(S) /\ Crashes!Cardinality(S) = Cardinality(S)
  BY DEF Tokens!Cardinality, Crashes!Cardinality, Cardinality

LEMMA AllowExact ==
    ASSUME BucketInv, BucketExact, now \in Nat, events \in Nat, NEW k \in Nodes,
           Tokens!Allow(k, events), BucketInv'
    PROVE  BucketExact'
  <1> DEFINE R == Tokens!Refilled(k)
             ok == R >= PerToken
             left == IF ok THEN R - PerToken ELSE R
             hit == [at |-> now, no |-> events]
             From(P, s, t) == {e \in {d \in P : d.at >= s} : e.at <= t}
  <1>1. /\ passed' \in [Nodes -> SUBSET Hits]
        /\ \A j \in Nodes : passed'[j] = IF ok /\ j = k THEN passed[j] \cup {hit} ELSE passed[j]
        /\ refused' = IF ok THEN <<>> ELSE <<k, now>>
        /\ left \in 0 .. Tokens!Capacity
        /\ \A s \in 0 .. now : Spent(k, s)' + left = Spent(k, s) + R
    BY AllowBalance
  <1>2. /\ R \in 0 .. Tokens!Capacity
        /\ \A s \in 0 .. now : Spent(k, s) + R <= Income(s, now)
        /\ \E s \in 0 .. now : Spent(k, s) + R = Income(s, now)
    BY RefilledBalance
  <1>3. hit.at = now /\ Tokens!Capacity \in Nat /\ PerToken \in Nat /\ Rate \in Nat
    BY CapacityType, BudgetsAssumption
  <1>4. \A j \in Nodes : \A e \in passed[j] : e.at \in Nat /\ (j = k => e.at <= now)
    BY DEF BucketInv, BucketTypes, Hits
  <1>5. \A s \in 0 .. now : /\ Spent(k, s) \in Nat /\ Spent(k, s)' \in Nat
                            /\ Cardinality(Tokens!PassedSince(k, s)) \in Nat
                            /\ Income(s, now) \in Nat
    <2> SUFFICES ASSUME NEW s \in 0 .. now
                 PROVE  /\ Spent(k, s) \in Nat /\ Spent(k, s)' \in Nat
                        /\ Cardinality(Tokens!PassedSince(k, s)) \in Nat
                        /\ Income(s, now) \in Nat
      OBVIOUS
    <2>1. Spent(k, s) \in Nat /\ Cardinality(Tokens!PassedSince(k, s)) \in Nat
      BY SpentType
    <2>2. (now - s) * Rate \in Nat
      BY <1>3, Elapsed
    <2>3. Income(s, now) \in Nat
      BY <1>3, <2>2 DEF Income
    <2>4. Spent(k, s)' \in Nat
      <3>1. Tokens!PassedSince(k, s)' \subseteq passed'[k] /\ IsFiniteSet(passed'[k])
        BY DEF Tokens!PassedSince, BucketInv
      <3>2. Cardinality(Tokens!PassedSince(k, s)') \in Nat
        BY <3>1, FS_Subset, FS_CardinalityType
      <3>3. Spent(k, s)' = Cardinality(Tokens!PassedSince(k, s)') * PerToken
        BY DEF Spent
      <3> QED
        BY <1>3, <3>2, <3>3, OneTokenMore
    <2> QED
      BY <2>1, <2>3, <2>4
  <1>0. left \in Nat /\ R \in Nat
    BY <1>1, <1>2, <1>3
  <1> HIDE DEF R, left
  <1>6. ASSUME NEW j \in Nodes, NEW s \in {e.at : e \in passed'[j]}, NEW t \in {e.at : e \in passed'[j]}, s <= t
        PROVE  Cardinality(From(passed'[j], s, t)) * PerToken <= Income(s, t)
    <2>1. CASE ~(ok /\ j = k)
      <3>1. passed'[j] = passed[j]
        BY <1>1, <2>1
      <3>2. Tokens!Fits(Tokens!Cardinality({e \in Tokens!PassedSince(j, s) : e.at <= t}), s, t)
        BY <1>6, <3>1 DEF BucketExact, Tokens!BucketExact
      <3>3. {e \in Tokens!PassedSince(j, s) : e.at <= t} = From(passed'[j], s, t)
        BY <3>1 DEF Tokens!PassedSince
      <3> QED
        BY <3>2, <3>3, SameCounting DEF Tokens!Fits, Income
    <2>2. CASE ok /\ j = k
      <3>1. passed'[k] = passed[k] \cup {hit}
        BY <1>1, <2>2
      <3>2. s \in 0 .. now /\ t \in 0 .. now
        BY <1>3, <1>4, <1>6, <2>2, <3>1
      <3>3. CASE t = now
        <4>1. From(passed'[k], s, t) = Tokens!PassedSince(k, s)'
          BY <1>3, <1>4, <3>1, <3>3 DEF Tokens!PassedSince
        <4>2. Cardinality(From(passed'[k], s, t)) * PerToken = Spent(k, s)'
          BY <4>1 DEF Spent
        <4>3. Spent(k, s)' <= Income(s, now)
          <5>1. Spent(k, s)' + left = Spent(k, s) + R /\ Spent(k, s) + R <= Income(s, now)
            BY <1>1, <1>2, <3>2
          <5>2. Spent(k, s)' \in Nat /\ Spent(k, s) \in Nat /\ Income(s, now) \in Nat /\ left \in Nat /\ R \in Nat
            BY <1>0, <1>5, <3>2
          <5> QED
            BY <5>1, <5>2
        <4> QED
          BY <2>2, <3>3, <4>2, <4>3
      <3>4. CASE t # now
        <4>1. /\ s \in {e.at : e \in passed[k]} /\ t \in {e.at : e \in passed[k]}
              /\ From(passed'[k], s, t) = From(passed[k], s, t)
          BY <1>3, <1>4, <1>6, <2>2, <3>1, <3>2, <3>4
        <4>2. Tokens!Fits(Tokens!Cardinality({e \in Tokens!PassedSince(k, s) : e.at <= t}), s, t)
          BY <1>6, <4>1 DEF BucketExact, Tokens!BucketExact
        <4>3. {e \in Tokens!PassedSince(k, s) : e.at <= t} = From(passed[k], s, t)
          BY DEF Tokens!PassedSince
        <4> QED
          BY <2>2, <4>1, <4>2, <4>3, SameCounting DEF Tokens!Fits, Income
      <3> QED
        BY <3>3, <3>4
    <2> QED
      BY <2>1, <2>2
  <1>7. ASSUME ~ok
        PROVE  \E s \in 0 .. now : ~((Cardinality(Tokens!PassedSince(k, s)') + 1) * PerToken <= Income(s, now))
    <2>1. PICK s \in 0 .. now : Spent(k, s) + R = Income(s, now)
      BY <1>2
    <2>2. passed'[k] = passed[k]
      BY <1>1, <1>7
    <2>3. Tokens!PassedSince(k, s)' = Tokens!PassedSince(k, s)
      BY <2>2 DEF Tokens!PassedSince
    <2>4. (Cardinality(Tokens!PassedSince(k, s)) + 1) * PerToken = Spent(k, s) + PerToken
      BY <1>3, <1>5, OneTokenMore DEF Spent
    <2>5. Spent(k, s) + PerToken > Income(s, now)
      <3>1. R < PerToken /\ R \in Nat /\ PerToken \in Nat /\ Spent(k, s) \in Nat
        BY <1>2, <1>3, <1>5, <1>7 DEF ok
      <3> QED
        BY <2>1, <3>1
    <2>6. Spent(k, s) + PerToken \in Nat /\ Income(s, now) \in Nat
      BY <1>3, <1>5
    <2>7. ~(Spent(k, s) + PerToken <= Income(s, now))
      BY <2>5, <2>6
    <2> QED
      BY <2>3, <2>4, <2>7
  <1> HIDE DEF ok
  <1>8. ASSUME refused' # <<>>
        PROVE  \E s \in 0 .. refused'[2] :
                 ~Tokens!Fits(Tokens!Cardinality({e \in passed'[refused'[1]] : e.at >= s}) + 1, s, refused'[2])
    <2>1. ~ok /\ refused' = <<k, now>>
      BY <1>1, <1>8
    <2>2. refused'[1] = k /\ refused'[2] = now
      BY <2>1
    <2>3. PICK s \in 0 .. now : ~((Cardinality(Tokens!PassedSince(k, s)') + 1) * PerToken <= Income(s, now))
      BY <1>7, <2>1
    <2>4. Tokens!PassedSince(k, s)' = {e \in passed'[k] : e.at >= s}
      BY DEF Tokens!PassedSince
    <2>5. ~Tokens!Fits(Tokens!Cardinality({e \in passed'[k] : e.at >= s}) + 1, s, now)
      BY <2>3, <2>4, SameCounting DEF Tokens!Fits, Income
    <2> QED
      BY <2>2, <2>5
  <1>9. ASSUME NEW j \in Nodes, NEW s \in {e.at : e \in passed'[j]}, NEW t \in {e.at : e \in passed'[j]}, s <= t
        PROVE  Tokens!Fits(Tokens!Cardinality(From(passed'[j], s, t)), s, t)
    <2> HIDE DEF From
    <2> QED
      BY <1>6, <1>9, SameCounting DEF Tokens!Fits, Income
  <1> QED
    BY <1>8, <1>9 DEF BucketExact, Tokens!BucketExact, Tokens!PassedSince

-----------------------------------------------------------------------------
(* The crash window.                                                       *)

(* The crashes that count against crash c.                                 *)
Against(C, c) == {d \in C : d.at <= c.at /\ c.at - d.at < CrashLoopWindow /\ d.no <= c.no}

LEMMA SuspendedMeans ==
    SuspendedExactly <=>
        (suspended <=> \E c \in crashed : Cardinality(Against(crashed, c)) > MaxCrashesInWindow)
  BY SameCounting DEF SuspendedExactly, Crashes!SuspendedExactly, Against

(* The record after a crash holds exactly the crashes that count against   *)
(* it, and it counts against no earlier one.                               *)
LEMMA CrashStep ==
    ASSUME CrashInv, SuspendedExactly, now \in Nat, events \in Nat, Crashes!RecordCrash(events),
           now' = now, events' = events + 1
    PROVE  CrashInv' /\ SuspendedExactly'
  <1> DEFINE crash == [at |-> now, no |-> events]
             kept == {c \in times : c.at > now - CrashLoopWindow} \cup {crash}
  <1>1. /\ times' = kept /\ crashed' = crashed \cup {crash}
        /\ suspended' = (suspended \/ Cardinality(kept) > MaxCrashesInWindow)
    BY SameCounting DEF Crashes!RecordCrash, Crashes!Recent
  <1>2. crash.at = now /\ crash.no = events /\ crash \in Hits
    BY DEF Hits
  <1>3. /\ times \subseteq crashed
        /\ \A c \in crashed : c \in Hits /\ c.at \in Nat /\ c.no \in Nat /\ c.at <= now /\ c.no < events
        /\ \A c \in crashed \ times : c.at <= now - CrashLoopWindow
    BY DEF CrashInv, Hits
  <1>4. CrashLoopWindow \in Nat \ {0}
    BY BudgetsAssumption
  <1> HIDE DEF crash
  <1>5. Against(crashed', crash) = kept
    <2>1. \A d \in crashed : d \in Against(crashed', crash) <=> d.at > now - CrashLoopWindow
      BY <1>1, <1>2, <1>3, <1>4 DEF Against
    <2>2. \A d \in crashed : d.at > now - CrashLoopWindow => d \in times
      BY <1>3, <1>4
    <2>3. crash \in Against(crashed', crash)
      BY <1>1, <1>2, <1>4 DEF Against
    <2>4. Against(crashed', crash) \subseteq crashed \cup {crash}
      BY <1>1 DEF Against
    <2> QED
      BY <1>3, <2>1, <2>2, <2>3, <2>4
  <1>6. \A c \in crashed : Against(crashed', c) = Against(crashed, c)
    BY <1>1, <1>2, <1>3 DEF Against
  <1> HIDE DEF kept
  <1>7. suspended' <=> \E c \in crashed' : Cardinality(Against(crashed', c)) > MaxCrashesInWindow
    <2>1. suspended <=> \E c \in crashed : Cardinality(Against(crashed, c)) > MaxCrashesInWindow
      BY SuspendedMeans
    <2>2. suspended' <=> suspended \/ Cardinality(kept) > MaxCrashesInWindow
      BY <1>1
    <2>3. (\E c \in crashed' : Cardinality(Against(crashed', c)) > MaxCrashesInWindow)
            <=> \/ \E c \in crashed : Cardinality(Against(crashed', c)) > MaxCrashesInWindow
                \/ Cardinality(Against(crashed', crash)) > MaxCrashesInWindow
      BY <1>1
    <2> QED
      BY <1>5, <1>6, <2>1, <2>2, <2>3
  <1>8. SuspendedExactly'
    BY <1>7, SameCounting DEF SuspendedExactly, Crashes!SuspendedExactly, Against
  <1>9. CrashInv'
    <2>1. times' \subseteq crashed' /\ crashed' \subseteq Hits /\ suspended' \in BOOLEAN
      BY <1>1, <1>2, <1>3 DEF kept, CrashInv
    <2>2. IsFiniteSet(crashed')
      BY <1>1, FS_AddElement DEF CrashInv
    <2>3. \A c \in crashed' : c.at <= now' /\ c.no < events'
      BY <1>1, <1>2, <1>3
    <2>4. \A c \in crashed' \ times' : c.at <= now' - CrashLoopWindow
      BY <1>1, <1>3, <1>4 DEF kept
    <2> QED
      BY <2>1, <2>2, <2>3, <2>4 DEF CrashInv
  <1> QED
    BY <1>8, <1>9

-----------------------------------------------------------------------------
(* Both on one stream of events.                                           *)

BudgetsSafe == LimiterInv /\ BudgetsInv /\ BucketExact /\ SuspendedExactly

LEMMA EventEffect ==
    ASSUME LimiterInv, NEW r \in Requests, Event(r)
    PROVE  \E n \in Nodes : /\ Allow(n)
                            /\ Tokens!Allow(n, events)
                            /\ Crashes!RecordCrash(events) \/ UNCHANGED crashVars
                            /\ now' = now /\ events' = events + 1
  <1>1. PICK n \in Nodes : Allow(n)
    BY HandleEffect DEF Event
  <1>2. answer' = <<n, Cardinality(Budget!Within(n)) < MaxReqs>> /\ now' = now /\ events' = events + 1
    BY <1>1, AllowEffect
  <1>3. answer'[1] = n
    BY <1>2
  <1>4. Tokens!Allow(answer'[1], events) /\ (Crashes!RecordCrash(events) \/ UNCHANGED crashVars)
    BY DEF Event
  <1> QED
    BY <1>1, <1>2, <1>3, <1>4

LEMMA BudgetsInit == MCInit => BudgetsSafe
  <1> SUFFICES ASSUME MCInit PROVE BudgetsSafe
    OBVIOUS
  <1>1. LimiterInv
    BY InitInv DEF MCInit, GatesInit
  <1>2. /\ now = 0 /\ DOMAIN buckets = {} /\ buckets = [j \in {} |-> 0]
        /\ passed = [j \in Nodes |-> {}] /\ refused = <<>>
        /\ times = {} /\ suspended = FALSE /\ crashed = {}
    BY DEF MCInit, Tokens!Init, Crashes!Init
  <1>3. BucketInv
    <2>1. BucketTypes
      BY <1>2 DEF BucketTypes
    <2> QED
      BY <1>2, <2>1, FS_EmptySet DEF BucketInv
  <1>4. CrashInv
    BY <1>2, FS_EmptySet DEF CrashInv
  <1>5. BucketExact
    BY <1>2 DEF BucketExact, Tokens!BucketExact
  <1>6. SuspendedExactly
    BY <1>2, SuspendedMeans
  <1> QED
    BY <1>1, <1>3, <1>4, <1>5, <1>6 DEF BudgetsSafe, BudgetsInv

LEMMA BudgetsNext ==
    ASSUME BudgetsSafe, [MCNext]_<<gatesVars, bucketVars, crashVars>>
    PROVE  BudgetsSafe'
  <1>1. LimiterInv /\ BucketInv /\ CrashInv /\ BucketExact /\ SuspendedExactly /\ now \in Nat /\ events \in Nat
    BY DEF BudgetsSafe, BudgetsInv, LimiterInv, TypeOK
  <1>2. ASSUME UNCHANGED <<events, bucketVars, crashVars>>, now' \in Nat, now <= now'
        PROVE  BudgetsInv' /\ BucketExact' /\ SuspendedExactly'
    <2>1. UNCHANGED <<events, buckets, passed, refused, times, suspended, crashed>>
      BY <1>2 DEF bucketVars, crashVars
    <2>2. BucketTypes'
      <3>1. \A k \in DOMAIN buckets : buckets[k] \in [tokens : 0 .. Tokens!Capacity, last : 0 .. now']
        BY <1>1, <1>2 DEF BucketInv, BucketTypes
      <3>2. buckets \in [DOMAIN buckets -> [tokens : 0 .. Tokens!Capacity, last : 0 .. now']]
        BY <1>1, <3>1 DEF BucketInv, BucketTypes
      <3> QED
        BY <1>1, <2>1, <3>2 DEF BucketInv, BucketTypes, Tokens!Capacity
    <2>3. BucketInv'
      BY <1>1, <2>1, <2>2 DEF BucketInv, Spent, Income, Tokens!PassedSince, Tokens!Capacity
    <2>4. CrashInv'
      BY <1>1, <1>2, <2>1, BudgetsAssumption DEF CrashInv, Hits
    <2>5. BucketExact' /\ SuspendedExactly'
      BY <1>1, <2>1 DEF BucketExact, Tokens!BucketExact, Tokens!PassedSince, Tokens!Fits, Tokens!Capacity,
                        SuspendedExactly, Crashes!SuspendedExactly
    <2> QED
      BY <2>3, <2>4, <2>5 DEF BudgetsInv
  <1>3. CASE Tick /\ UNCHANGED <<served, bucketVars, crashVars>>
    <2>1. now' \in Nat /\ now <= now' /\ UNCHANGED events /\ LimiterInv'
      BY <1>1, <1>3, TickInv DEF Tick
    <2> QED
      BY <1>2, <1>3, <2>1 DEF BudgetsSafe
  <1>4. ASSUME NEW r \in Requests, Event(r)
        PROVE  BudgetsSafe'
    <2>1. PICK n \in Nodes : /\ Allow(n)
                             /\ Tokens!Allow(n, events)
                             /\ Crashes!RecordCrash(events) \/ UNCHANGED crashVars
                             /\ now' = now /\ events' = events + 1
      BY <1>1, <1>4, EventEffect
    <2>2. LimiterInv'
      BY <1>1, <2>1, AllowInv
    <2>3. BucketInv'
      BY <1>1, <2>1, AllowBucket
    <2>4. BucketExact'
      BY <1>1, <2>1, <2>3, AllowExact
    <2>5. CASE Crashes!RecordCrash(events)
      BY <1>1, <2>1, <2>2, <2>3, <2>4, <2>5, CrashStep DEF BudgetsSafe, BudgetsInv
    <2>6. CASE UNCHANGED crashVars
      <3>1. CrashInv'
        BY <1>1, <2>1, <2>6 DEF CrashInv, crashVars, Hits
      <3>2. SuspendedExactly'
        BY <1>1, <2>6 DEF SuspendedExactly, Crashes!SuspendedExactly, crashVars
      <3> QED
        BY <2>2, <2>3, <2>4, <3>1, <3>2 DEF BudgetsSafe, BudgetsInv
    <2> QED
      BY <2>1, <2>5, <2>6
  <1>5. CASE UNCHANGED <<gatesVars, bucketVars, crashVars>>
    <2>1. LimiterInv'
      BY <1>1, <1>5 DEF gatesVars, limiterVars, LimiterInv, TypeOK, Bucket
    <2>2. UNCHANGED <<events, bucketVars, crashVars>> /\ now' = now
      BY <1>5 DEF gatesVars, limiterVars
    <2> QED
      BY <1>1, <1>2, <2>1, <2>2 DEF BudgetsSafe
  <1> QED
    BY <1>3, <1>4, <1>5 DEF MCNext

(* The balance of every bucket, and what the crash record may forget, for  *)
(* any rate, burst, window and history.                                    *)
THEOREM BudgetsInvariant == MCSpec => []BudgetsInv
  <1>1. MCInit => BudgetsSafe
    BY BudgetsInit
  <1>2. BudgetsSafe /\ [MCNext]_<<gatesVars, bucketVars, crashVars>> => BudgetsSafe'
    BY BudgetsNext
  <1>3. BudgetsSafe => BudgetsInv
    BY DEF BudgetsSafe
  <1> QED
    BY <1>1, <1>2, <1>3, PTL DEF MCSpec

(* rateLimiter.allow passes, over every interval, all that a burst and the *)
(* refill allow and no more, although it keeps two numbers per key.        *)
THEOREM BucketExactHolds == MCSpec => []BucketExact
  <1>1. MCInit => BudgetsSafe
    BY BudgetsInit
  <1>2. BudgetsSafe /\ [MCNext]_<<gatesVars, bucketVars, crashVars>> => BudgetsSafe'
    BY BudgetsNext
  <1>3. BudgetsSafe => BucketExact
    BY DEF BudgetsSafe
  <1> QED
    BY <1>1, <1>2, <1>3, PTL DEF MCSpec

(* recordCrash suspends exactly when too many crashes fell in one window,  *)
(* although it forgets the older ones at every crash.                      *)
THEOREM SuspendedExactlyHolds == MCSpec => []SuspendedExactly
  <1>1. MCInit => BudgetsSafe
    BY BudgetsInit
  <1>2. BudgetsSafe /\ [MCNext]_<<gatesVars, bucketVars, crashVars>> => BudgetsSafe'
    BY BudgetsNext
  <1>3. BudgetsSafe => SuspendedExactly
    BY DEF BudgetsSafe
  <1> QED
    BY <1>1, <1>2, <1>3, PTL DEF MCSpec
=============================================================================
