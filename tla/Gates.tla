------------------------------- MODULE Gates -------------------------------
(***************************************************************************)
(* The gates of pkg/appkit/appkit.go around a handler, with the limiter    *)
(* they share.  Requests come over the daemon bridge, which stamps the     *)
(* origin it has proven, or out of band, where the payload carries a       *)
(* signed envelope and the origin is whatever the sender wrote.  Bridged   *)
(* requests meet RequireOrigin(LimitPerNode(handler)), the others the same *)
(* behind RequireEnvelope.  An origin is absent, {}, or one record.        *)
(***************************************************************************)
EXTENDS NodeLimiter

(* [bridged, origin, verified]: verified is the identity the daemon's      *)
(* verification of the envelope yields, {} when the envelope is missing,   *)
(* cannot be verified or is not valid.                                     *)
CONSTANT Requests

Origins == [node : Nodes \cup {""}, auth : BOOLEAN]
Optional(S) == {{}} \cup {{o} : o \in S}

ASSUME RequestsAssumption ==
    /\ "" \notin Nodes
    /\ Requests \subseteq [bridged : BOOLEAN, origin : Optional(Origins),
                           verified : Optional(Origins)]

VARIABLE served     \* runs of the handler, [no, node, req]

gatesVars == <<limiterVars, served>>

GatesInit == Init /\ served = {}

(* Faulty variant: an origin the request came with is kept.                *)
RequireEnvelopeKeepsOrigin(r) ==
    {IF r.origin # {} THEN r ELSE [r EXCEPT !.origin = {o}] : o \in r.verified}

(* A gate yields the request the next handler sees, or none.  The verified *)
(* identity replaces the origin in a copy of the request.                  *)
RequireEnvelope(r) == {[r EXCEPT !.origin = {o}] : o \in r.verified}
RequireOrigin(r) == IF \E o \in r.origin : o.auth THEN {r} ELSE {}

(* LimitPerNode: a request without a node to key on is refused.            *)
LimitPerNode(q, r) ==
    \E o \in q.origin :
        /\ o.node # ""
        /\ Allow(o.node)
        /\ served' = IF answer'[2] THEN served \cup {[no |-> events, node |-> o.node, req |-> r]}
                                   ELSE served

(* A request a gate refuses changes nothing.                               *)
Handle(r) == \E p \in (IF r.bridged THEN {r} ELSE RequireEnvelope(r)) :
                \E q \in RequireOrigin(p) : LimitPerNode(q, r)

GatesNext == \/ Tick /\ UNCHANGED served
             \/ \E r \in Requests : Handle(r)

GatesSpec == GatesInit /\ [][GatesNext]_gatesVars

-----------------------------------------------------------------------------
Proven(r) == IF r.bridged THEN r.origin ELSE r.verified

(* The handler runs only for the node the daemon has proven, whatever      *)
(* origin the request claims, and a node's budget is spent by its own      *)
(* served requests alone: a refused or forged request costs it nothing.    *)
ServedProven ==
    /\ \A s \in served : Proven(s.req) = {[node |-> s.node, auth |-> TRUE]}
    /\ \A n \in Nodes : {g.no : g \in granted[n]} = {s.no : s \in {t \in served : t.node = n}}
=============================================================================
