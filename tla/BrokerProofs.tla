---------------------------- MODULE BrokerProofs ----------------------------
(***************************************************************************)
(* Proofs about module Broker: for any apps, manifests and calls, the      *)
(* gates decide on one consistent state of the app table.                  *)
(***************************************************************************)
EXTENDS Broker, TLAPS

(* What the table says of a call's two apps is a pair of entries.          *)
LEMMA PairType ==
    ASSUME TypeOK, NEW c \in Calls
    PROVE  PairIn(installed, c) \in Pair
BY DEF TypeOK, PairIn, Pair, Entry, CallerIds

(* What a call knows of itself.                                            *)
Knows(c) ==
    /\ pc[c] \in {"idle", "begun", "gates", "await"} => served[c] = NoManifest
    /\ pc[c] # "idle" => PairIn(installed, c) \in past[c]
    /\ pc[c] \notin {"idle", "begun"} => seen[c][1] \in past[c]
    /\ pc[c] \in {"await", "dial", "ipc"} \/ served[c] # NoManifest =>
         Exposed(seen[c][1]) /\ Granted(seen[c][1], c)

(* A change of the table is recorded by every call in flight.              *)
LEMMA TableStep ==
    ASSUME BrokerInv, NEW a \in Apps, TableChanges(a)
    PROVE  BrokerInv'
<1>1. PICK m \in Entry : installed' = [installed EXCEPT ![a] = m]
  BY DEF TableChanges
<1>2. installed' \in [Apps -> Entry]
  BY <1>1 DEF BrokerInv, TypeOK
<1>3. \A c \in Calls : PairIn(installed', c) \in Pair
  BY <1>2 DEF BrokerInv, TypeOK, PairIn, Pair, Entry, CallerIds
<1>4. \A c \in Calls : past'[c] = past[c] \union
                         (IF pc[c] = "idle" THEN {} ELSE {PairIn(installed', c)})
  BY DEF TableChanges
<1>5. past' \in [Calls -> SUBSET Pair]
  <2>1. \A c \in Calls : past'[c] \in SUBSET Pair
    BY <1>3, <1>4 DEF BrokerInv, TypeOK
  <2>2. past' = [c \in Calls |-> past'[c]]
    BY DEF TableChanges
  <2>3. QED
    BY <2>1, <2>2
<1>6. /\ UNCHANGED <<ready, serving, pc, caller, target, seen, served, usage>>
      /\ changes' = changes + 1
  BY DEF TableChanges
<1>7. TypeOK'
  BY <1>2, <1>5, <1>6 DEF BrokerInv, TypeOK
<1>8. ASSUME NEW c \in Calls
      PROVE  Knows(c)'
  <2>1. Knows(c)
    BY DEF BrokerInv, Knows
  <2>2. PairIn(installed, c)' = PairIn(installed', c)
    BY <1>6 DEF PairIn
  <2>3. Exposed(seen[c][1])' = Exposed(seen[c][1]) /\ Granted(seen[c][1], c)' = Granted(seen[c][1], c)
    BY <1>6 DEF Exposed, Granted
  <2>4. QED
    BY <1>4, <1>6, <2>1, <2>2, <2>3 DEF Knows
<1>9. QED
  BY <1>7, <1>8 DEF BrokerInv, Knows

(* Processes and ready bits are not part of the invariant.                 *)
LEMMA ProcessStep ==
    ASSUME BrokerInv, NEW a \in Apps, ProcBinds(a) \/ ProcGone(a) \/ ReadyFlips(a)
    PROVE  BrokerInv'
<1>1. UNCHANGED <<installed, changes, pc, caller, target, seen, past, served, usage>>
  BY DEF ProcBinds, ProcGone, ReadyFlips
<1>2. serving' \in [Apps -> Entry] /\ ready' \subseteq Apps
  BY DEF ProcBinds, ProcGone, ReadyFlips, BrokerInv, TypeOK, Entry
<1>3. QED
  BY <1>1, <1>2 DEF BrokerInv, TypeOK, PairIn, Exposed, Granted

(* A step of one call leaves the others as they were; its own knowledge    *)
(* follows the order of callFrom.                                          *)
LEMMA CallStepOK ==
    ASSUME BrokerInv, NEW c \in Calls, CallStep(c)
    PROVE  BrokerInv'
<1>0. TypeOK /\ \A d \in Calls : Knows(d)
  BY DEF BrokerInv, Knows
<1>1. caller' = caller /\ target' = target /\ installed' = installed
      /\ ready' = ready /\ serving' = serving /\ changes' = changes
  BY DEF CallStep, CallBegins, ReadTable, GateRefuses, GatesPassed, AwaitReady,
         AwaitGivesUp, DialOK, DialFails, IpcReturns, envVars
<1>2. SUFFICES
        /\ TypeOK' /\ Knows(c)'
        /\ \A d \in Calls \ {c} :
             /\ pc'[d] = pc[d] /\ seen'[d] = seen[d]
             /\ past'[d] = past[d] /\ served'[d] = served[d]
  BY <1>0, <1>1, <1>2 DEF BrokerInv, Knows, PairIn, Exposed, Granted
<1>a. PairIn(installed, c) \in Pair /\ PairIn(installed, c)' = PairIn(installed, c)
  BY <1>0, <1>1, PairType DEF PairIn
<1>3. CASE CallBegins(c)
  <2>1. TypeOK'
    BY <1>0, <1>1, <1>3, <1>a DEF CallBegins, Goes, TypeOK, Phase
  <2>2. /\ pc[c] = "idle" /\ pc'[c] = "begun"
        /\ past'[c] = {PairIn(installed, c)} /\ served' = served
    BY <1>0, <1>3 DEF CallBegins, Goes, TypeOK
  <2>3. Knows(c)'
    BY <1>0, <1>a, <2>2 DEF Knows
  <2>4. QED
    BY <1>0, <1>3, <2>1, <2>3 DEF CallBegins, Goes, TypeOK
<1>4. CASE ReadTable(c)
  <2>1. TypeOK'
    <3>1. seen' = [seen EXCEPT ![c] = <<PairIn(installed, c), target[c] \in ready>>]
      BY <1>4 DEF ReadTable
    <3>2. <<PairIn(installed, c), target[c] \in ready>> \in Pair \X BOOLEAN
      <4>1. (target[c] \in ready) \in BOOLEAN
        OBVIOUS
      <4>2. QED
        BY <1>a, <4>1, Zenon
    <3>3. seen' \in [Calls -> Pair \X BOOLEAN]
      BY <1>0, <3>1, <3>2, Zenon DEF TypeOK
    <3>4. QED
      BY <1>0, <1>1, <1>4, <3>3 DEF ReadTable, Goes, TypeOK, Phase
  <2>2. /\ pc[c] = "begun" /\ pc'[c] = "gates"
        /\ seen'[c][1] = PairIn(installed, c) /\ past' = past /\ served' = served
    BY <1>0, <1>4 DEF ReadTable, Goes, TypeOK
  <2>3. Knows(c)'
    BY <1>0, <1>a, <2>2 DEF Knows
  <2>4. QED
    BY <1>0, <1>4, <2>1, <2>3 DEF ReadTable, Goes, TypeOK
<1>5. CASE GateRefuses(c) \/ AwaitGivesUp(c) \/ IpcReturns(c)
  <2>1. /\ pc[c] \in {"gates", "await", "ipc"} /\ pc' = [pc EXCEPT ![c] = "done"]
        /\ usage' = [usage EXCEPT ![c] = @ + 1]
        /\ seen' = seen /\ past' = past /\ served' = served
    BY <1>5 DEF GateRefuses, AwaitGivesUp, IpcReturns, Goes, emitUsage
  <2>2. TypeOK'
    BY <1>0, <1>1, <2>1 DEF TypeOK, Phase
  <2>3. Knows(c)'
    BY <1>0, <1>1, <1>a, <2>1 DEF TypeOK, Knows, Exposed, Granted
  <2>4. QED
    BY <1>0, <2>1, <2>2, <2>3 DEF TypeOK
<1>6. CASE GatesPassed(c)
  BY <1>0, <1>1, <1>6
     DEF GatesPassed, GatePair, Goes, TypeOK, Phase, Knows, PairIn, Exposed, Granted
<1>7. CASE AwaitReady(c) \/ DialFails(c)
  BY <1>0, <1>1, <1>7
     DEF AwaitReady, DialFails, Goes, TypeOK, Phase, Knows, PairIn, Exposed, Granted
<1>8. CASE DialOK(c)
  BY <1>0, <1>1, <1>8
     DEF DialOK, Goes, TypeOK, Phase, Knows, PairIn, Exposed, Granted
<1>9. QED
  BY <1>3, <1>4, <1>5, <1>6, <1>7, <1>8 DEF CallStep

(* The invariant behind the authorization of calls.                        *)
THEOREM BrokerInvariant == Spec => []BrokerInv
<1>1. Init => BrokerInv
  <2> SUFFICES ASSUME Init
               PROVE  BrokerInv
    OBVIOUS
  <2>1. NoPair \in Pair
    BY DEF NoPair, Pair, Entry
  <2>2. TypeOK
    BY <2>1 DEF Init, TypeOK, Entry, Phase
  <2>3. \A c \in Calls : pc[c] = "idle" /\ served[c] = NoManifest
    BY DEF Init
  <2>4. QED
    BY <2>2, <2>3 DEF BrokerInv
<1>2. BrokerInv /\ [Next]_vars => BrokerInv'
  <2> SUFFICES ASSUME BrokerInv, [Next]_vars
               PROVE  BrokerInv'
    OBVIOUS
  <2>1. CASE \E a \in Apps : EnvStep(a)
    BY <2>1, TableStep, ProcessStep DEF EnvStep
  <2>2. CASE \E c \in Calls : CallStep(c)
    BY <2>2, CallStepOK
  <2>3. CASE UNCHANGED vars
    BY <2>3 DEF BrokerInv, TypeOK, PairIn, Exposed, Granted, vars, envVars
  <2>4. QED
    BY <2>1, <2>2, <2>3 DEF Next
<1>3. QED
  BY <1>1, <1>2, PTL DEF Spec

(* No socket is dialed for a call that was not, at some moment since it    *)
(* began, allowed by the manifests installed at that moment.               *)
THEOREM DialAuthorizedHolds == Spec => []DialAuthorized
<1>1. BrokerInv => DialAuthorized
  <2> SUFFICES ASSUME BrokerInv, NEW c \in Calls,
                      pc[c] \in {"dial", "ipc"} \/ served[c] # NoManifest
               PROVE  \E pair \in past[c] : Exposed(pair) /\ Granted(pair, c)
    BY DEF DialAuthorized
  <2>1. pc[c] \notin {"idle", "begun"}
    BY DEF BrokerInv
  <2>2. seen[c][1] \in past[c] /\ Exposed(seen[c][1]) /\ Granted(seen[c][1], c)
    BY <2>1 DEF BrokerInv
  <2>3. QED
    BY <2>2
<1>2. QED
  BY <1>1, BrokerInvariant, PTL
=============================================================================
