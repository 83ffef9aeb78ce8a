--------------------------- MODULE ServiceProofs ---------------------------
(***************************************************************************)
(* Safety of Service for every set of callers, any number of generations   *)
(* and both kinds of Stop.                                                 *)
(***************************************************************************)
EXTENDS Service, TLAPS

LEMMA ServiceInit == Init => ServiceInv
  BY DEF Init, ServiceInv, TypeOK, OneSupervisor, LockHeldByDrain, Active,
     Generations, RunState, OpState

LEMMA ServiceNext == ServiceInv /\ [Next]_vars => ServiceInv'
<1> SUFFICES ASSUME ServiceInv, [Next]_vars PROVE ServiceInv'
  OBVIOUS
<1> USE DEF ServiceInv, TypeOK, OneSupervisor, LockHeldByDrain, Active,
        Generations, RunState, OpState, Goes
<1>1. ASSUME NEW c \in Callers, Request(c) PROVE ServiceInv'
  BY <1>1 DEF Request
<1>2. ASSUME NEW c \in Callers, StartRefused(c) PROVE ServiceInv'
  BY <1>2 DEF StartRefused
<1>3. ASSUME NEW c \in Callers, StartOK(c) PROVE ServiceInv'
  BY <1>3 DEF StartOK
<1>4. ASSUME NEW c \in Callers, StartScanFails(c) PROVE ServiceInv'
  BY <1>4 DEF StartScanFails
<1>5. ASSUME NEW c \in Callers, StopNothing(c) PROVE ServiceInv'
  BY <1>5 DEF StopNothing
<1>6. ASSUME NEW c \in Callers, StopBegin(c) PROVE ServiceInv'
  BY <1>6 DEF StopBegin
<1>7. ASSUME NEW c \in Callers, StopDrained(c) PROVE ServiceInv'
  BY <1>7 DEF StopDrained
<1>8. ASSUME NEW c \in Callers, StopTimesOut(c) PROVE ServiceInv'
  BY <1>8 DEF StopTimesOut
<1>9. ASSUME NEW c \in Callers, CallBegin(c) PROVE ServiceInv'
  BY <1>9 DEF CallBegin
<1>10. ASSUME NEW c \in Callers, CallEnd(c) PROVE ServiceInv'
  BY <1>10 DEF CallEnd
<1>11. ASSUME NEW n \in Generations, ParentCancelled(n) PROVE ServiceInv'
  BY <1>11 DEF ParentCancelled
<1>12. ASSUME NEW n \in Generations, RunDrains(n) PROVE ServiceInv'
  BY <1>12 DEF RunDrains
<1>13. CASE UNCHANGED vars
  BY <1>13 DEF vars
<1> QED
  BY <1>1, <1>2, <1>3, <1>4, <1>5, <1>6, <1>7, <1>8, <1>9, <1>10, <1>11, <1>12, <1>13
     DEF Next, Locked

(* The inductive invariant of Start and Stop: s.cancel and s.doneCh are    *)
(* always those of the supervisor in s.sup.                                *)
THEOREM ServiceInvariant == Spec => []ServiceInv
  BY ServiceInit, ServiceNext, PTL DEF Spec

(* Whatever the order of Start, Stop, timeouts and cancelled contexts, at  *)
(* most one run() is active, and none once the service counts as stopped.  *)
THEOREM OneSupervisorHolds == Spec => []OneSupervisor
<1>1. ServiceInv => OneSupervisor
  BY DEF ServiceInv
<1> QED
  BY <1>1, ServiceInvariant, PTL

(* startMu is only ever held across a wait by the Stop whose own run() is  *)
(* still draining.                                                         *)
THEOREM LockHeldByDrainHolds == Spec => []LockHeldByDrain
<1>1. ServiceInv => LockHeldByDrain
  BY DEF ServiceInv
<1> QED
  BY <1>1, ServiceInvariant, PTL
=============================================================================
