------------------------------ MODULE Service ------------------------------
(***************************************************************************)
(* plugin/appstore/service.go: Start, Stop and the broker entry points,    *)
(* called concurrently, all under startMu.  Start holds the lock for its   *)
(* scan, Stop for the whole drain, the entry points only to read s.sup.    *)
(* Each successful Start has a generation: one supervisor with its run     *)
(* goroutine and doneCh.  What run() does is module Supervisor's; here it  *)
(* drains once its context is cancelled (Supervisor!ShutdownDrains).       *)
(***************************************************************************)
EXTENDS Naturals, FiniteSets

CONSTANTS
    Callers,       \* goroutines of the daemon that use the service
    MaxStarts      \* bound on the supervisors ever created

VARIABLES
    startMu,   \* the holders of startMu: nobody, or one caller
    sup,       \* the generation of s.sup, 0 for nil
    latest,    \* the generation s.cancel and s.doneCh belong to
    runs,      \* per generation, what became of its run goroutine
    op,        \* per caller, what it is doing
    deadline,  \* per caller, whether the ctx of its request ends some day
    held       \* per caller, the supervisor its call is dispatched to

vars == <<startMu, sup, latest, runs, op, deadline, held>>

(* none: not created.  failed: the scan failed, so run() was never started *)
(* and nobody will close doneCh.                                           *)
RunState == {"none", "failed", "running", "cancelled", "done"}
OpState == {"idle", "start", "stop", "call", "draining", "calling"}
Generations == 1 .. MaxStarts

TypeOK ==
    /\ startMu \subseteq Callers
    /\ sup \in Generations \union {0} /\ latest \in Generations \union {0}
    /\ runs \in [Generations -> RunState]
    /\ op \in [Callers -> OpState]
    /\ deadline \in [Callers -> BOOLEAN]
    /\ held \in [Callers -> Generations \union {0}]

Init ==
    /\ startMu = {} /\ sup = 0 /\ latest = 0
    /\ runs = [n \in Generations |-> "none"]
    /\ op = [c \in Callers |-> "idle"]
    /\ deadline = [c \in Callers |-> FALSE]
    /\ held = [c \in Callers |-> 0]

Goes(c, from, to) == op[c] = from /\ op' = [op EXCEPT ![c] = to]

Request(c) ==
    /\ \E k \in {"start", "stop", "call"} : Goes(c, "idle", k)
    /\ deadline' \in {[deadline EXCEPT ![c] = d] : d \in BOOLEAN}
    /\ UNCHANGED <<startMu, sup, latest, runs, held>>

(* Start refuses: already started, or the install root cannot be made.     *)
StartRefused(c) ==
    /\ startMu = {}
    /\ Goes(c, "start", "idle")
    /\ UNCHANGED <<startMu, sup, latest, runs, deadline, held>>

(* Start creates a supervisor, scans, registers what it found and runs it. *)
StartOK(c) ==
    /\ startMu = {} /\ sup = 0 /\ latest + 1 \in Generations
    /\ Goes(c, "start", "idle")
    /\ latest' = latest + 1
    /\ sup' = latest + 1
    /\ runs' = [runs EXCEPT ![latest + 1] = "running"]
    /\ UNCHANGED <<startMu, deadline, held>>

(* The scan fails: Start cancels the context and returns the error, with   *)
(* s.sup and s.doneCh already set.                                         *)
StartScanFails(c) ==
    /\ startMu = {} /\ sup = 0 /\ latest + 1 \in Generations
    /\ Goes(c, "start", "idle")
    /\ latest' = latest + 1
    /\ sup' = latest + 1
    /\ runs' = [runs EXCEPT ![latest + 1] = "failed"]
    /\ UNCHANGED <<startMu, deadline, held>>

StopNothing(c) ==
    /\ startMu = {} /\ sup = 0
    /\ Goes(c, "stop", "idle")
    /\ UNCHANGED <<startMu, sup, latest, runs, deadline, held>>

(* s.cancel() and then the select, with startMu held.                      *)
StopBegin(c) ==
    /\ startMu = {} /\ sup # 0
    /\ Goes(c, "stop", "draining")
    /\ startMu' = {c}
    /\ runs' = [runs EXCEPT ![latest] = IF @ = "running" THEN "cancelled" ELSE @]
    /\ UNCHANGED <<sup, latest, deadline, held>>

(* doneCh is closed: only now is the service stopped.                      *)
StopDrained(c) ==
    /\ Goes(c, "draining", "idle")
    /\ runs[latest] = "done"
    /\ sup' = 0
    /\ startMu' = {}
    /\ UNCHANGED <<latest, runs, deadline, held>>

(* Faulty variants of StopTimesOut: the service is forgotten, or startMu   *)
(* is kept.                                                                *)
StopTimesOutForgets(c) ==
    /\ Goes(c, "draining", "idle")
    /\ deadline[c]
    /\ sup' = 0
    /\ startMu' = {}
    /\ UNCHANGED <<latest, runs, deadline, held>>

StopTimesOutLocked(c) ==
    /\ Goes(c, "draining", "idle")
    /\ deadline[c]
    /\ UNCHANGED <<startMu, sup, latest, runs, deadline, held>>

(* The deadline passed first: the service stays as it is, so that Stop can *)
(* be called again.                                                        *)
StopTimesOut(c) ==
    /\ Goes(c, "draining", "idle")
    /\ deadline[c]
    /\ startMu' = {}
    /\ UNCHANGED <<sup, latest, runs, deadline, held>>

(* Apps, Call, CallFrom, CallWithOrigin: read s.sup under the lock ...     *)
CallBegin(c) ==
    /\ startMu = {}
    /\ Goes(c, "call", IF sup = 0 THEN "idle" ELSE "calling")
    /\ held' = [held EXCEPT ![c] = sup]
    /\ UNCHANGED <<startMu, sup, latest, runs, deadline>>

(* ... and use it without.                                                 *)
CallEnd(c) ==
    /\ Goes(c, "calling", "idle")
    /\ held' = [held EXCEPT ![c] = 0]
    /\ UNCHANGED <<startMu, sup, latest, runs, deadline>>

(* The context given to Start is cancelled by its owner.                   *)
ParentCancelled(n) ==
    /\ runs[n] = "running"
    /\ runs' = [runs EXCEPT ![n] = "cancelled"]
    /\ UNCHANGED <<startMu, sup, latest, op, deadline, held>>

(* run() returns and its goroutine closes doneCh.                          *)
RunDrains(n) ==
    /\ runs[n] = "cancelled"
    /\ runs' = [runs EXCEPT ![n] = "done"]
    /\ UNCHANGED <<startMu, sup, latest, op, deadline, held>>

Locked(c) ==
    \/ StartRefused(c) \/ StartOK(c) \/ StartScanFails(c)
    \/ StopNothing(c) \/ StopBegin(c) \/ CallBegin(c)

Next ==
    \/ \E c \in Callers :
         \/ Request(c) \/ Locked(c)
         \/ StopDrained(c) \/ StopTimesOut(c) \/ CallEnd(c)
    \/ \E n \in Generations : ParentCancelled(n) \/ RunDrains(n)

Spec == Init /\ [][Next]_vars

(* Fairness.  sync.Mutex hands the lock to every waiter in the end, a ctx  *)
(* that ends is noticed, and a cancelled run() drains: it waits for its    *)
(* goroutines and processes, never for a broker call, and a process that   *)
(* itself waits for one is killed after appStopGrace.  Nothing is assumed  *)
(* of dispatched calls: without a deadline they may never return.          *)
Fairness ==
    /\ \A c \in Callers :
         /\ SF_vars(Locked(c))
         /\ WF_vars(StopDrained(c) \/ StopTimesOut(c))
    /\ \A n \in Generations : WF_vars(RunDrains(n))

LiveSpec == Spec /\ Fairness

-----------------------------------------------------------------------------
(* Two supervisors over one install root would reap each other's processes *)
(* and sockets: whatever the order of Start, Stop and timeouts, at most    *)
(* one run() has not returned, and none when the service says it is        *)
(* stopped (s.sup is nil).                                                 *)
Active(n) == runs[n] \in {"running", "cancelled"}

OneSupervisor == \A n \in Generations : Active(n) => n = sup

(* The lock is with the caller whose Stop is draining, and only with it:   *)
(* no path out of Stop leaves startMu held.                                *)
LockHeldByDrain ==
    \A c \in Callers : (startMu = {c}) <=> (op[c] = "draining")

(* The inductive invariant: s.cancel and s.doneCh belong to s.sup, and     *)
(* generations beyond the latest do not exist.                             *)
ServiceInv ==
    /\ TypeOK /\ OneSupervisor /\ LockHeldByDrain
    /\ sup \in {0, latest}
    /\ \A n \in Generations : n > latest => runs[n] = "none"

(* A Stop that nothing will ever wake: its ctx does not end, and the scan  *)
(* of the Start before it failed, so that nobody will close doneCh.        *)
Hung(c) == op[c] = "draining" /\ ~deadline[c] /\ runs[latest] = "failed"

(* Every Start, Stop and entry of a broker call gets the lock and is       *)
(* answered, or handed to the supervisor, though Stop keeps the lock for   *)
(* the whole drain and dispatched calls may never return.  The one thing   *)
(* that can keep a request waiting is a hung Stop (StopReturns).           *)
RequestsAnswered ==
    \A c \in Callers :
      op[c] \in {"start", "stop", "call"} ~>
        op[c] \in {"idle", "calling"} \/ \E d \in Callers : Hung(d)

-----------------------------------------------------------------------------
(* What a comment of the code says and the code does not keep.             *)

(* Stop "waits up to the ctx's deadline (or 5s if no deadline set)": it    *)
(* does not wait for ever.                                                 *)
StopReturns == \A c \in Callers : op[c] = "draining" ~> op[c] = "idle"
=============================================================================
