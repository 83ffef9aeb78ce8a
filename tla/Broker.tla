------------------------------- MODULE Broker -------------------------------
(***************************************************************************)
(* The broker of supervisor.go: callFrom, reached through Call, CallFrom   *)
(* and CallWithOrigin, against an app table that the rescan loop changes   *)
(* and processes that start and stop while calls are in flight.            *)
(*                                                                         *)
(* One method is called; a manifest says whether the app exposes it and    *)
(* which apps' method it may call (ipc.call grants).  An upgrade gives an  *)
(* app another manifest and keeps its socket path.  What installs, starts  *)
(* and readies apps is module Supervisor's; here it is free.               *)
(***************************************************************************)
EXTENDS Naturals, FiniteSets

CONSTANTS
    Apps,
    Trusted,      \* the empty caller id: daemon and pilotctl; no app
    NoManifest,   \* not installed; no process; not a manifest
    Manifests,    \* records [exposes : BOOLEAN, grants : SUBSET Apps]
    Calls,        \* invocations, each made once
    MaxChanges    \* bound on the changes of the app table

VARIABLES
    installed,  \* s.installed: the manifest of each app, or NoManifest
    ready,      \* s.ready: the apps marked ready
    serving,    \* the manifest of the process bound to each app's socket
    changes,    \* how often the table changed
    pc,         \* per call, where it is
    caller, target,
    seen,       \* per call, what it read under the lock
    past,       \* per call, what was installed together since it began
    served,     \* per call, the manifest of the process that answered it
    usage       \* per call, how many usage events were emitted

envVars == <<installed, ready, serving, changes>>
vars == <<envVars, pc, caller, target, seen, past, served, usage>>

Entry == Manifests \union {NoManifest}
CallerIds == Apps \union {Trusted}
Pair == [target : Entry, caller : Entry]
NoPair == [target |-> NoManifest, caller |-> NoManifest]
Phase == {"idle", "begun", "gates", "await", "dial", "ipc", "done"}

TypeOK ==
    /\ installed \in [Apps -> Entry]
    /\ ready \subseteq Apps
    /\ serving \in [Apps -> Entry]
    /\ changes \in Nat
    /\ pc \in [Calls -> Phase]
    /\ caller \in [Calls -> CallerIds] /\ target \in [Calls -> Apps]
    /\ seen \in [Calls -> Pair \X BOOLEAN]
    /\ past \in [Calls -> SUBSET Pair]
    /\ served \in [Calls -> Entry]
    /\ usage \in [Calls -> Nat]

Init ==
    /\ installed = [a \in Apps |-> NoManifest]
    /\ ready = {} /\ serving = [a \in Apps |-> NoManifest] /\ changes = 0
    /\ pc = [c \in Calls |-> "idle"]
    /\ caller \in [Calls -> CallerIds] /\ target \in [Calls -> Apps]
    /\ seen = [c \in Calls |-> <<NoPair, FALSE>>]
    /\ past = [c \in Calls |-> {}]
    /\ served = [c \in Calls |-> NoManifest]
    /\ usage = [c \in Calls |-> 0]

-----------------------------------------------------------------------------
(* The app table and the processes                                         *)

(* What the table says of call c's two apps.                               *)
PairIn(table, c) ==
    [target |-> table[target[c]],
     caller |-> IF caller[c] = Trusted THEN NoManifest ELSE table[caller[c]]]

(* rescanForNew adopts a bundle, rescanForGone drops one.                  *)
TableChanges(a) ==
    /\ changes < MaxChanges
    /\ \E m \in Entry \ {installed[a]} : installed' = [installed EXCEPT ![a] = m]
    /\ changes' = changes + 1
    /\ past' = [c \in Calls |-> past[c] \union
                  (IF pc[c] = "idle" THEN {} ELSE {PairIn(installed', c)})]
    /\ UNCHANGED <<ready, serving, pc, caller, target, seen, served, usage>>

(* A process of the installed bundle binds the socket, or it is gone.      *)
ProcBinds(a) ==
    /\ installed[a] # NoManifest /\ serving[a] # installed[a]
    /\ serving' = [serving EXCEPT ![a] = installed[a]]
    /\ UNCHANGED <<installed, ready, changes, pc, caller, target, seen, past, served, usage>>

ProcGone(a) ==
    /\ serving[a] # NoManifest
    /\ serving' = [serving EXCEPT ![a] = NoManifest]
    /\ UNCHANGED <<installed, ready, changes, pc, caller, target, seen, past, served, usage>>

(* markReady and markNotReady; neither is tied to the process: waitReady   *)
(* can see the socket of a process that has exited since.                  *)
ReadyFlips(a) ==
    /\ ready' = IF a \in ready THEN ready \ {a} ELSE ready \union {a}
    /\ UNCHANGED <<installed, serving, changes, pc, caller, target, seen, past, served, usage>>

-----------------------------------------------------------------------------
(* callFrom                                                                *)

Goes(c, from, to) == pc[c] = from /\ pc' = [pc EXCEPT ![c] = to]

(* The call is made (past starts to record).                               *)
CallBegins(c) ==
    /\ Goes(c, "idle", "begun")
    /\ past' = [past EXCEPT ![c] = {PairIn(installed, c)}]
    /\ UNCHANGED <<envVars, caller, target, seen, served, usage>>

(* Both manifests and the ready bit in one critical section.               *)
ReadTable(c) ==
    /\ Goes(c, "begun", "gates")
    /\ seen' = [seen EXCEPT ![c] = <<PairIn(installed, c), target[c] \in ready>>]
    /\ UNCHANGED <<envVars, caller, target, past, served, usage>>

emitUsage(c) == usage' = [usage EXCEPT ![c] = @ + 1]

(* ExposesMethod and HasGrant, on the manifests a call has read.           *)
Exposed(pair) == pair.target # NoManifest /\ pair.target.exposes
Granted(pair, c) ==
    caller[c] # Trusted =>
      pair.caller # NoManifest /\ target[c] \in pair.caller.grants

(* Faulty variant: the caller's manifest is read when its gate is reached, *)
(* not together with the target's.                                         *)
GatePairLateCaller(c) ==
    [target |-> seen[c][1].target, caller |-> PairIn(installed, c).caller]

(* The manifests the gates look at.                                        *)
GatePair(c) == seen[c][1]

(* Not installed, not exposed, caller not installed, no grant.             *)
GateRefuses(c) ==
    /\ ~(Exposed(GatePair(c)) /\ Granted(GatePair(c), c))
    /\ Goes(c, "gates", "done")
    /\ emitUsage(c)
    /\ UNCHANGED <<envVars, caller, target, seen, past, served>>

GatesPassed(c) ==
    /\ Exposed(GatePair(c)) /\ Granted(GatePair(c), c)
    /\ Goes(c, "gates", IF seen[c][2] THEN "dial" ELSE "await")
    /\ UNCHANGED <<envVars, caller, target, seen, past, served, usage>>

(* awaitReady: a poll sees the bit, or the second is over.                 *)
AwaitReady(c) ==
    /\ target[c] \in ready
    /\ Goes(c, "await", "dial")
    /\ UNCHANGED <<envVars, caller, target, seen, past, served, usage>>

AwaitGivesUp(c) ==
    /\ Goes(c, "await", "done")
    /\ emitUsage(c)
    /\ UNCHANGED <<envVars, caller, target, seen, past, served>>

(* The dial finds whatever process listens on the path now.                *)
DialOK(c) ==
    /\ serving[target[c]] # NoManifest
    /\ Goes(c, "dial", "ipc")
    /\ served' = [served EXCEPT ![c] = serving[target[c]]]
    /\ UNCHANGED <<envVars, caller, target, seen, past, usage>>

(* No listener, a stale socket file, the deadline or a cancelled context.  *)
DialFails(c) ==
    /\ Goes(c, "dial", "done")
    /\ UNCHANGED <<envVars, caller, target, seen, past, served, usage>>

(* The reply, the app's error, or a broken connection.                     *)
IpcReturns(c) ==
    /\ Goes(c, "ipc", "done")
    /\ emitUsage(c)
    /\ UNCHANGED <<envVars, caller, target, seen, past, served>>

CallStep(c) ==
    \/ CallBegins(c) \/ ReadTable(c) \/ GateRefuses(c) \/ GatesPassed(c)
    \/ AwaitReady(c) \/ AwaitGivesUp(c)
    \/ DialOK(c) \/ DialFails(c) \/ IpcReturns(c)

EnvStep(a) == TableChanges(a) \/ ProcBinds(a) \/ ProcGone(a) \/ ReadyFlips(a)

Next == (\E a \in Apps : EnvStep(a)) \/ (\E c \in Calls : CallStep(c))

Spec == Init /\ [][Next]_vars

-----------------------------------------------------------------------------
(* Authorization is against one consistent state of the table: a socket is *)
(* only dialed for a call if at some moment since the call began its       *)
(* target exposed the method while its caller, if an app, held the grant.  *)
(* Upgrades and uninstalls of either app cannot be combined into a pass.   *)
DialAuthorized ==
    \A c \in Calls : pc[c] \in {"dial", "ipc"} \/ served[c] # NoManifest =>
      \E pair \in past[c] : Exposed(pair) /\ Granted(pair, c)

(* The inductive invariant: past has what the call read, and a call beyond *)
(* the gates read something that passes them.                              *)
BrokerInv ==
    /\ TypeOK
    /\ \A c \in Calls :
         /\ pc[c] \in {"idle", "begun", "gates", "await"} => served[c] = NoManifest
         /\ pc[c] # "idle" => PairIn(installed, c) \in past[c]
         /\ pc[c] \notin {"idle", "begun"} => seen[c][1] \in past[c]
         /\ pc[c] \in {"await", "dial", "ipc"} \/ served[c] # NoManifest =>
              Exposed(seen[c][1]) /\ Granted(seen[c][1], c)

-----------------------------------------------------------------------------
(* What a comment of the code says and the code does not keep.             *)

(* callFrom: "After every call (success or failure) a telemetry usage      *)
(* event is emitted".                                                      *)
UsageAfterEveryCall == \A c \in Calls : pc[c] = "done" => usage[c] = 1
=============================================================================
