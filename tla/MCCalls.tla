------------------------------ MODULE MCCalls ------------------------------
(***************************************************************************)
(* The stations of a call for TLC: the lock of the service, the gates of   *)
(* the broker and a connection to an app.  None reads another's state, so  *)
(* one of them moves in a behaviour and the others stand still: that shows *)
(* of each what it does beside the others.                                 *)
(***************************************************************************)
EXTENDS Ipc

CONSTANTS Callers, MaxStarts,                             \* Service
          a, b, c, Trusted, NoManifest, MaxChanges        \* Broker

VARIABLES
    station,
    startMu, sup, latest, runs, op, stopDeadline, held,   \* Service
    installed, ready, serving, changes,                   \* Broker
    pc, caller, target, seen, past, served, usage

serviceVars == <<startMu, sup, latest, runs, op, stopDeadline, held>>
brokerVars == <<installed, ready, serving, changes, pc, caller, target, seen, past,
                served, usage>>

(* A target's two versions, with and without the method, and a caller's    *)
(* two, with and without the grant.                                        *)
MCManifests ==
    {[exposes |-> TRUE, grants |-> {}],
     [exposes |-> FALSE, grants |-> {b}]}

Service == INSTANCE Service WITH deadline <- stopDeadline
Broker == INSTANCE Broker WITH Apps <- {a, b}, Manifests <- MCManifests, Calls <- {c}

MCInit ==
    /\ station \in {"service", "broker", "connection"}
    /\ Service!Init /\ Broker!Init /\ Init
    /\ station # "broker" => caller[c] = Trusted /\ target[c] = a
    /\ station # "connection" => deadline

MCNext ==
    \/ station = "service" /\ Service!Next /\ UNCHANGED <<station, brokerVars, vars>>
    \/ station = "broker" /\ Broker!Next /\ UNCHANGED <<station, serviceVars, vars>>
    \/ station = "connection" /\ Next /\ UNCHANGED <<station, serviceVars, brokerVars>>

MCSpec == MCInit /\ [][MCNext]_<<station, serviceVars, brokerVars, vars>>
MCLiveSpec == MCSpec /\ Service!Fairness /\ Fairness

(* The properties of Service and Broker, by their own names.               *)
OneSupervisor == Service!OneSupervisor
LockHeldByDrain == Service!LockHeldByDrain
RequestsAnswered == Service!RequestsAnswered
DialAuthorized == Broker!DialAuthorized
UsageAfterEveryCall == Broker!UsageAfterEveryCall
=============================================================================
