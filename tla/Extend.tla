------------------------------- MODULE Extend -------------------------------
(***************************************************************************)
(* pkg/extend: the hook registry, the runtime-register handler, and the    *)
(* commands that run their pre and post chains through Wrap.               *)
(*                                                                         *)
(* byPoint keeps every list stably sorted by Order; reg keeps the same     *)
(* extensions as a set, each with its registration number, and Before is   *)
(* the order of the lists.  The hook points of one command are "pre" and   *)
(* "post".  The arguments that hooks and core hand on are left out, with   *)
(* the __meta in them.                                                     *)
(***************************************************************************)
EXTENDS Naturals, Sequences, FiniteSets

CONSTANTS
    Apps, Methods, Orders,
    Handlers,      \* broker calls into DaemonHandler that can be in flight
    NoRequest,     \* "no call", not a request
    Calls,         \* invocations of Wrap, each made once
    MaxRegs,       \* maxDynamicRegistrationsPerApp
    MaxBorn        \* bound on the registrations ever made

Points == {"pre", "post"}
Requests == [app : Apps, point : Points, method : Methods, order : Orders]
Extensions ==
    [app : Apps, point : Points, method : Methods, order : Orders, born : Nat]

ASSUME ExtendAssumption ==
    /\ NoRequest \notin Requests
    /\ Orders \subseteq Nat
    /\ IsFiniteSet(Handlers)
    /\ MaxRegs \in Nat \ {0} /\ MaxBorn \in Nat

VARIABLES
    reg,       \* the registered extensions
    next,      \* the number of the next registration
    asked,     \* per handler, the request it serves
    passed,    \* the handlers past the cap check, about to register
    pc,        \* per call of Wrap, where it is
    hooks,     \* per call, the chain Run works through (HooksFor's copy)
    began,     \* per call, the value of next when that copy was made
    ran        \* per call, the hooks dispatched so far, both chains

handlerVars == <<asked, passed>>
callVars == <<pc, hooks, began, ran>>
vars == <<reg, next, handlerVars, callVars>>

Phase == {"idle", "pre", "core", "post", "done", "failed"}

TypeOK ==
    /\ reg \subseteq Extensions /\ IsFiniteSet(reg)
    /\ next \in Nat
    /\ asked \in [Handlers -> Requests \union {NoRequest}]
    /\ passed \subseteq Handlers
    /\ pc \in [Calls -> Phase]
    /\ hooks \in [Calls -> SUBSET Extensions]
    /\ began \in [Calls -> Nat]
    /\ ran \in [Calls -> Seq(Extensions)]

Init ==
    /\ reg = {} /\ next = 0
    /\ asked = [h \in Handlers |-> NoRequest] /\ passed = {}
    /\ pc = [c \in Calls |-> "idle"]
    /\ hooks = [c \in Calls |-> {}]
    /\ began = [c \in Calls |-> 0]
    /\ ran = [c \in Calls |-> <<>>]

(* sort.SliceStable by Order: equal Orders stay in registration order.     *)
Before(e, f) == e.order < f.order \/ (e.order = f.order /\ e.born < f.born)

HooksFor(p) == {e \in reg : e.point = p}
CountForApp(a) == Cardinality({e \in reg : e.app = a})

-----------------------------------------------------------------------------
(* DaemonHandler and the registrations                                     *)

RegisterAsked(h) ==
    /\ asked[h] = NoRequest
    /\ \E r \in Requests : asked' = [asked EXCEPT ![h] = r]
    /\ UNCHANGED <<reg, next, passed, callVars>>

(* Refused: on behalf of another app or not permitted, the app is at the   *)
(* cap, or, after the cap check, the hook point, method or flags are       *)
(* malformed.  All but the cap are facts of the request: a free choice.    *)
RegisterRefused(h) ==
    /\ asked[h] # NoRequest
    /\ asked' = [asked EXCEPT ![h] = NoRequest]
    /\ passed' = passed \ {h}
    /\ UNCHANGED <<reg, next, callVars>>

(* Faulty variant: the comparison is off by one.                           *)
CapPassedOffByOne(h) ==
    /\ asked[h] # NoRequest /\ h \notin passed
    /\ CountForApp(asked[h].app) <= MaxRegs
    /\ passed' = passed \union {h}
    /\ UNCHANGED <<reg, next, asked, callVars>>

(* CountForApp takes and releases the read lock before Register locks.     *)
CapPassed(h) ==
    /\ asked[h] # NoRequest /\ h \notin passed
    /\ CountForApp(asked[h].app) < MaxRegs
    /\ passed' = passed \union {h}
    /\ UNCHANGED <<reg, next, asked, callVars>>

Register(h) ==
    /\ h \in passed /\ next < MaxBorn
    /\ reg' = reg \union
         {[app |-> asked[h].app, point |-> asked[h].point,
           method |-> asked[h].method, order |-> asked[h].order,
           born |-> next]}
    /\ next' = next + 1
    /\ passed' = passed \ {h}
    /\ asked' = [asked EXCEPT ![h] = NoRequest]
    /\ UNCHANGED callVars

Unregister(a) ==
    /\ reg' = {e \in reg : e.app # a}
    /\ UNCHANGED <<next, handlerVars, callVars>>

UnregisterOne(a, p, m) ==
    /\ reg' = {e \in reg : ~(e.point = p /\ e.app = a /\ e.method = m)}
    /\ UNCHANGED <<next, handlerVars, callVars>>

-----------------------------------------------------------------------------
(* Wrap: the pre chain, the core, the post chain                           *)

(* Run takes its copy of the chain.                                        *)
RunBegins(c, p) ==
    /\ pc' = [pc EXCEPT ![c] = p]
    /\ hooks' = [hooks EXCEPT ![c] = HooksFor(p)]
    /\ began' = [began EXCEPT ![c] = next]

WrapBegin(c) ==
    /\ pc[c] = "idle"
    /\ RunBegins(c, "pre")
    /\ UNCHANGED <<reg, next, handlerVars, ran>>

Dispatched(c) == {ran[c][i] : i \in DOMAIN ran[c]}

(* Faulty variant: the chain is not copied, so what is left is what comes  *)
(* after as many hooks as have run in the list as it is now.               *)
TodoLive(c) ==
    {h \in HooksFor(pc[c]) :
       Cardinality({g \in HooksFor(pc[c]) : Before(g, h)})
         >= Cardinality({g \in Dispatched(c) : g.point = pc[c]})}

(* What is left of the copy.                                               *)
Todo(c) == hooks[c] \ Dispatched(c)

(* Faulty variant: equal Orders come in any order.                         *)
RunHookUnstable(c) ==
    /\ pc[c] \in Points
    /\ \E h \in Todo(c) :
         /\ \A g \in Todo(c) : h.order <= g.order
         /\ ran' = [ran EXCEPT ![c] = Append(@, h)]
    /\ UNCHANGED <<reg, next, handlerVars, pc, hooks, began>>

(* The next hook of the copy is dispatched and returns.                    *)
RunHook(c) ==
    /\ pc[c] \in Points
    /\ \E h \in Todo(c) :
         /\ \A g \in Todo(c) \ {h} : Before(h, g)
         /\ ran' = [ran EXCEPT ![c] = Append(@, h)]
    /\ UNCHANGED <<reg, next, handlerVars, pc, hooks, began>>

(* With hooks left: the context is done, the app's rate limit is used up,  *)
(* or the hook returns an error.                                           *)
RunAborts(c) ==
    /\ pc[c] \in Points /\ Todo(c) # {}
    /\ pc' = [pc EXCEPT ![c] = "failed"]
    /\ UNCHANGED <<reg, next, handlerVars, hooks, began, ran>>

RunEnds(c) ==
    /\ pc[c] \in Points /\ Todo(c) = {}
    /\ pc' = [pc EXCEPT ![c] = IF @ = "pre" THEN "core" ELSE "done"]
    /\ UNCHANGED <<reg, next, handlerVars, hooks, began, ran>>

CoreFails(c) ==
    /\ pc[c] = "core"
    /\ pc' = [pc EXCEPT ![c] = "failed"]
    /\ UNCHANGED <<reg, next, handlerVars, hooks, began, ran>>

(* The core's result, or the transformed arguments when it returns nil,    *)
(* goes into the post chain.                                               *)
CoreReturns(c) ==
    /\ pc[c] = "core"
    /\ RunBegins(c, "post")
    /\ UNCHANGED <<reg, next, handlerVars, ran>>

Next ==
    \/ \E h \in Handlers :
         RegisterAsked(h) \/ RegisterRefused(h) \/ CapPassed(h) \/ Register(h)
    \/ \E a \in Apps : Unregister(a)
    \/ \E a \in Apps, p \in Points, m \in Methods : UnregisterOne(a, p, m)
    \/ \E c \in Calls :
         \/ WrapBegin(c) \/ RunHook(c) \/ RunAborts(c) \/ RunEnds(c)
         \/ CoreFails(c) \/ CoreReturns(c)

Spec == Init /\ [][Next]_vars

-----------------------------------------------------------------------------
(* Registrations and unregistrations of other apps while a chain runs make *)
(* it skip nothing: when a command reaches its core (or ends), every hook  *)
(* that was registered when Run began and still is has been dispatched.    *)
NoHookSkipped ==
    \A c \in Calls :
      \A p \in Points :
        pc[c] = (IF p = "pre" THEN "core" ELSE "done") =>
          \A e \in HooksFor(p) : e.born < began[c] => e \in Dispatched(c)

(* Within a chain hooks run by Order, those of equal Order as they were    *)
(* registered, and none twice: "apps stack predictably".                   *)
ChainInOrder ==
    \A c \in Calls : \A i, j \in DOMAIN ran[c] :
      i < j /\ ran[c][i].point = ran[c][j].point => Before(ran[c][i], ran[c][j])

(* The inductive invariants.  Numbers: registrations are numbered below    *)
(* next, and a copy was made in the past.  Copy: while a chain runs, its   *)
(* copy has every hook of its point that was there at the start and still  *)
(* is; what ran of it comes before what is left.                           *)
NumbersOK ==
    /\ \A e \in reg : e.born < next
    /\ \A c \in Calls : began[c] <= next
    /\ \A h \in passed : asked[h] \in Requests

CopyOK(c) ==
    /\ pc[c] = "idle" => ran[c] = <<>>
    /\ pc[c] \in {"pre", "core"} =>
         \A i \in DOMAIN ran[c] : ran[c][i].point = "pre"
    /\ pc[c] \in Points =>
         /\ \A f \in hooks[c] : f.point = pc[c]
         /\ \A e \in HooksFor(pc[c]) : e.born < began[c] => e \in hooks[c]
         /\ \A i \in DOMAIN ran[c] : \A f \in Todo(c) :
              ran[c][i].point = pc[c] => Before(ran[c][i], f)

ChainInv ==
    TypeOK /\ NumbersOK /\ (\A c \in Calls : CopyOK(c)) /\ NoHookSkipped /\ ChainInOrder

(* The check and the insertion of DaemonHandler.Register are two critical  *)
(* sections, so the cap can be overshot, but only by the calls in flight   *)
(* beyond the first: one call at a time keeps it.                          *)
Checked(a) == {h \in passed : asked[h].app = a}

CapOvershoot ==
    \A a \in Apps : CountForApp(a) + 1 <= MaxRegs + Cardinality(Handlers)

CapInv ==
    \A a \in Apps :
      CountForApp(a) + Cardinality(Checked(a)) + 1 <= MaxRegs + Cardinality(Handlers)
=============================================================================
