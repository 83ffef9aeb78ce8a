---------------------------- MODULE ExtendProofs ----------------------------
(***************************************************************************)
(* Proofs about module Extend: chains skip nothing and run in order under  *)
(* any registrations, and the cap is overshot by at most the calls in      *)
(* flight.                                                                 *)
(***************************************************************************)
EXTENDS Extend, FiniteSetTheorems, TLAPS

(* A step of a handler, of the registry's owner or of another command      *)
(* leaves what call c knows alone; the actions of Wrap name their call.    *)
RegStep ==
    \/ \E h \in Handlers :
         RegisterAsked(h) \/ RegisterRefused(h) \/ CapPassed(h) \/ Register(h)
    \/ \E a \in Apps : Unregister(a)
    \/ \E a \in Apps, p \in Points, m \in Methods : UnregisterOne(a, p, m)

CallStep(c) ==
    \/ WrapBegin(c) \/ RunHook(c) \/ RunAborts(c) \/ RunEnds(c)
    \/ CoreFails(c) \/ CoreReturns(c)

(* A registration request is a record over the app, point, method, order.  *)
LEMMA NewExtension ==
    ASSUME NEW r \in Requests, NEW n \in Nat
    PROVE  [app |-> r.app, point |-> r.point, method |-> r.method,
            order |-> r.order, born |-> n] \in Extensions
BY DEF Requests, Extensions

(* Type correctness is preserved by the registrations of the handlers ...  *)
LEMMA TypeRegStep ==
    ASSUME TypeOK, NumbersOK, RegStep
    PROVE  TypeOK'
<1>1. CASE \E h \in Handlers : RegisterAsked(h) \/ RegisterRefused(h) \/ CapPassed(h)
  BY <1>1 DEF TypeOK, RegisterAsked, RegisterRefused, CapPassed, callVars
<1>2. ASSUME NEW h \in Handlers, Register(h)
      PROVE  TypeOK'
  <2> DEFINE e == [app |-> asked[h].app, point |-> asked[h].point,
                   method |-> asked[h].method, order |-> asked[h].order,
                   born |-> next]
  <2>1. e \in Extensions
    BY <1>2, NewExtension DEF TypeOK, NumbersOK, Register
  <2>2. reg' = reg \union {e}
    BY <1>2 DEF Register
  <2>3. IsFiniteSet(reg')
    BY <2>2, FS_AddElement DEF TypeOK
  <2> HIDE DEF e
  <2>4. QED
    BY <1>2, <2>1, <2>2, <2>3 DEF TypeOK, Register, callVars
<1>3. CASE \/ \E a \in Apps : Unregister(a)
           \/ \E a \in Apps, p \in Points, m \in Methods : UnregisterOne(a, p, m)
  <2>1. reg' \subseteq reg
    BY <1>3 DEF Unregister, UnregisterOne
  <2>2. IsFiniteSet(reg')
    BY <2>1, FS_Subset DEF TypeOK
  <2>3. QED
    BY <1>3, <2>1, <2>2 DEF TypeOK, Unregister, UnregisterOne, callVars, handlerVars
<1>4. QED
  BY <1>1, <1>2, <1>3 DEF RegStep

(* ... and by the commands.                                                *)
LEMMA TypeCallStep ==
    ASSUME TypeOK, NEW c \in Calls, CallStep(c)
    PROVE  TypeOK'
<1> USE ExtendAssumption DEF TypeOK, handlerVars, Phase, Points
<1>0. \A p \in Points : HooksFor(p) \in SUBSET Extensions
  BY DEF HooksFor
<1>1. CASE WrapBegin(c)
  BY <1>0, <1>1 DEF WrapBegin, RunBegins
<1>2. CASE RunHook(c)
  <2>1. PICK h \in Todo(c) : ran' = [ran EXCEPT ![c] = Append(@, h)]
    BY <1>2 DEF RunHook
  <2>2. h \in Extensions
    BY DEF Todo
  <2>3. ran' \in [Calls -> Seq(Extensions)]
    BY <2>1, <2>2
  <2>4. QED
    BY <1>2, <2>3 DEF RunHook
<1>3. CASE RunAborts(c) \/ RunEnds(c) \/ CoreFails(c)
  BY <1>3 DEF RunAborts, RunEnds, CoreFails
<1>4. CASE CoreReturns(c)
  BY <1>0, <1>4 DEF CoreReturns, RunBegins
<1>5. QED
  BY <1>1, <1>2, <1>3, <1>4 DEF CallStep

(* The registrations disturb no chain: a new one is numbered past every    *)
(* copy, and one that goes is not asked for.                               *)
LEMMA ChainRegStep ==
    ASSUME ChainInv, RegStep
    PROVE  ChainInv'
<1> USE DEF ChainInv
<1>1. TypeOK'
  BY TypeRegStep
<1>2. callVars' = callVars
  BY DEF RegStep, RegisterAsked, RegisterRefused, CapPassed, Register,
         Unregister, UnregisterOne
<1>3. /\ next' \in Nat /\ next <= next'
      /\ \A e \in reg' : e \in reg \/ (e.born = next /\ next' = next + 1)
  <2>1. CASE \E h \in Handlers : RegisterAsked(h) \/ RegisterRefused(h) \/ CapPassed(h)
    BY <2>1 DEF RegisterAsked, RegisterRefused, CapPassed, TypeOK
  <2>2. CASE \E h \in Handlers : Register(h)
    BY <2>2 DEF Register, TypeOK
  <2>3. CASE \/ \E a \in Apps : Unregister(a)
             \/ \E a \in Apps, p \in Points, m \in Methods : UnregisterOne(a, p, m)
    BY <2>3 DEF Unregister, UnregisterOne, TypeOK
  <2>4. QED
    BY <2>1, <2>2, <2>3 DEF RegStep
<1>4. NumbersOK'
  <2>0. next \in Nat /\ \A e \in reg : e.born \in Nat /\ e.born < next
    BY DEF NumbersOK, TypeOK, Extensions
  <2>1. \A e \in reg' : e.born < next'
    BY <1>3, <2>0
  <2>2. \A c \in Calls : began'[c] <= next'
    BY <1>1, <1>2, <1>3 DEF NumbersOK, TypeOK, callVars
  <2>3. \A h \in passed' : asked'[h] \in Requests
    <3>1. CASE \E h \in Handlers : RegisterAsked(h) \/ RegisterRefused(h) \/ CapPassed(h) \/ Register(h)
      BY <3>1 DEF NumbersOK, TypeOK, RegisterAsked, RegisterRefused, CapPassed, Register
    <3>2. CASE \/ \E a \in Apps : Unregister(a)
               \/ \E a \in Apps, p \in Points, m \in Methods : UnregisterOne(a, p, m)
      BY <3>2 DEF NumbersOK, Unregister, UnregisterOne, handlerVars
    <3>3. QED
      BY <3>1, <3>2 DEF RegStep
  <2>4. QED
    BY <2>1, <2>2, <2>3 DEF NumbersOK
<1>5. ASSUME NEW c \in Calls, NEW e \in reg', e.born < began[c]
      PROVE  e \in reg
  BY <1>3, <1>5 DEF NumbersOK, TypeOK
<1>6. \A c \in Calls : Todo(c)' = Todo(c) /\ Dispatched(c)' = Dispatched(c)
  BY <1>2 DEF Todo, Dispatched, callVars
<1>7. \A c \in Calls : CopyOK(c)'
  BY <1>2, <1>5, <1>6 DEF CopyOK, HooksFor, callVars
<1>8. NoHookSkipped'
  BY <1>2, <1>5, <1>6 DEF NoHookSkipped, HooksFor, callVars
<1>9. ChainInOrder'
  BY <1>2 DEF ChainInOrder, callVars
<1>10. QED
  BY <1>1, <1>4, <1>7, <1>8, <1>9

(* A command's own step: what the other commands know is untouched, and    *)
(* the four ways its own knowledge can change keep the invariant.          *)
LEMMA ChainCallStep ==
    ASSUME ChainInv, NEW c \in Calls, CallStep(c)
    PROVE  ChainInv'
<1> USE DEF ChainInv
<1>1. TypeOK'
  BY TypeCallStep
<1>2. reg' = reg /\ next' = next /\ asked' = asked /\ passed' = passed
  BY DEF CallStep, WrapBegin, RunHook, RunAborts, RunEnds, CoreFails, CoreReturns, handlerVars
<1>3. \A d \in Calls \ {c} :
        /\ pc'[d] = pc[d] /\ hooks'[d] = hooks[d]
        /\ began'[d] = began[d] /\ ran'[d] = ran[d]
  <2>1. CASE WrapBegin(c) \/ CoreReturns(c)
    BY <2>1 DEF WrapBegin, CoreReturns, RunBegins, TypeOK
  <2>2. CASE RunHook(c)
    BY <2>2 DEF RunHook, TypeOK
  <2>3. CASE RunAborts(c) \/ RunEnds(c) \/ CoreFails(c)
    BY <2>3 DEF RunAborts, RunEnds, CoreFails, TypeOK
  <2>4. QED
    BY <2>1, <2>2, <2>3 DEF CallStep
<1>4. NumbersOK'
  <2>1. began'[c] \in {began[c], next}
    <3>1. CASE WrapBegin(c) \/ CoreReturns(c)
      BY <3>1 DEF WrapBegin, CoreReturns, RunBegins, TypeOK
    <3>2. CASE RunHook(c) \/ RunAborts(c) \/ RunEnds(c) \/ CoreFails(c)
      BY <3>2 DEF RunHook, RunAborts, RunEnds, CoreFails
    <3>3. QED
      BY <3>1, <3>2 DEF CallStep
  <2>2. next \in Nat /\ \A d \in Calls : began'[d] \in {began[d], next}
    BY <1>3, <2>1 DEF TypeOK
  <2>3. \A d \in Calls : began[d] <= next
    BY DEF NumbersOK
  <2>4. \A d \in Calls : began'[d] <= next'
    BY <1>2, <2>2, <2>3
  <2>5. QED
    BY <1>2, <2>4 DEF NumbersOK
<1>5. \A p : HooksFor(p)' = HooksFor(p)
  BY <1>2 DEF HooksFor
<1>6. SUFFICES
        /\ CopyOK(c)'
        /\ \A p \in Points :
             pc'[c] = (IF p = "pre" THEN "core" ELSE "done") =>
               \A e \in HooksFor(p) : e.born < began'[c] => e \in Dispatched(c)'
        /\ \A i, j \in DOMAIN ran'[c] :
             i < j /\ ran'[c][i].point = ran'[c][j].point => Before(ran'[c][i], ran'[c][j])
  <2>1. \A d \in Calls \ {c} : CopyOK(d)'
    BY <1>3, <1>5 DEF CopyOK, Todo, Dispatched
  <2>2. NoHookSkipped'
    BY <1>3, <1>5, <1>6 DEF NoHookSkipped, Dispatched
  <2>3. ChainInOrder'
    BY <1>3, <1>6 DEF ChainInOrder
  <2>4. QED
    BY <1>1, <1>4, <1>6, <2>1, <2>2, <2>3
<1>7. CASE WrapBegin(c)
  <2>1. /\ pc[c] = "idle" /\ pc'[c] = "pre" /\ hooks'[c] = HooksFor("pre")
        /\ ran' = ran
    BY <1>7 DEF WrapBegin, RunBegins, TypeOK
  <2>2. ran[c] = <<>> /\ DOMAIN ran[c] = {}
    BY <2>1 DEF CopyOK
  <2>3. QED
    BY <2>1, <2>2, <1>5 DEF CopyOK, HooksFor, Points
<1>8. CASE RunHook(c)
  <2>1. PICK h \in Todo(c) :
          /\ \A g \in Todo(c) \ {h} : Before(h, g)
          /\ ran' = [ran EXCEPT ![c] = Append(@, h)]
    BY <1>8 DEF RunHook
  <2>2. pc[c] \in Points /\ pc' = pc /\ hooks' = hooks /\ began' = began
    BY <1>8 DEF RunHook
  <2>3. h \in hooks[c] /\ h \in Extensions /\ h.point = pc[c]
    BY <2>2 DEF Todo, CopyOK, TypeOK
  <2>4. /\ ran[c] \in Seq(Extensions)
        /\ DOMAIN ran'[c] = DOMAIN ran[c] \union {Len(ran[c]) + 1}
        /\ DOMAIN ran[c] = 1 .. Len(ran[c])
        /\ \A i \in DOMAIN ran[c] : ran'[c][i] = ran[c][i]
        /\ ran'[c][Len(ran[c]) + 1] = h
    BY <2>1, <2>3 DEF TypeOK
  <2>5. Todo(c)' = Todo(c) \ {h}
    BY <2>2, <2>4 DEF Todo, Dispatched
  <2>6. CopyOK(c)'
    BY <1>5, <2>1, <2>2, <2>3, <2>4, <2>5 DEF CopyOK, Points
  <2>7. \A i, j \in DOMAIN ran'[c] :
          i < j /\ ran'[c][i].point = ran'[c][j].point => Before(ran'[c][i], ran'[c][j])
    <3> SUFFICES ASSUME NEW i \in DOMAIN ran'[c], NEW j \in DOMAIN ran'[c],
                        i < j, ran'[c][i].point = ran'[c][j].point
                 PROVE  Before(ran'[c][i], ran'[c][j])
      OBVIOUS
    <3>0. Len(ran[c]) \in Nat
      BY <2>4
    <3>1. CASE j \in DOMAIN ran[c]
      <4>1. i \in DOMAIN ran[c]
        BY <2>4, <3>0, <3>1
      <4>2. QED
        BY <2>4, <3>1, <4>1 DEF ChainInOrder
    <3>2. CASE j = Len(ran[c]) + 1
      <4>1. i \in DOMAIN ran[c]
        BY <2>4, <3>0, <3>2
      <4>2. QED
        BY <2>2, <2>3, <2>4, <3>2, <4>1 DEF CopyOK
    <3>3. QED
      BY <2>4, <3>1, <3>2
  <2>8. QED
    BY <2>2, <2>6, <2>7 DEF Points
<1>9. CASE RunEnds(c)
  <2>1. /\ pc[c] \in Points /\ Todo(c) = {}
        /\ pc'[c] = IF pc[c] = "pre" THEN "core" ELSE "done"
        /\ hooks' = hooks /\ began' = began /\ ran' = ran
    BY <1>9 DEF RunEnds, TypeOK
  <2>2. hooks[c] \subseteq Dispatched(c) /\ Dispatched(c)' = Dispatched(c)
    BY <2>1 DEF Todo, Dispatched
  <2>3. QED
    BY <2>1, <2>2 DEF CopyOK, ChainInOrder, Points
<1>10. CASE RunAborts(c) \/ CoreFails(c)
  <2>1. pc'[c] = "failed" /\ ran' = ran
    BY <1>10 DEF RunAborts, CoreFails, TypeOK
  <2>2. QED
    BY <2>1 DEF CopyOK, ChainInOrder, Points
<1>11. CASE CoreReturns(c)
  <2>1. /\ pc[c] = "core" /\ pc'[c] = "post" /\ hooks'[c] = HooksFor("post")
        /\ ran' = ran
    BY <1>11 DEF CoreReturns, RunBegins, TypeOK
  <2>2. \A i \in DOMAIN ran[c] : ran[c][i].point = "pre"
    BY <2>1 DEF CopyOK
  <2>3. QED
    BY <2>1, <2>2, <1>5 DEF CopyOK, ChainInOrder, HooksFor, Points
<1>12. QED
  BY <1>7, <1>8, <1>9, <1>10, <1>11 DEF CallStep

(* Every behaviour of the registry keeps the chain invariant.              *)
THEOREM ChainInvariant == Spec => []ChainInv
<1>1. Init => ChainInv
  BY FS_EmptySet, ExtendAssumption
     DEF Init, ChainInv, TypeOK, NumbersOK, CopyOK, NoHookSkipped, ChainInOrder,
         Todo, Dispatched, HooksFor, Phase, Points
<1>2. ChainInv /\ [Next]_vars => ChainInv'
  <2> SUFFICES ASSUME ChainInv, [Next]_vars
               PROVE  ChainInv'
    OBVIOUS
  <2>1. CASE RegStep
    BY <2>1, ChainRegStep
  <2>2. CASE \E c \in Calls : CallStep(c)
    BY <2>2, ChainCallStep
  <2>3. CASE UNCHANGED vars
    BY <2>3 DEF ChainInv, TypeOK, NumbersOK, CopyOK, NoHookSkipped, ChainInOrder,
         Todo, Dispatched, HooksFor, vars, handlerVars, callVars
  <2>4. QED
    BY <2>1, <2>2, <2>3 DEF Next, RegStep, CallStep
<1>3. QED
  BY <1>1, <1>2, PTL DEF Spec

(* Whatever is registered and unregistered while a chain runs, no hook     *)
(* that stays registered is skipped.                                       *)
THEOREM NoHookSkippedHolds == Spec => []NoHookSkipped
<1>1. ChainInv => NoHookSkipped
  BY DEF ChainInv
<1>2. QED
  BY <1>1, ChainInvariant, PTL

(* Chains run by Order, then by registration, no hook twice.               *)
THEOREM ChainInOrderHolds == Spec => []ChainInOrder
<1>1. ChainInv => ChainInOrder
  BY DEF ChainInv
<1>2. QED
  BY <1>1, ChainInvariant, PTL

-----------------------------------------------------------------------------
(* The cap.  A handler past the check was let through with the app below   *)
(* the cap; from then on its registration is already counted.              *)
LEMMA CapStep ==
    ASSUME ChainInv, CapInv, [Next]_vars
    PROVE  CapInv'
<1> DEFINE Mine(a) == {e \in reg : e.app = a}
<1>0. /\ IsFiniteSet(Handlers) /\ Cardinality(Handlers) \in Nat
      /\ MaxRegs \in Nat \ {0}
  BY ExtendAssumption, FS_CardinalityType
<1>1. ASSUME NEW a \in Apps
      PROVE  /\ IsFiniteSet(Mine(a)) /\ Cardinality(Mine(a)) \in Nat
             /\ Checked(a) \subseteq Handlers
             /\ IsFiniteSet(Checked(a)) /\ Cardinality(Checked(a)) \in Nat
             /\ Cardinality(Mine(a)) + Cardinality(Checked(a)) + 1
                  <= MaxRegs + Cardinality(Handlers)
  <2>1. IsFiniteSet(Mine(a)) /\ Cardinality(Mine(a)) \in Nat
    BY FS_Subset, FS_CardinalityType DEF ChainInv, TypeOK
  <2>2. Checked(a) \subseteq Handlers
    BY DEF Checked, ChainInv, TypeOK
  <2>3. IsFiniteSet(Checked(a)) /\ Cardinality(Checked(a)) \in Nat
    BY <1>0, <2>2, FS_Subset, FS_CardinalityType
  <2>4. QED
    BY <2>1, <2>2, <2>3 DEF CapInv, CountForApp
<1>2. SUFFICES ASSUME NEW a \in Apps
               PROVE  Cardinality(Mine(a)') + Cardinality(Checked(a)') + 1
                        <= MaxRegs + Cardinality(Handlers)
  BY DEF CapInv, CountForApp
<1>3. CASE /\ Mine(a)' \subseteq Mine(a)
           /\ Checked(a)' \subseteq Checked(a)
  <2>1. /\ Cardinality(Mine(a)') \in Nat /\ Cardinality(Mine(a)') <= Cardinality(Mine(a))
        /\ Cardinality(Checked(a)') \in Nat /\ Cardinality(Checked(a)') <= Cardinality(Checked(a))
    BY <1>1, <1>3, FS_Subset, FS_CardinalityType
  <2>2. QED
    BY <1>0, <1>1, <2>1
<1>4. ASSUME NEW h \in Handlers, RegisterAsked(h) \/ RegisterRefused(h)
      PROVE  Mine(a)' \subseteq Mine(a) /\ Checked(a)' \subseteq Checked(a)
  <2>1. h \notin passed'
    BY <1>4, ExtendAssumption DEF RegisterAsked, RegisterRefused, ChainInv, NumbersOK
  <2>2. /\ reg' = reg /\ passed' \subseteq passed
        /\ \A g \in Handlers \ {h} : asked'[g] = asked[g]
    BY <1>4 DEF RegisterAsked, RegisterRefused, ChainInv, TypeOK
  <2>3. QED
    BY <2>1, <2>2 DEF Checked, ChainInv, TypeOK
<1>5. ASSUME NEW h \in Handlers, CapPassed(h), asked[h].app # a
      PROVE  Mine(a)' = Mine(a) /\ Checked(a)' = Checked(a)
  BY <1>5 DEF CapPassed, Checked
<1>6. ASSUME NEW h \in Handlers, CapPassed(h), asked[h].app = a
      PROVE  Cardinality(Mine(a)') + Cardinality(Checked(a)') + 1
               <= MaxRegs + Cardinality(Handlers)
  <2>1. Mine(a)' = Mine(a) /\ Cardinality(Mine(a)) < MaxRegs
    BY <1>6 DEF CapPassed, CountForApp
  <2>2. Checked(a)' \subseteq Handlers
    BY <1>6 DEF CapPassed, Checked, ChainInv, TypeOK
  <2>3. Cardinality(Checked(a)') \in Nat /\ Cardinality(Checked(a)') <= Cardinality(Handlers)
    BY <1>0, <2>2, FS_Subset, FS_CardinalityType
  <2>4. Cardinality(Mine(a)') = Cardinality(Mine(a)) /\ Cardinality(Mine(a)) \in Nat
    BY <1>1, <2>1
  <2> HIDE DEF Mine
  <2>5. QED
    BY <1>0, <2>1, <2>3, <2>4
<1>7. ASSUME NEW h \in Handlers, Register(h), asked[h].app # a
      PROVE  Mine(a)' = Mine(a) /\ Checked(a)' = Checked(a)
  BY <1>7 DEF Register, Checked, ChainInv, TypeOK
<1>8. ASSUME NEW h \in Handlers, Register(h), asked[h].app = a
      PROVE  Cardinality(Mine(a)') + Cardinality(Checked(a)') + 1
               <= MaxRegs + Cardinality(Handlers)
  <2> DEFINE e == [app |-> asked[h].app, point |-> asked[h].point,
                   method |-> asked[h].method, order |-> asked[h].order,
                   born |-> next]
  <2>0. reg' = reg \union {e} /\ e.app = a
    BY <1>8 DEF Register
  <2> HIDE DEF e
  <2>1. Mine(a)' = Mine(a) \union {e}
    BY <2>0
  <2>2. Checked(a)' = Checked(a) \ {h} /\ h \in Checked(a)
    BY <1>8 DEF Register, Checked, ChainInv, TypeOK
  <2>3. Cardinality(Checked(a)') = Cardinality(Checked(a)) - 1
    BY <1>1, <2>2, FS_RemoveElement
  <2>4. /\ Cardinality(Mine(a)') \in Nat
        /\ Cardinality(Mine(a)') <= Cardinality(Mine(a)) + 1
    <3>1. IsFiniteSet(Mine(a)) /\ Cardinality(Mine(a)) \in Nat
      BY <1>1
    <3> HIDE DEF Mine
    <3>2. Cardinality(Mine(a) \union {e}) \in {Cardinality(Mine(a)), Cardinality(Mine(a)) + 1}
      BY <3>1, FS_AddElement
    <3>3. QED
      BY <2>1, <3>1, <3>2
  <2>5. QED
    BY <1>0, <1>1, <2>3, <2>4
<1>9. CASE \/ \E b \in Apps : Unregister(b)
           \/ \E b \in Apps, p \in Points, m \in Methods : UnregisterOne(b, p, m)
  <2>1. Mine(a)' \subseteq Mine(a) /\ Checked(a)' = Checked(a)
    BY <1>9 DEF Unregister, UnregisterOne, Checked, handlerVars
  <2>2. QED
    BY <1>3, <2>1
<1>10. CASE (\E c \in Calls : CallStep(c)) \/ UNCHANGED vars
  <2>1. reg' = reg /\ asked' = asked /\ passed' = passed
    BY <1>10 DEF CallStep, WrapBegin, RunHook, RunAborts, RunEnds, CoreFails,
                 CoreReturns, handlerVars, vars
  <2>2. QED
    BY <1>3, <2>1 DEF Checked
<1>11. QED
  BY <1>3, <1>4, <1>5, <1>6, <1>7, <1>8, <1>9, <1>10 DEF Next, CallStep

(* With N broker calls in flight at most, no app ever holds more than      *)
(* N - 1 hooks above the cap; with one at a time the cap is exact.         *)
THEOREM CapOvershootHolds == Spec => []CapOvershoot
<1>1. Init => CapInv
  <2> SUFFICES ASSUME Init, NEW a \in Apps
               PROVE  CountForApp(a) + Cardinality(Checked(a)) + 1
                        <= MaxRegs + Cardinality(Handlers)
    BY DEF CapInv
  <2>1. {e \in reg : e.app = a} = {} /\ Checked(a) = {}
    BY DEF Init, Checked
  <2>2. Cardinality({}) = 0
    BY FS_EmptySet
  <2>3. Cardinality(Handlers) \in Nat /\ MaxRegs \in Nat \ {0}
    BY ExtendAssumption, FS_CardinalityType
  <2>4. CountForApp(a) = 0 /\ Cardinality(Checked(a)) = 0
    BY <2>1, <2>2 DEF CountForApp
  <2>5. QED
    BY <2>3, <2>4
<1>2. ChainInv /\ CapInv /\ [Next]_vars => CapInv'
  BY CapStep
<1>3. ChainInv /\ CapInv => CapOvershoot
  <2> SUFFICES ASSUME ChainInv, CapInv, NEW a \in Apps
               PROVE  CountForApp(a) + 1 <= MaxRegs + Cardinality(Handlers)
    BY DEF CapOvershoot
  <2>1. IsFiniteSet({e \in reg : e.app = a}) /\ IsFiniteSet(Checked(a))
    BY ExtendAssumption, FS_Subset DEF ChainInv, TypeOK, Checked
  <2>2. CountForApp(a) \in Nat /\ Cardinality(Checked(a)) \in Nat
    BY <2>1, FS_CardinalityType DEF CountForApp
  <2>3. MaxRegs \in Nat /\ Cardinality(Handlers) \in Nat
    BY ExtendAssumption, FS_CardinalityType
  <2>4. QED
    BY <2>2, <2>3 DEF CapInv
<1>4. QED
  BY <1>1, <1>2, <1>3, ChainInvariant, PTL DEF Spec
=============================================================================
