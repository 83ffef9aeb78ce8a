--------------------------- MODULE AuditLogProofs ---------------------------
(***************************************************************************)
(* The rotation of the audit log, for any number of writers, generations   *)
(* and sizes: the inductive invariant, the bound on every file, and that   *)
(* the log of a sole writer implements RetainedLog.                        *)
(***************************************************************************)
EXTENDS AuditLog, FiniteSetTheorems, TLAPS

USE KeepAssumption, MaxSizeAssumption

LEMMA WritersCount == Cardinality(Writers) \in Nat
  BY WritersAssumption, FS_CardinalityType

(* A file that lost lines and pending writers stays within the bound.      *)
LEMMA Shrinks ==
    ASSUME NEW L, NEW K \in SUBSET L, IsFiniteSet(L),
           NEW P \in SUBSET Writers, NEW Q \in SUBSET P,
           Cardinality(L) + Cardinality(P) <= MaxSize - 1 + Cardinality(Writers)
    PROVE  Cardinality(K) + Cardinality(Q) <= MaxSize - 1 + Cardinality(Writers)
  <1>1. IsFiniteSet(P)
    BY WritersAssumption, FS_Subset
  <1>2. IsFiniteSet(K) /\ Cardinality(K) <= Cardinality(L)
    BY FS_Subset
  <1>3. IsFiniteSet(Q) /\ Cardinality(Q) <= Cardinality(P)
    BY <1>1, FS_Subset
  <1>4. Cardinality(K) \in Nat /\ Cardinality(L) \in Nat /\ Cardinality(P) \in Nat /\ Cardinality(Q) \in Nat
    BY <1>1, <1>2, <1>3, FS_CardinalityType
  <1>5. QED
    BY <1>2, <1>3, <1>4, WritersCount

(* A file below the threshold is within the bound, whoever is pending.     *)
LEMMA Small ==
    ASSUME NEW L, IsFiniteSet(L), Cardinality(L) <= MaxSize - 1, NEW P \in SUBSET Writers
    PROVE  Cardinality(L) + Cardinality(P) <= MaxSize - 1 + Cardinality(Writers)
  <1>1. IsFiniteSet(P) /\ Cardinality(P) <= Cardinality(Writers)
    BY WritersAssumption, FS_Subset
  <1>2. Cardinality(L) \in Nat /\ Cardinality(P) \in Nat
    BY <1>1, FS_CardinalityType
  <1>3. QED
    BY <1>1, <1>2, WritersCount

LEMMA EmptySmall ==
    ASSUME NEW P \in SUBSET Writers
    PROVE  Cardinality({}) + Cardinality(P) <= MaxSize - 1 + Cardinality(Writers)
  <1>1. IsFiniteSet({}) /\ Cardinality({}) = 0
    BY FS_EmptySet
  <1>2. QED
    BY <1>1, Small

(* A sole writer is the only one at work, and has a file open only while   *)
(* it writes.                                                              *)
LEMMA SoleIdle ==
    ASSUME LogInv, Sole, NEW w \in Writers, pc[w] # "idle"
    PROVE  /\ \A u \in Writers \ {w} : pc[u] = "idle" /\ fd[u] = Gone
           /\ pc[w] # "write" => fd[w] = Gone
  <1>1. team = {w}
    BY DEF LogInv, FilesInv, Sole
  <1>2. QED
    BY <1>1 DEF LogInv, FilesInv, SoleInv

LEMMA InitInv == Init => LogInv
  <1> SUFFICES ASSUME Init PROVE LogInv
    OBVIOUS
  <1>1. TypeOK
    BY DEF Init, TypeOK, Gens, Gone, Steps
  <1>2. FilesInv
    BY FS_EmptySet DEF Init, FilesInv, Gens, Gone
  <1>3. PendingInv
    <2>1. \A i \in Gens : lines[i] = {} /\ Pending(i) \in SUBSET Writers
      BY DEF Init, Pending
    <2>2. QED
      BY <2>1, EmptySmall DEF PendingInv
  <1>4. SoleInv
    BY DEF Init, SoleInv
  <1>5. QED
    BY <1>1, <1>2, <1>3, <1>4 DEF LogInv

-----------------------------------------------------------------------------
LEMMA WriteAuditLineInv ==
    ASSUME LogInv, NEW w \in Writers, WriteAuditLine(w)
    PROVE  LogInv'
  <1> USE DEF WriteAuditLine, Goto, diskVars
  <1>1. TypeOK'
    BY DEF LogInv, TypeOK, Steps
  <1>2. FilesInv'
    BY DEF LogInv, TypeOK, FilesInv
  <1>3. PendingInv'
    <2>1. \A i \in Gens : lines'[i] = lines[i] /\ Pending(i)' = Pending(i)
      BY DEF LogInv, TypeOK, Pending
    <2>2. QED
      BY <2>1 DEF LogInv, PendingInv
  <1>4. SoleInv'
    <2>1. Sole' => Sole
      BY DEF LogInv, FilesInv, TypeOK, Sole
    <2>2. QED
      BY <2>1 DEF LogInv, TypeOK, SoleInv, Empty
  <1>5. QED
    BY <1>1, <1>2, <1>3, <1>4 DEF LogInv

LEMMA RotateAuditIfLargeInv ==
    ASSUME LogInv, NEW w \in Writers, RotateAuditIfLarge(w)
    PROVE  LogInv'
  <1> USE DEF RotateAuditIfLarge, Goto, diskVars
  <1>1. TypeOK'
    BY DEF LogInv, TypeOK, Steps
  <1>2. FilesInv'
    BY DEF LogInv, TypeOK, FilesInv
  <1>3. PendingInv'
    <2>1. \A i \in Gens : lines'[i] = lines[i] /\ Pending(i)' \in SUBSET Writers
      BY DEF Pending
    <2>2. CASE TooLarge
      <3>1. \A i \in Gens : Pending(i)' = Pending(i)
        BY <2>2 DEF LogInv, TypeOK, Pending
      <3>2. QED
        BY <2>1, <3>1 DEF LogInv, PendingInv
    <2>3. CASE ~TooLarge
      <3>1. IsFiniteSet(lines[0]) /\ Cardinality(lines[0]) <= MaxSize - 1
        <4>1. 0 \in Gens /\ IsFiniteSet(lines[0]) /\ (0 \notin present => lines[0] = {})
          BY DEF LogInv, FilesInv, Gens
        <4>2. Cardinality(lines[0]) \in Nat
          BY <4>1, FS_CardinalityType
        <4>3. CASE 0 \notin present
          BY <4>1, <4>3, FS_EmptySet
        <4>4. CASE 0 \in present
          BY <2>3, <4>1, <4>2, <4>4 DEF TooLarge
        <4>5. QED
          BY <4>3, <4>4
      <3>2. \A i \in Gens \ {0} : Pending(i)' = Pending(i)
        BY DEF LogInv, TypeOK, Pending
      <3>3. Cardinality(lines'[0]) + Cardinality(Pending(0)') <= MaxSize - 1 + Cardinality(Writers)
        BY <2>1, <3>1, Small DEF Gens
      <3>4. QED
        BY <2>1, <3>2, <3>3 DEF LogInv, PendingInv
    <2>4. QED
      BY <2>2, <2>3
  <1>4. SoleInv'
    BY DEF LogInv, TypeOK, SoleInv, Sole, Empty, TooLarge
  <1>5. QED
    BY <1>1, <1>2, <1>3, <1>4 DEF LogInv

LEMMA RemoveOldestInv ==
    ASSUME LogInv, NEW w \in Writers, RemoveOldest(w)
    PROVE  LogInv'
  <1> USE DEF RemoveOldest, Goto, Shift
  <1>1. TypeOK'
    BY DEF LogInv, TypeOK, Steps, Gens, Gone
  <1>2. \A i \in Gens : lines'[i] = IF i = Keep THEN {} ELSE lines[i]
    BY DEF Gens, Gone
  <1>3. \A u \in Writers : fd'[u] = IF fd[u] = Keep THEN Gone ELSE fd[u]
    BY DEF LogInv, TypeOK, Gone
  <1>4. FilesInv'
    <2>1. \A i \in Gens : /\ IsFiniteSet(lines'[i])
                          /\ i \notin present' => lines'[i] = {}
                          /\ \A l \in lines'[i] : l <= written'
      BY <1>2, FS_EmptySet DEF LogInv, FilesInv
    <2>2. \A u \in Writers : fd'[u] \in Gens => fd'[u] \in present'
      BY <1>3 DEF LogInv, FilesInv, Gens, Gone
    <2>3. \A u \in Writers : /\ pc'[u] # "idle" => u \in team'
                             /\ pc'[u] \in {"stat", "rename"} => gen'[u] < Keep
      BY DEF LogInv, TypeOK, FilesInv
    <2>4. team' # {}
      BY DEF LogInv, FilesInv
    <2> HIDE DEF RemoveOldest, Goto, Shift
    <2>5. QED
      BY <2>1, <2>2, <2>3, <2>4 DEF FilesInv
  <1>5. PendingInv'
    <2>1. \A i \in Gens : /\ lines'[i] \in SUBSET lines[i]
                          /\ Pending(i) \in SUBSET Writers
                          /\ Pending(i)' \in SUBSET Pending(i)
      BY <1>2, <1>3 DEF LogInv, TypeOK, Pending, Gens, Gone
    <2>2. ASSUME NEW i \in Gens
          PROVE  Cardinality(lines'[i]) + Cardinality(Pending(i)') <= MaxSize - 1 + Cardinality(Writers)
      <3>1. /\ IsFiniteSet(lines[i])
            /\ Cardinality(lines[i]) + Cardinality(Pending(i)) <= MaxSize - 1 + Cardinality(Writers)
        BY DEF LogInv, FilesInv, PendingInv
      <3>2. lines'[i] \in SUBSET lines[i] /\ Pending(i) \in SUBSET Writers /\ Pending(i)' \in SUBSET Pending(i)
        BY <2>1
      <3> HIDE DEF RemoveOldest, Goto, Shift
      <3>3. QED
        BY <3>1, <3>2, Shrinks
    <2>3. QED
      BY <2>2 DEF PendingInv
  <1>6. SoleInv'
    <2> SUFFICES ASSUME Sole' PROVE SoleInv'
      BY DEF SoleInv
    <2>1. Sole
      BY DEF Sole
    <2>2. \A u \in Writers : fd'[u] = Gone /\ (u # w => pc'[u] = "idle")
      BY <1>3, <2>1, SoleIdle DEF LogInv, TypeOK
    <2>3. pc'[w] = "stat" /\ gen'[w] = Keep - 1 /\ lines'[Keep] = {}
      BY <1>2 DEF LogInv, TypeOK, Gens
    <2>4. QED
      BY <1>2, <2>1, <2>2, <2>3 DEF LogInv, SoleInv
  <1>7. QED
    BY <1>1, <1>4, <1>5, <1>6 DEF LogInv

(* The loop goes on where it is safe: below the generation it has emptied, *)
(* or to the open once generation 0 is empty.                              *)
LEMMA NextGenerationEffect ==
    ASSUME LogInv, NEW w \in Writers, pc[w] \in {"stat", "rename"}, NextGeneration(w)
    PROVE  /\ pc' \in [Writers -> Steps] /\ gen' \in [Writers -> Gens]
           /\ \A u \in Writers \ {w} : pc'[u] = pc[u] /\ gen'[u] = gen[u]
           /\ \/ gen[w] = 0 /\ pc'[w] = "open"
              \/ gen[w] # 0 /\ pc'[w] = "stat" /\ gen'[w] = gen[w] - 1
  <1>1. TypeOK /\ gen[w] \in 0 .. Keep
    BY DEF LogInv, TypeOK, Gens
  <1>2. CASE gen[w] = 0
    BY <1>1, <1>2 DEF NextGeneration, TypeOK, Steps
  <1>3. CASE gen[w] # 0
    <2>1. /\ pc' = [pc EXCEPT ![w] = "stat"]
          /\ gen' = [gen EXCEPT ![w] = gen[w] - 1]
      BY <1>1, <1>3 DEF NextGeneration, TypeOK
    <2>2. gen[w] - 1 \in Gens
      BY <1>1, <1>3 DEF Gens
    <2>3. QED
      BY <1>1, <1>3, <2>1, <2>2 DEF TypeOK, Steps
  <1>4. QED
    BY <1>2, <1>3

(* Nothing to rename at this generation.                                   *)
LEMMA SkipGenerationInv ==
    ASSUME LogInv, NEW w \in Writers, pc[w] \in {"stat", "rename"},
           gen[w] \notin present, NextGeneration(w),
           UNCHANGED <<dirUp, dirId, present, lines, written, team, fd>>
    PROVE  LogInv'
  <1>1. /\ pc' \in [Writers -> Steps] /\ gen' \in [Writers -> Gens]
        /\ \A u \in Writers \ {w} : pc'[u] = pc[u] /\ gen'[u] = gen[u]
        /\ \/ gen[w] = 0 /\ pc'[w] = "open"
           \/ gen[w] # 0 /\ pc'[w] = "stat" /\ gen'[w] = gen[w] - 1
    BY NextGenerationEffect
  <1>2. /\ gen[w] \in Gens /\ gen[w] < Keep /\ lines[gen[w]] = {}
    BY DEF LogInv, TypeOK, FilesInv
  <1>3. TypeOK'
    BY <1>1, <1>2 DEF LogInv, TypeOK
  <1>4. FilesInv'
    BY <1>1, <1>2 DEF LogInv, FilesInv, Gens
  <1>5. PendingInv'
    <2>1. \A i \in Gens : lines'[i] = lines[i] /\ Pending(i)' \in SUBSET Writers
      BY <1>2 DEF Pending
    <2>2. \A i \in Gens : i # 0 \/ gen[w] # 0 => Pending(i)' = Pending(i)
      BY <1>1, <1>2 DEF Pending
    <2>3. gen[w] = 0 => Cardinality(lines'[0]) + Cardinality(Pending(0)')
                          <= MaxSize - 1 + Cardinality(Writers)
      BY <1>2, <2>1, EmptySmall
    <2>4. QED
      BY <2>1, <2>2, <2>3 DEF LogInv, PendingInv
  <1>6. SoleInv'
    <2> SUFFICES ASSUME Sole' PROVE SoleInv'
      BY DEF SoleInv
    <2>1. Sole
      BY DEF Sole
    <2>2. \A u \in Writers : fd'[u] = Gone /\ (u # w => pc'[u] = "idle")
      BY <1>1, <1>2, <2>1, SoleIdle
    <2>3. pc'[w] \in {"stat", "rename"} => lines'[gen'[w] + 1] = {}
      BY <1>1, <1>2 DEF Gens
    <2>4. pc'[w] # "write" /\ pc'[w] # "remove"
      BY <1>1
    <2>5. \A i, j \in Gens : i < j => \A new \in lines'[i], old \in lines'[j] : old < new
      BY <1>2, <2>1 DEF LogInv, SoleInv
    <2>6. QED
      BY <2>2, <2>3, <2>4, <2>5 DEF SoleInv
  <1>7. QED
    BY <1>3, <1>4, <1>5, <1>6 DEF LogInv

LEMMA StatGenerationInv ==
    ASSUME LogInv, NEW w \in Writers, StatGeneration(w)
    PROVE  LogInv'
  <1> USE DEF StatGeneration, diskVars
  <1>1. CASE gen[w] \in present
    <2>1. TypeOK' /\ FilesInv'
      BY <1>1 DEF LogInv, TypeOK, FilesInv, Steps
    <2>2. \A i \in Gens : lines'[i] = lines[i] /\ Pending(i)' = Pending(i)
      BY <1>1 DEF LogInv, TypeOK, Pending
    <2>3. SoleInv'
      BY <1>1 DEF LogInv, TypeOK, SoleInv, Sole, Empty
    <2>4. QED
      BY <2>1, <2>2, <2>3 DEF LogInv, PendingInv
  <1>2. CASE gen[w] \notin present
    BY <1>2, SkipGenerationInv
  <1>3. QED
    BY <1>1, <1>2

(* A rename of a file that is there.                                       *)
LEMMA RenameShiftInv ==
    ASSUME LogInv, NEW w \in Writers, RenameGeneration(w), gen[w] \in present
    PROVE  LogInv'
  <1> DEFINE i == gen[w]
  <1>1. i \in Gens /\ i < Keep /\ i + 1 \in Gens /\ i \in Nat
    BY DEF RenameGeneration, LogInv, TypeOK, FilesInv, Gens
  <1>2. /\ pc' \in [Writers -> Steps] /\ gen' \in [Writers -> Gens]
        /\ \A u \in Writers \ {w} : pc'[u] = pc[u] /\ gen'[u] = gen[u]
        /\ \/ i = 0 /\ pc'[w] = "open"
           \/ i # 0 /\ pc'[w] = "stat" /\ gen'[w] = i - 1
    BY NextGenerationEffect DEF RenameGeneration
  <1>3. /\ present' = (present \ {i, i + 1}) \cup {i + 1}
        /\ lines' \in [Gens -> SUBSET Nat]
        /\ \A g \in Gens : lines'[g] = IF g = i + 1 THEN lines[i] ELSE IF g = i THEN {} ELSE lines[g]
        /\ fd' \in [Writers -> 0 .. Gone]
        /\ \A u \in Writers : fd'[u] = IF fd[u] = i THEN i + 1
                                      ELSE IF fd[u] = i + 1 THEN Gone ELSE fd[u]
        /\ UNCHANGED <<dirUp, dirId, written, team>>
    <2>1. Shift(i, i + 1) /\ TypeOK /\ UNCHANGED <<dirUp, dirId, written, team>>
      BY DEF RenameGeneration, LogInv
    <2> HIDE DEF i
    <2>2. present' = (present \ {i, i + 1}) \cup {i + 1}
      BY <1>1, <2>1 DEF Shift
    <2>3. lines' = [g \in Gens |-> IF g = i + 1 THEN lines[i] ELSE IF g = i THEN {} ELSE lines[g]]
      BY <1>1, <2>1 DEF Shift
    <2>4. fd' = [u \in Writers |-> IF fd[u] = i THEN i + 1
                                   ELSE IF fd[u] = i + 1 THEN Gone ELSE fd[u]]
      BY <1>1, <2>1 DEF Shift
    <2>5. lines' \in [Gens -> SUBSET Nat]
      BY <1>1, <2>1, <2>3 DEF TypeOK
    <2>6. fd' \in [Writers -> 0 .. Gone]
      BY <1>1, <2>1, <2>4 DEF TypeOK, Gone, Gens
    <2>7. QED
      BY <2>1, <2>2, <2>3, <2>4, <2>5, <2>6
  <1>4. TypeOK /\ FilesInv /\ PendingInv /\ SoleInv /\ pc[w] = "rename"
    BY DEF LogInv, RenameGeneration
  <1> HIDE DEF i
  <1>5. TypeOK'
    BY <1>1, <1>2, <1>3, <1>4 DEF TypeOK
  <1>6. FilesInv'
    <2>1. \A g \in Gens : /\ IsFiniteSet(lines'[g])
                          /\ g \notin present' => lines'[g] = {}
                          /\ \A l \in lines'[g] : l <= written'
      BY <1>1, <1>3, <1>4, FS_EmptySet DEF FilesInv
    <2>2. \A u \in Writers : fd'[u] \in Gens => fd'[u] \in present'
      BY <1>1, <1>3, <1>4 DEF FilesInv, Gens, Gone
    <2>3. \A u \in Writers : /\ pc'[u] # "idle" => u \in team'
                             /\ pc'[u] \in {"stat", "rename"} => gen'[u] < Keep
      BY <1>1, <1>2, <1>3, <1>4 DEF FilesInv
    <2>4. QED
      <3>1. team' # {}
        BY <1>3, <1>4 DEF FilesInv
      <3>2. QED
        BY <2>1, <2>2, <2>3, <3>1 DEF FilesInv
  <1>7. PendingInv'
    <2>1. ASSUME NEW g \in Gens
          PROVE  Cardinality(lines'[g]) + Cardinality(Pending(g)') <= MaxSize - 1 + Cardinality(Writers)
      <3>1. Pending(g)' \in SUBSET Writers /\ Pending(g) \in SUBSET Writers /\ Pending(i) \in SUBSET Writers
        BY DEF Pending
      <3>2. CASE g = i
        <4>1. lines'[g] = {}
          BY <1>1, <1>3, <3>2
        <4>2. QED
          BY <3>1, <4>1, EmptySmall
      <3>3. CASE g = i + 1
        <4>1. lines'[g] \in SUBSET lines[i]
          BY <1>3, <3>3
        <4>2. Pending(g)' \in SUBSET Pending(i)
          BY <1>1, <1>2, <1>3, <1>4, <3>3 DEF Pending, Gens, Gone
        <4>3. QED
          BY <1>1, <1>4, <3>1, <4>1, <4>2, Shrinks DEF FilesInv, PendingInv
      <3>4. CASE g # i /\ g # i + 1
        <4>1. lines'[g] \in SUBSET lines[g]
          BY <1>3, <3>4
        <4>2. Pending(g)' \in SUBSET Pending(g)
          BY <1>1, <1>2, <1>3, <1>4, <3>4 DEF Pending, Gens, Gone
        <4>3. QED
          BY <1>4, <3>1, <4>1, <4>2, Shrinks DEF FilesInv, PendingInv
      <3>5. QED
        BY <3>2, <3>3, <3>4
    <2>2. QED
      BY <2>1 DEF PendingInv
  <1>8. SoleInv'
    <2> SUFFICES ASSUME Sole' PROVE SoleInv'
      BY DEF SoleInv
    <2>1. Sole
      BY <1>3 DEF Sole
    <2>2. \A u \in Writers : fd[u] = Gone /\ (u # w => pc[u] = "idle")
      BY <1>4, <2>1, SoleIdle
    <2>3. \A u \in Writers : fd'[u] = Gone /\ (u # w => pc'[u] = "idle")
      BY <1>1, <1>2, <1>3, <2>2 DEF Gone
    <2>4. lines[i + 1] = {}
      BY <1>4, <2>1 DEF SoleInv, i
    <2>5. \A a, b \in Gens : a < b => \A new \in lines'[a], old \in lines'[b] : old < new
      <3>1. SUFFICES ASSUME NEW a \in Gens, NEW b \in Gens, a < b,
                            NEW new \in lines'[a], NEW old \in lines'[b]
                     PROVE  old < new
        OBVIOUS
      <3> DEFINE From(g) == IF g = i + 1 THEN i ELSE g
      <3>2. a # i /\ b # i
        <4>1. lines'[i] = {}
          BY <1>1, <1>3
        <4>2. QED
          BY <3>1, <4>1
      <3>3. new \in lines[From(a)] /\ old \in lines[From(b)]
        BY <1>3, <3>1, <3>2
      <3>4. From(a) \in Gens /\ From(b) \in Gens /\ From(a) < From(b)
        BY <1>1, <3>1, <3>2 DEF Gens
      <3>5. QED
        BY <1>4, <2>1, <3>3, <3>4 DEF SoleInv
    <2>6. pc'[w] \in {"stat", "rename"} => lines'[gen'[w] + 1] = {}
      BY <1>1, <1>2, <1>3
    <2>7. pc'[w] # "write" /\ pc'[w] # "remove"
      BY <1>2
    <2>8. QED
      BY <2>3, <2>5, <2>6, <2>7 DEF SoleInv
  <1>9. QED
    BY <1>5, <1>6, <1>7, <1>8 DEF LogInv

LEMMA RenameGenerationInv ==
    ASSUME LogInv, NEW w \in Writers, RenameGeneration(w)
    PROVE  LogInv'
  <1>1. CASE gen[w] \in present
    BY <1>1, RenameShiftInv
  <1>2. CASE gen[w] \notin present
    BY <1>2, SkipGenerationInv DEF RenameGeneration
  <1>3. QED
    BY <1>1, <1>2

LEMMA OpenLogInv ==
    ASSUME LogInv, NEW w \in Writers, OpenLog(w)
    PROVE  LogInv'
  <1>1. CASE ~dirUp
    <2> USE <1>1 DEF OpenLog, Goto, diskVars
    <2>1. TypeOK'
      BY DEF LogInv, TypeOK, Steps
    <2>2. FilesInv'
      BY DEF LogInv, TypeOK, FilesInv
    <2>3. SoleInv'
      BY DEF LogInv, TypeOK, SoleInv, Sole, Empty
    <2>4. ASSUME NEW i \in Gens
          PROVE  Cardinality(lines'[i]) + Cardinality(Pending(i)') <= MaxSize - 1 + Cardinality(Writers)
      <3>1. /\ lines'[i] \in SUBSET lines[i] /\ Pending(i)' \in SUBSET Pending(i)
            /\ Pending(i) \in SUBSET Writers
        BY DEF LogInv, TypeOK, Pending
      <3>2. /\ IsFiniteSet(lines[i])
            /\ Cardinality(lines[i]) + Cardinality(Pending(i)) <= MaxSize - 1 + Cardinality(Writers)
        BY DEF LogInv, FilesInv, PendingInv
      <3> HIDE <1>1 DEF OpenLog, Goto
      <3>3. QED
        BY <3>1, <3>2, Shrinks
    <2>5. QED
      BY <2>1, <2>2, <2>3, <2>4 DEF LogInv, PendingInv
  <1>2. CASE dirUp
    <2>1. /\ pc[w] = "open"
          /\ pc' = [pc EXCEPT ![w] = "write"]
          /\ present' = present \cup {0}
          /\ fd' = [fd EXCEPT ![w] = 0]
          /\ UNCHANGED <<dirUp, dirId, lines, written, team, gen>>
          /\ 0 \in Gens
      BY <1>2 DEF OpenLog, Goto, Gens
    <2>2. TypeOK'
      BY <2>1 DEF LogInv, TypeOK, Steps, Gens, Gone
    <2>3. FilesInv'
      BY <2>1 DEF LogInv, TypeOK, FilesInv
    <2>4. \A i \in Gens : lines'[i] = lines[i] /\ Pending(i)' = Pending(i)
      <3>1. \A u \in Writers, i \in Gens :
              ((pc'[u] = "write" /\ fd'[u] = i) \/ (pc'[u] = "open" /\ i = 0))
                <=> ((pc[u] = "write" /\ fd[u] = i) \/ (pc[u] = "open" /\ i = 0))
        BY <2>1 DEF LogInv, TypeOK
      <3>2. QED
        BY <2>1, <3>1 DEF Pending
    <2>5. PendingInv'
      BY <2>4 DEF LogInv, PendingInv
    <2>6. SoleInv'
      <3> SUFFICES ASSUME Sole' PROVE SoleInv'
        BY DEF SoleInv
      <3>1. Sole /\ SoleInv
        BY <2>1 DEF Sole, LogInv
      <3>2. pc'[w] = "write" /\ fd'[w] = 0 /\ 0 # Gone
        BY <2>1 DEF LogInv, TypeOK, Gone
      <3>3. \A u \in Writers \ {w} : pc'[u] = "idle" /\ fd'[u] = Gone
        BY <2>1, <3>1, SoleIdle DEF LogInv, TypeOK
      <3>4. \A i, j \in Gens : i < j => \A new \in lines'[i], old \in lines'[j] : old < new
        BY <2>1, <3>1 DEF SoleInv
      <3>5. QED
        BY <3>2, <3>3, <3>4 DEF SoleInv
    <2>7. QED
      BY <2>2, <2>3, <2>5, <2>6 DEF LogInv
  <1>3. QED
    BY <1>1, <1>2

LEMMA AppendLineInv ==
    ASSUME LogInv, NEW w \in Writers, AppendLine(w)
    PROVE  LogInv'
  <1>1. /\ pc[w] = "write"
        /\ pc' = [pc EXCEPT ![w] = "idle"]
        /\ written' = written + 1
        /\ fd' = [fd EXCEPT ![w] = Gone]
        /\ \A g \in Gens : lines'[g] = IF g = fd[w] THEN lines[g] \cup {written + 1} ELSE lines[g]
        /\ UNCHANGED <<dirUp, dirId, present, team, gen>>
    BY DEF AppendLine, Goto
  <1>2. TypeOK /\ FilesInv /\ PendingInv /\ SoleInv /\ Gone \notin Gens
    BY DEF LogInv, Gens, Gone
  <1>3. TypeOK'
    <2>1. lines' \in [Gens -> SUBSET Nat]
      BY <1>2 DEF TypeOK, AppendLine
    <2>2. QED
      BY <1>1, <1>2, <2>1 DEF TypeOK, Steps, Gone
  <1>4. \A g \in Gens : /\ IsFiniteSet(lines'[g])
                        /\ \A l \in lines'[g] : l <= written'
                        /\ written + 1 \notin lines[g]
    <2>1. TAKE g \in Gens
    <2>2. IsFiniteSet(lines[g]) /\ (\A l \in lines[g] : l <= written) /\ lines[g] \in SUBSET Nat /\ written \in Nat
      BY <1>2 DEF FilesInv, TypeOK
    <2>3. written + 1 \notin lines[g]
      BY <2>2
    <2>4. IsFiniteSet(lines[g] \cup {written + 1})
      BY <2>2, FS_AddElement
    <2>5. QED
      BY <1>1, <2>2, <2>3, <2>4
  <1>5. FilesInv'
    <2>1. \A g \in Gens : g \notin present' => lines'[g] = {}
      BY <1>1, <1>2 DEF FilesInv
    <2>2. \A u \in Writers : /\ pc'[u] # "idle" => u \in team'
                             /\ pc'[u] \in {"stat", "rename"} => gen'[u] < Keep
                             /\ fd'[u] \in Gens => fd'[u] \in present'
      BY <1>1, <1>2 DEF FilesInv, TypeOK
    <2>3. team' # {}
      BY <1>1, <1>2 DEF FilesInv
    <2>4. QED
      BY <1>4, <2>1, <2>2, <2>3 DEF FilesInv
  <1>6. PendingInv'
    <2>1. ASSUME NEW g \in Gens
          PROVE  Cardinality(lines'[g]) + Cardinality(Pending(g)') <= MaxSize - 1 + Cardinality(Writers)
      <3>1. /\ IsFiniteSet(lines[g]) /\ Pending(g) \in SUBSET Writers
            /\ Cardinality(lines[g]) + Cardinality(Pending(g)) <= MaxSize - 1 + Cardinality(Writers)
        BY <1>2 DEF FilesInv, PendingInv, Pending
      <3>2. Pending(g)' = Pending(g) \ {w}
        BY <1>1, <1>2 DEF Pending, TypeOK
      <3>3. CASE g # fd[w]
        <4>1. lines'[g] \in SUBSET lines[g] /\ Pending(g)' \in SUBSET Pending(g)
          BY <1>1, <3>2, <3>3
        <4>2. QED
          BY <3>1, <4>1, Shrinks
      <3>4. CASE g = fd[w]
        <4>1. w \in Pending(g)
          BY <1>1, <3>4 DEF Pending
        <4>2. IsFiniteSet(Pending(g))
          BY <3>1, WritersAssumption, FS_Subset
        <4>3. Cardinality(Pending(g)') = Cardinality(Pending(g)) - 1
          BY <3>2, <4>1, <4>2, FS_RemoveElement
        <4>4. Cardinality(lines'[g]) = Cardinality(lines[g]) + 1
          <5>1. lines'[g] = lines[g] \cup {written + 1} /\ written + 1 \notin lines[g]
            BY <1>1, <1>4, <3>4
          <5>2. QED
            BY <3>1, <5>1, FS_AddElement
        <4>5. Cardinality(Pending(g)) \in Nat /\ Cardinality(lines[g]) \in Nat
          BY <3>1, <4>2, FS_CardinalityType
        <4>6. QED
          BY <3>1, <4>3, <4>4, <4>5, WritersCount
      <3>5. QED
        BY <3>3, <3>4
    <2>2. QED
      BY <2>1 DEF PendingInv
  <1>7. SoleInv'
    <2> SUFFICES ASSUME Sole' PROVE SoleInv'
      BY DEF SoleInv
    <2>1. Sole
      BY <1>1 DEF Sole
    <2>2. \A u \in Writers : pc'[u] = "idle" /\ fd'[u] = Gone
      BY <1>1, <1>2, <2>1, SoleIdle DEF TypeOK
    <2>3. fd[w] \in {0, Gone}
      BY <1>1, <1>2, <2>1 DEF SoleInv
    <2>4. ASSUME NEW i \in Gens, NEW j \in Gens, i < j,
                 NEW new \in lines'[i], NEW old \in lines'[j]
          PROVE  old < new
      <3>1. j # fd[w] /\ old \in lines[j] /\ old \in Nat /\ old <= written /\ written \in Nat
        <4>1. j # fd[w]
          BY <1>2, <2>3, <2>4 DEF Gens
        <4>2. old \in lines[j]
          BY <1>1, <2>4, <4>1
        <4>3. QED
          BY <1>2, <4>1, <4>2 DEF FilesInv, TypeOK
      <3>2. new = written + 1 \/ new \in lines[i]
        BY <1>1, <2>4
      <3>3. CASE new \in lines[i]
        BY <1>2, <2>1, <2>4, <3>1, <3>3 DEF SoleInv
      <3>4. CASE new = written + 1
        BY <3>1, <3>4
      <3>5. QED
        BY <3>2, <3>3, <3>4
    <2>5. QED
      BY <2>2, <2>4 DEF SoleInv
  <1>8. QED
    BY <1>3, <1>5, <1>6, <1>7 DEF LogInv

LEMMA CrashInv ==
    ASSUME LogInv, Crash
    PROVE  LogInv'
  <1> USE DEF Crash, diskVars
  <1>1. TypeOK'
    BY DEF LogInv, TypeOK, Steps, Gone
  <1>2. FilesInv'
    BY DEF LogInv, FilesInv, Gens, Gone
  <1>3. PendingInv'
    <2>1. ASSUME NEW i \in Gens
          PROVE  Cardinality(lines'[i]) + Cardinality(Pending(i)') <= MaxSize - 1 + Cardinality(Writers)
      <3>1. /\ lines'[i] \in SUBSET lines[i] /\ Pending(i)' \in SUBSET Pending(i)
            /\ Pending(i) \in SUBSET Writers
        BY DEF Pending
      <3>2. /\ IsFiniteSet(lines[i])
            /\ Cardinality(lines[i]) + Cardinality(Pending(i)) <= MaxSize - 1 + Cardinality(Writers)
        BY DEF LogInv, FilesInv, PendingInv
      <3> HIDE DEF Crash
      <3>3. QED
        BY <3>1, <3>2, Shrinks
    <2>2. QED
      BY <2>1 DEF PendingInv
  <1>4. SoleInv'
    BY DEF LogInv, SoleInv, Sole
  <1>5. QED
    BY <1>1, <1>2, <1>3, <1>4 DEF LogInv

LEMMA ReplaceDirInv ==
    ASSUME LogInv, NEW up \in BOOLEAN, ReplaceDir(up)
    PROVE  LogInv'
  <1> USE DEF ReplaceDir
  <1>1. TypeOK'
    BY DEF LogInv, TypeOK, Gone
  <1>2. FilesInv'
    BY FS_EmptySet DEF LogInv, FilesInv, Gens, Gone
  <1>3. PendingInv'
    <2>1. \A i \in Gens : lines'[i] = {} /\ Pending(i)' \in SUBSET Writers
      BY DEF Pending
    <2> HIDE DEF ReplaceDir
    <2>2. QED
      BY <2>1, EmptySmall DEF PendingInv
  <1>4. SoleInv'
    <2>1. Empty' /\ \A u \in Writers : fd'[u] = Gone
      BY DEF Empty
    <2>2. \A u \in Writers : pc'[u] \in {"stat", "rename"} => lines'[gen'[u] + 1] = {}
      BY DEF LogInv, TypeOK, FilesInv, Gens
    <2>3. QED
      BY <2>1, <2>2 DEF SoleInv, Empty
  <1>5. QED
    BY <1>1, <1>2, <1>3, <1>4 DEF LogInv

-----------------------------------------------------------------------------
(* Between any two file operations of any writers, and wherever the daemon *)
(* dies or the dir is replaced, the invariant of the log holds.            *)
THEOREM LogInvariant == Spec => []LogInv
  <1>1. LogInv /\ [Next]_vars => LogInv'
    <2> SUFFICES ASSUME LogInv, [Next]_vars PROVE LogInv'
      OBVIOUS
    <2>1. ASSUME NEW w \in Writers, WriteAuditLine(w) PROVE LogInv'
      BY <2>1, WriteAuditLineInv
    <2>2. ASSUME NEW w \in Writers, RotateAuditIfLarge(w) PROVE LogInv'
      BY <2>2, RotateAuditIfLargeInv
    <2>3. ASSUME NEW w \in Writers, RemoveOldest(w) PROVE LogInv'
      BY <2>3, RemoveOldestInv
    <2>4. ASSUME NEW w \in Writers, StatGeneration(w) PROVE LogInv'
      BY <2>4, StatGenerationInv
    <2>5. ASSUME NEW w \in Writers, RenameGeneration(w) PROVE LogInv'
      BY <2>5, RenameGenerationInv
    <2>6. ASSUME NEW w \in Writers, OpenLog(w) PROVE LogInv'
      BY <2>6, OpenLogInv
    <2>7. ASSUME NEW w \in Writers, AppendLine(w) PROVE LogInv'
      BY <2>7, AppendLineInv
    <2>8. CASE Crash
      BY <2>8, CrashInv
    <2>9. CASE Uninstall
      BY <2>9, ReplaceDirInv DEF Uninstall
    <2>10. CASE Install
      BY <2>10, ReplaceDirInv DEF Install
    <2>11. CASE UNCHANGED vars
      BY <2>11 DEF vars, LogInv, TypeOK, FilesInv, PendingInv, Pending, SoleInv, Sole, Empty
    <2>12. QED
      BY <2>1, <2>2, <2>3, <2>4, <2>5, <2>6, <2>7, <2>8, <2>9, <2>10, <2>11 DEF Next
  <1>2. QED
    BY InitInv, <1>1, PTL DEF Spec

(* No file of the log overshoots the threshold by more than a line of each *)
(* writer.                                                                 *)
THEOREM FileBoundHolds == Spec => []FileBound
  <1>1. LogInv => FileBound
    <2> SUFFICES ASSUME LogInv, NEW i \in Gens
                 PROVE  Cardinality(lines[i]) <= MaxSize - 1 + Cardinality(Writers)
      BY DEF FileBound
    <2>1. IsFiniteSet(lines[i]) /\ IsFiniteSet(Pending(i))
      BY WritersAssumption, FS_Subset DEF LogInv, FilesInv, Pending
    <2>2. Cardinality(lines[i]) \in Nat /\ Cardinality(Pending(i)) \in Nat
      BY <2>1, FS_CardinalityType
    <2>3. QED
      BY <2>2, WritersCount DEF LogInv, PendingInv
  <1>2. QED
    BY LogInvariant, <1>1, PTL

-----------------------------------------------------------------------------
LEMMA SameCardinality == \A S : Retained!Cardinality(S) = Cardinality(S)
  BY DEF Retained!Cardinality, Cardinality

LEMMA SameSole ==
    ASSUME team' = team
    PROVE  Sole' = Sole
  BY DEF Sole

LEMMA SameOnDisk ==
    ASSUME \A g \in Gens : lines'[g] = lines[g]
    PROVE  OnDisk' = OnDisk
  BY DEF OnDisk

(* Every step that leaves the files' lines alone is a stutter.             *)
LEMMA QuietStep ==
    ASSUME UNCHANGED <<written, lines, team, dirId>>
    PROVE  [Retained!Next]_(Retained!logVars)
  <1>1. Sole' = Sole
    BY SameSole
  <1>2. OnDisk' = OnDisk
    BY SameOnDisk
  <1>3. QED
    BY <1>1, <1>2 DEF Retained!logVars

LEMMA RemoveOldestStep ==
    ASSUME LogInv, NEW w \in Writers, RemoveOldest(w)
    PROVE  [Retained!Next]_(Retained!logVars)
  <1>1. \A i \in Gens : lines'[i] = IF i = Keep THEN {} ELSE lines[i]
    BY DEF RemoveOldest, Shift, Gens, Gone
  <1>2. Sole' = Sole /\ written' = written /\ dirId' = dirId
    BY SameSole DEF RemoveOldest
  <1>3. OnDisk' \subseteq OnDisk
    BY <1>1 DEF OnDisk
  <1>4. CASE ~Sole
    BY <1>2, <1>3, <1>4 DEF Retained!Next, Retained!Discard
  <1>5. CASE Sole /\ Empty
    <2>1. \A i \in Gens : lines'[i] = lines[i]
      BY <1>1, <1>5 DEF Empty
    <2>2. OnDisk' = OnDisk
      BY <2>1, SameOnDisk
    <2>3. QED
      BY <1>2, <2>2 DEF Retained!logVars
  <1>6. CASE Sole /\ ~Empty
    <2>1. Cardinality(lines[0]) >= MaxSize
      BY <1>6 DEF LogInv, SoleInv, RemoveOldest, Goto
    <2>2. ASSUME NEW old \in OnDisk \ OnDisk', NEW k \in OnDisk'
          PROVE  old < k
      <3>1. Keep \in Gens /\ old \in lines[Keep]
        <4>1. PICK j \in Gens : old \in lines[j]
          BY <2>2 DEF OnDisk
        <4>2. j = Keep
          BY <1>1, <2>2, <4>1 DEF OnDisk
        <4>3. QED
          BY <4>1, <4>2
      <3>2. PICK i \in Gens : i # Keep /\ k \in lines[i]
        <4>1. PICK i \in Gens : k \in lines'[i]
          BY <2>2 DEF OnDisk
        <4>2. QED
          BY <1>1, <4>1
      <3>3. i < Keep
        BY <3>2 DEF Gens
      <3>4. QED
        BY <1>6, <3>1, <3>2, <3>3 DEF LogInv, SoleInv
    <2>3. Cardinality(OnDisk') >= MaxSize
      <3>1. written \in Nat /\ \A i \in Gens : lines'[i] \subseteq 0 .. written
        BY <1>1 DEF LogInv, TypeOK, FilesInv
      <3>2. OnDisk' \subseteq 0 .. written
        BY <3>1 DEF OnDisk
      <3>3. IsFiniteSet(0 .. written)
        BY <3>1, FS_Interval
      <3>4. IsFiniteSet(OnDisk')
        BY <3>2, <3>3, FS_Subset
      <3>5. lines[0] \subseteq OnDisk'
        <4>1. 0 \in Gens /\ lines'[0] = lines[0]
          BY <1>1 DEF Gens
        <4>2. QED
          BY <4>1 DEF OnDisk
      <3>6. Cardinality(lines[0]) <= Cardinality(OnDisk') /\ IsFiniteSet(lines[0])
        BY <3>4, <3>5, FS_Subset
      <3>7. Cardinality(lines[0]) \in Nat /\ Cardinality(OnDisk') \in Nat
        BY <3>4, <3>6, FS_CardinalityType
      <3>8. QED
        BY <2>1, <3>6, <3>7
    <2>4. Retained!Discard
      <3>1. Retained!Cardinality(OnDisk') = Cardinality(OnDisk')
        BY SameCardinality
      <3>2. QED
        BY <1>2, <1>3, <2>2, <2>3, <3>1 DEF Retained!Discard
    <2>5. QED
      BY <2>4 DEF Retained!Next
  <1>7. QED
    BY <1>4, <1>5, <1>6

LEMMA RenameGenerationStep ==
    ASSUME LogInv, NEW w \in Writers, RenameGeneration(w)
    PROVE  [Retained!Next]_(Retained!logVars)
  <1> DEFINE i == gen[w]
  <1>1. CASE i \notin present
    BY <1>1, QuietStep DEF RenameGeneration
  <1>2. CASE i \in present
    <2>1. i \in Gens /\ i + 1 \in Gens /\ i # i + 1 /\ pc[w] = "rename"
      BY DEF RenameGeneration, LogInv, TypeOK, FilesInv, Gens
    <2>2. Shift(i, i + 1) /\ UNCHANGED <<written, team, dirId>>
      BY <1>2 DEF RenameGeneration
    <2> HIDE DEF i
    <2>3. \A g \in Gens : lines'[g] = IF g = i + 1 THEN lines[i] ELSE IF g = i THEN {} ELSE lines[g]
      BY <2>1, <2>2 DEF Shift
    <2>4. Sole' = Sole
      BY <2>2, SameSole
    <2>5. OnDisk' \subseteq OnDisk
      BY <2>1, <2>3 DEF OnDisk
    <2>6. CASE ~Sole
      BY <2>2, <2>4, <2>5, <2>6 DEF Retained!Next, Retained!Discard
    <2>7. CASE Sole
      <3>1. lines[i + 1] = {}
        BY <2>1, <2>7 DEF LogInv, SoleInv, i
      <3>2. OnDisk \subseteq OnDisk'
        <4>1. SUFFICES ASSUME NEW g \in Gens, NEW l \in lines[g]
                       PROVE  \E h \in Gens : l \in lines'[h]
          BY DEF OnDisk
        <4>2. CASE g = i
          BY <2>1, <2>3, <4>2
        <4>3. CASE g # i
          BY <2>3, <3>1, <4>1, <4>3
        <4>4. QED
          BY <4>2, <4>3
      <3>3. QED
        BY <2>2, <2>4, <2>5, <3>2 DEF Retained!logVars
    <2>8. QED
      BY <2>6, <2>7
  <1>3. QED
    BY <1>1, <1>2

LEMMA AppendLineStep ==
    ASSUME LogInv, NEW w \in Writers, AppendLine(w)
    PROVE  [Retained!Next]_(Retained!logVars)
  <1>1. /\ written' = written + 1 /\ dirId' = dirId /\ Sole' = Sole
        /\ \A g \in Gens : lines'[g] = IF g = fd[w] THEN lines[g] \cup {written + 1} ELSE lines[g]
    BY SameSole DEF AppendLine
  <1>2. CASE fd[w] \in Gens
    <2>1. OnDisk' = OnDisk \cup {written + 1}
      <3>1. \A l : (\E g \in Gens : l \in lines'[g]) <=> l = written + 1 \/ \E g \in Gens : l \in lines[g]
        BY <1>1, <1>2
      <3>2. QED
        BY <3>1 DEF OnDisk
    <2>2. QED
      BY <1>1, <2>1 DEF Retained!Next, Retained!Append
  <1>3. CASE fd[w] \notin Gens
    <2>1. OnDisk' = OnDisk
      BY <1>1, <1>3, SameOnDisk
    <2>2. fd[w] = Gone /\ pc[w] = "write"
      BY <1>3 DEF LogInv, TypeOK, Gens, Gone, AppendLine, Goto
    <2>3. Sole => OnDisk = {}
      BY <2>2 DEF LogInv, SoleInv, Empty, OnDisk
    <2>4. QED
      BY <1>1, <2>1, <2>3 DEF Retained!Next, Retained!Lose
  <1>4. QED
    BY <1>2, <1>3

LEMMA ReplaceDirStep ==
    ASSUME LogInv, NEW up \in BOOLEAN, ReplaceDir(up)
    PROVE  [Retained!Next]_(Retained!logVars)
  <1>1. Sole' = Sole
    BY SameSole DEF ReplaceDir
  <1>2. OnDisk' = {}
    BY DEF ReplaceDir, OnDisk
  <1>3. dirId' # dirId /\ written' = written
    BY DEF ReplaceDir, LogInv, TypeOK
  <1>4. QED
    BY <1>1, <1>2, <1>3 DEF Retained!Next, Retained!Clear

LEMMA WriteAuditLineStep ==
    ASSUME LogInv, NEW w \in Writers, WriteAuditLine(w)
    PROVE  [Retained!Next]_(Retained!logVars)
  <1>1. OnDisk' = OnDisk /\ written' = written /\ dirId' = dirId
    BY SameOnDisk DEF WriteAuditLine, diskVars
  <1>2. Sole' => Sole
    BY DEF WriteAuditLine, LogInv, FilesInv, TypeOK, Sole
  <1>3. Sole' \in BOOLEAN /\ Sole \in BOOLEAN
    BY DEF Sole
  <1>4. CASE Sole'
    BY <1>1, <1>2, <1>3, <1>4 DEF Retained!logVars
  <1>5. CASE ~Sole'
    BY <1>1, <1>3, <1>5 DEF Retained!Next, Retained!Share
  <1>6. QED
    BY <1>4, <1>5

(* The rotation, one file operation at a time and with the daemon dying    *)
(* anywhere in it, implements RetainedLog: a sole writer's log loses its   *)
(* oldest lines first and never all of them.                               *)
THEOREM ImplementsRetained == Spec => RetainsNewest
  <1>1. Init => Retained!Init
    <2> SUFFICES ASSUME Init PROVE Retained!Init
      OBVIOUS
    <2>1. OnDisk = {}
      BY DEF Init, OnDisk
    <2>2. Sole \in BOOLEAN
      BY DEF Sole
    <2>3. QED
      BY <2>1, <2>2 DEF Init, Retained!Init
  <1>2. LogInv /\ [Next]_vars => [Retained!Next]_(Retained!logVars)
    <2> SUFFICES ASSUME LogInv, [Next]_vars PROVE [Retained!Next]_(Retained!logVars)
      OBVIOUS
    <2>1. ASSUME NEW w \in Writers, RotateAuditIfLarge(w) \/ StatGeneration(w) \/ OpenLog(w)
          PROVE  [Retained!Next]_(Retained!logVars)
      <3>1. UNCHANGED <<written, lines, team, dirId>>
        BY <2>1 DEF RotateAuditIfLarge, StatGeneration, OpenLog, diskVars
      <3>2. QED
        BY <3>1, QuietStep
    <2>2. CASE Crash \/ UNCHANGED vars
      <3>1. UNCHANGED <<written, lines, team, dirId>>
        BY <2>2 DEF Crash, vars, diskVars
      <3>2. QED
        BY <3>1, QuietStep
    <2>3. ASSUME NEW w \in Writers, WriteAuditLine(w) PROVE [Retained!Next]_(Retained!logVars)
      BY <2>3, WriteAuditLineStep
    <2>4. ASSUME NEW w \in Writers, RemoveOldest(w) PROVE [Retained!Next]_(Retained!logVars)
      BY <2>4, RemoveOldestStep
    <2>5. ASSUME NEW w \in Writers, RenameGeneration(w) PROVE [Retained!Next]_(Retained!logVars)
      BY <2>5, RenameGenerationStep
    <2>6. ASSUME NEW w \in Writers, AppendLine(w) PROVE [Retained!Next]_(Retained!logVars)
      BY <2>6, AppendLineStep
    <2>7. CASE Uninstall \/ Install
      BY <2>7, ReplaceDirStep DEF Uninstall, Install
    <2>8. QED
      BY <2>1, <2>2, <2>3, <2>4, <2>5, <2>6, <2>7 DEF Next
  <1>3. QED
    BY <1>1, <1>2, LogInvariant, PTL DEF Spec, RetainsNewest, Retained!Spec
=============================================================================
