-------------------------- MODULE SupervisorProofs --------------------------
(***************************************************************************)
(* Safety of Supervisor for every set of goroutines and bundles and every  *)
(* bound.  TypeOK is not inductive alone (a killed daemon turns the paths  *)
(* of its running processes into orphans, so a running process must have a *)
(* bundle), and neither are the properties; IInv is the invariant that is. *)
(***************************************************************************)
EXTENDS Supervisor, Versions, TLAPS

LEMMA NoRecordType == NoRecord \in [n : Nat, suspended : BOOLEAN]
  BY DEF NoRecord

LEMMA Frames ==
    /\ FsTypeOK /\ UNCHANGED fsVars => FsTypeOK'
    /\ MapTypeOK /\ UNCHANGED mapVars => MapTypeOK'
    /\ RunTypeOK /\ UNCHANGED runVars => RunTypeOK'
    /\ SuperTypeOK /\ UNCHANGED superVars => SuperTypeOK'
    /\ ProcTypeOK /\ UNCHANGED procVars => ProcTypeOK'
    /\ ExtTypeOK /\ UNCHANGED extVars => ExtTypeOK'
  BY DEF FsTypeOK, fsVars, MapTypeOK, mapVars, RunTypeOK, runVars, SuperTypeOK, superVars,
         ProcTypeOK, procVars, ExtTypeOK, extVars

LEMMA TypeInit == Init => TypeOK
<1> SUFFICES ASSUME Init PROVE TypeOK
  OBVIOUS
<1>1. FsTypeOK
  BY DEF Init, FsTypeOK
<1>2. MapTypeOK
  BY DEF Init, MapTypeOK, NoRecord
<1>3. RunTypeOK
  BY DEF Init, RunTypeOK, RescanPC
<1>4. SuperTypeOK
  BY BoundAssumption DEF Init, SuperTypeOK, SupervisePC
<1>5. ProcTypeOK
  BY DEF Init, ProcTypeOK, ProcState, WaiterState, WatcherState
<1>6. ExtTypeOK
  BY DEF Init, ExtTypeOK
<1> QED
  BY <1>1, <1>2, <1>3, <1>4, <1>5, <1>6 DEF TypeOK

LEMMA TypeNext == TypeOK /\ GoroutineOK /\ [Next]_vars => TypeOK'
<1> SUFFICES ASSUME TypeOK, GoroutineOK, [Next]_vars PROVE TypeOK'
  OBVIOUS
<1> USE Frames, BoundAssumption DEF TypeOK
<1>1. CASE Boot
  <2>1. MapTypeOK'
    BY <1>1 DEF Boot, scanInstalled, mapVars, MapTypeOK, FsTypeOK, RunTypeOK
  <2>2. RunTypeOK'
    BY <1>1 DEF Boot, scanInstalled, runVars, RunTypeOK, RescanPC, FsTypeOK
  <2> QED
    BY <1>1, <2>1, <2>2 DEF Boot
<1>2. CASE RescanTick
  <2>1. RunTypeOK'
    BY <1>2 DEF RescanTick, scanInstalled, runVars, RunTypeOK, RescanPC, FsTypeOK
  <2> QED
    BY <1>2, <2>1 DEF RescanTick
<1>3. CASE RescanError
  <2>1. RunTypeOK'
    BY <1>3 DEF RescanError, runVars, RunTypeOK, RescanPC
  <2> QED
    BY <1>3, <2>1 DEF RescanError
<1>4. CASE RescanKeep
  <2>1. RunTypeOK'
    BY <1>4 DEF RescanKeep, runVars, RunTypeOK, RescanPC, MapTypeOK
  <2> QED
    BY <1>4, <2>1 DEF RescanKeep
<1>5. CASE RescanAdopt
  <2>1. FsTypeOK'
    BY <1>5 DEF RescanAdopt, CancelOld, NoRecord, fsVars, FsTypeOK, MapTypeOK, RunTypeOK
  <2>2. MapTypeOK'
    BY <1>5, NoRecordType DEF RescanAdopt, CancelOld, mapVars, MapTypeOK, FsTypeOK, RunTypeOK
  <2>3. RunTypeOK'
    BY <1>5 DEF RescanAdopt, CancelOld, NoRecord, runVars, RunTypeOK, RescanPC, FsTypeOK, MapTypeOK
  <2>4. SuperTypeOK'
    BY <1>5 DEF RescanAdopt, CancelOld, NoRecord, superVars, SuperTypeOK, SupervisePC
  <2> QED
    BY <1>5, <2>1, <2>2, <2>3, <2>4 DEF RescanAdopt
<1>6. CASE RescanForGone
  <2>1. MapTypeOK'
    BY <1>6, NoRecordType DEF RescanForGone, CancelOld, mapVars, MapTypeOK, FsTypeOK, RunTypeOK
  <2>2. RunTypeOK'
    BY <1>6 DEF RescanForGone, CancelOld, NoRecord, runVars, RunTypeOK, RescanPC, FsTypeOK, MapTypeOK
  <2>3. SuperTypeOK'
    BY <1>6 DEF RescanForGone, CancelOld, NoRecord, superVars, SuperTypeOK, SupervisePC
  <2> QED
    BY <1>6, <2>1, <2>2, <2>3 DEF RescanForGone
<1>7. CASE RescanForResume
  <2>1. FsTypeOK'
    BY <1>7 DEF RescanForResume, NoRecord, fsVars, FsTypeOK, MapTypeOK, RunTypeOK
  <2>2. MapTypeOK'
    BY <1>7, NoRecordType DEF RescanForResume, mapVars, MapTypeOK, FsTypeOK, RunTypeOK
  <2>3. RunTypeOK'
    BY <1>7 DEF RescanForResume, NoRecord, runVars, RunTypeOK, RescanPC, FsTypeOK, MapTypeOK
  <2> QED
    BY <1>7, <2>1, <2>2, <2>3 DEF RescanForResume
<1>8. CASE RescanStop
  <2>1. RunTypeOK'
    BY <1>8 DEF RescanStop, runVars, RunTypeOK, RescanPC
  <2> QED
    BY <1>8, <2>1 DEF RescanStop
<1>9. CASE RunReturns
  <2>1. RunTypeOK'
    BY <1>9 DEF RunReturns, runVars, RunTypeOK, RescanPC
  <2> QED
    BY <1>9, <2>1 DEF RunReturns
<1>10. ASSUME NEW g \in Goroutines, StartOne(g) PROVE TypeOK'
  <2>1. MapTypeOK'
    BY <1>10 DEF StartOne, mapVars, MapTypeOK, RunTypeOK
  <2>2. RunTypeOK'
    BY <1>10 DEF StartOne, runVars, RunTypeOK, RescanPC
  <2>3. SuperTypeOK'
    BY <1>10 DEF StartOne, superVars, SuperTypeOK, SupervisePC, RunTypeOK
  <2> QED
    BY <1>10, <2>1, <2>2, <2>3 DEF StartOne
<1>11. ASSUME NEW g \in Goroutines, SuperviseBegin(g) PROVE TypeOK'
  <2>1. FsTypeOK'
    BY <1>11 DEF SuperviseBegin, At, fsVars, FsTypeOK
  <2>2. SuperTypeOK'
    BY <1>11 DEF SuperviseBegin, At, superVars, SuperTypeOK, SupervisePC
  <2> QED
    BY <1>11, <2>1, <2>2 DEF SuperviseBegin
<1>12. ASSUME NEW g \in Goroutines, SuperviseCancelled(g) PROVE TypeOK'
  <2>1. SuperTypeOK'
    BY <1>12 DEF SuperviseCancelled, superVars, SuperTypeOK, SupervisePC
  <2> QED
    BY <1>12, <2>1 DEF SuperviseCancelled
<1>13. ASSUME NEW g \in Goroutines, SuperviseVerified(g) PROVE TypeOK'
  <2>1. SuperTypeOK'
    BY <1>13 DEF SuperviseVerified, At, superVars, SuperTypeOK, SupervisePC
  <2> QED
    BY <1>13, <2>1 DEF SuperviseVerified
<1>14. ASSUME NEW g \in Goroutines, SuperviseVerifyFailed(g) PROVE TypeOK'
  <2>1. SuperTypeOK'
    BY <1>14 DEF SuperviseVerifyFailed, At, superVars, SuperTypeOK, SupervisePC, GoroutineOK
  <2> QED
    BY <1>14, <2>1 DEF SuperviseVerifyFailed
<1>15. ASSUME NEW g \in Goroutines, SuperviseCapMark(g) PROVE TypeOK'
  <2>1. FsTypeOK'
    BY <1>15 DEF SuperviseCapMark, At, fsVars, FsTypeOK
  <2>2. SuperTypeOK'
    BY <1>15 DEF SuperviseCapMark, At, superVars, SuperTypeOK, SupervisePC
  <2> QED
    BY <1>15, <2>1, <2>2 DEF SuperviseCapMark
<1>16. ASSUME NEW g \in Goroutines, SuperviseCapRecord(g) PROVE TypeOK'
  <2>1. MapTypeOK'
    BY <1>16 DEF SuperviseCapRecord, At, mapVars, MapTypeOK
  <2>2. SuperTypeOK'
    BY <1>16 DEF SuperviseCapRecord, At, superVars, SuperTypeOK, SupervisePC
  <2> QED
    BY <1>16, <2>1, <2>2 DEF SuperviseCapRecord
<1>17. ASSUME NEW g \in Goroutines, SpawnPrepare(g) PROVE TypeOK'
  <2>1. FsTypeOK'
    BY <1>17 DEF SpawnPrepare, At, fsVars, FsTypeOK
  <2>2. SuperTypeOK'
    BY <1>17 DEF SpawnPrepare, At, superVars, SuperTypeOK, SupervisePC
  <2>3. ProcTypeOK'
    BY <1>17 DEF SpawnPrepare, At, procVars, ProcTypeOK, ProcState, WaiterState, WatcherState
  <2>4. ExtTypeOK'
    BY <1>17 DEF SpawnPrepare, At, extVars, ExtTypeOK, EventKinds
  <2> QED
    BY <1>17, <2>1, <2>2, <2>3, <2>4 DEF SpawnPrepare
<1>18. ASSUME NEW g \in Goroutines, SpawnRefused(g) PROVE TypeOK'
  <2>1. SuperTypeOK'
    BY <1>18 DEF SpawnRefused, At, superVars, SuperTypeOK, SupervisePC
  <2> QED
    BY <1>18, <2>1 DEF SpawnRefused
<1>19. ASSUME NEW g \in Goroutines, SpawnStart(g) PROVE TypeOK'
  <2>1. SuperTypeOK'
    BY <1>19 DEF SpawnStart, At, superVars, SuperTypeOK, SupervisePC
  <2>2. ProcTypeOK'
    BY <1>19 DEF SpawnStart, At, procVars, ProcTypeOK, ProcState, WaiterState, WatcherState
  <2> QED
    BY <1>19, <2>1, <2>2 DEF SpawnStart
<1>20. ASSUME NEW g \in Goroutines, SpawnFailed(g) PROVE TypeOK'
  <2>1. SuperTypeOK'
    BY <1>20 DEF SpawnFailed, At, superVars, SuperTypeOK, SupervisePC
  <2> QED
    BY <1>20, <2>1 DEF SpawnFailed
<1>21. ASSUME NEW g \in Goroutines, SpawnReturns(g) PROVE TypeOK'
  <2>1. SuperTypeOK'
    BY <1>21 DEF SpawnReturns, At, superVars, SuperTypeOK, SupervisePC
  <2>2. ProcTypeOK'
    BY <1>21 DEF SpawnReturns, At, procVars, ProcTypeOK, ProcState, WaiterState, WatcherState
  <2> QED
    BY <1>21, <2>1, <2>2 DEF SpawnReturns
<1>22. ASSUME NEW g \in Goroutines, SuperviseNotReady(g) PROVE TypeOK'
  <2>1. MapTypeOK'
    BY <1>22 DEF SuperviseNotReady, At, mapVars, MapTypeOK
  <2>2. SuperTypeOK'
    BY <1>22 DEF SuperviseNotReady, At, superVars, SuperTypeOK, SupervisePC
  <2> QED
    BY <1>22, <2>1, <2>2 DEF SuperviseNotReady
<1>23. ASSUME NEW g \in Goroutines, SuperviseTakeReinstalled(g) PROVE TypeOK'
  <2>1. MapTypeOK'
    BY <1>23 DEF SuperviseTakeReinstalled, At, mapVars, MapTypeOK
  <2>2. SuperTypeOK'
    BY <1>23 DEF SuperviseTakeReinstalled, At, superVars, SuperTypeOK, SupervisePC
  <2> QED
    BY <1>23, <2>1, <2>2 DEF SuperviseTakeReinstalled
<1>24. ASSUME NEW g \in Goroutines, SuperviseCrashMark(g) PROVE TypeOK'
  <2>1. FsTypeOK'
    BY <1>24 DEF SuperviseCrashMark, At, fsVars, FsTypeOK
  <2>2. SuperTypeOK'
    BY <1>24 DEF SuperviseCrashMark, At, superVars, SuperTypeOK, SupervisePC
  <2> QED
    BY <1>24, <2>1, <2>2 DEF SuperviseCrashMark
<1>25. ASSUME NEW g \in Goroutines, SuperviseRetry(g) PROVE TypeOK'
  <2>1. SuperTypeOK'
    BY <1>25 DEF SuperviseRetry, superVars, SuperTypeOK, SupervisePC
  <2> QED
    BY <1>25, <2>1 DEF SuperviseRetry
<1>26. ASSUME NEW g \in Goroutines, NEW kept \in 0 .. crashes.n, SuperviseRecordCrash(g, kept) PROVE TypeOK'
  <2>1. MapTypeOK'
    BY <1>26 DEF SuperviseRecordCrash, At, RecordCrash, mapVars, MapTypeOK
  <2>2. SuperTypeOK'
    BY <1>26 DEF SuperviseRecordCrash, At, RecordCrash, superVars, SuperTypeOK, SupervisePC
  <2> QED
    BY <1>26, <2>1, <2>2 DEF SuperviseRecordCrash
<1>27. ASSUME NEW g \in Goroutines, ProcBind(g) PROVE TypeOK'
  <2>1. FsTypeOK'
    BY <1>27 DEF ProcBind, fsVars, FsTypeOK
  <2>2. ProcTypeOK'
    BY <1>27 DEF ProcBind, procVars, ProcTypeOK, ProcState, WaiterState, WatcherState
  <2> QED
    BY <1>27, <2>1, <2>2 DEF ProcBind
<1>28. ASSUME NEW g \in Goroutines, ProcExit(g) PROVE TypeOK'
  <2>1. FsTypeOK'
    BY <1>28 DEF ProcExit, fsVars, FsTypeOK
  <2>2. ProcTypeOK'
    BY <1>28 DEF ProcExit, procVars, ProcTypeOK, ProcState, WaiterState, WatcherState
  <2> QED
    BY <1>28, <2>1, <2>2 DEF ProcExit
<1>29. ASSUME NEW g \in Goroutines, WaitReadySee(g) PROVE TypeOK'
  <2>1. ProcTypeOK'
    BY <1>29 DEF WaitReadySee, procVars, ProcTypeOK, ProcState, WaiterState, WatcherState
  <2> QED
    BY <1>29, <2>1 DEF WaitReadySee
<1>30. ASSUME NEW g \in Goroutines, WaitReadyMark(g) PROVE TypeOK'
  <2>1. MapTypeOK'
    BY <1>30 DEF WaitReadyMark, mapVars, MapTypeOK
  <2>2. ProcTypeOK'
    BY <1>30 DEF WaitReadyMark, procVars, ProcTypeOK, ProcState, WaiterState, WatcherState
  <2> QED
    BY <1>30, <2>1, <2>2 DEF WaitReadyMark
<1>31. ASSUME NEW g \in Goroutines, WaitReadyEnd(g) PROVE TypeOK'
  <2>1. ProcTypeOK'
    BY <1>31 DEF WaitReadyEnd, procVars, ProcTypeOK, ProcState, WaiterState, WatcherState
  <2> QED
    BY <1>31, <2>1 DEF WaitReadyEnd
<1>32. ASSUME NEW g \in Goroutines, WatchSocketTick(g) PROVE TypeOK'
  <2>1. ProcTypeOK'
    BY <1>32 DEF WatchSocketTick, procVars, ProcTypeOK, ProcState, WaiterState, WatcherState
  <2> QED
    BY <1>32, <2>1 DEF WatchSocketTick
<1>33. ASSUME NEW g \in Goroutines, WatchSocketAct(g) PROVE TypeOK'
  <2>1. MapTypeOK'
    BY <1>33 DEF WatchSocketAct, mapVars, MapTypeOK
  <2>2. ProcTypeOK'
    BY <1>33 DEF WatchSocketAct, procVars, ProcTypeOK, ProcState, WaiterState, WatcherState
  <2> QED
    BY <1>33, <2>1, <2>2 DEF WatchSocketAct
<1>34. ASSUME NEW b \in Bundles, InstallMoveAway(b) PROVE TypeOK'
  <2>1. FsTypeOK'
    BY <1>34 DEF InstallMoveAway, Spend, DirGone, fsVars, FsTypeOK
  <2>2. ProcTypeOK'
    BY <1>34 DEF InstallMoveAway, Spend, DirGone, procVars, ProcTypeOK, ProcState, WaiterState, WatcherState
  <2>3. ExtTypeOK'
    BY <1>34 DEF InstallMoveAway, Spend, DirGone, extVars, ExtTypeOK, EventKinds
  <2> QED
    BY <1>34, <2>1, <2>2, <2>3 DEF InstallMoveAway, Spend, DirGone
<1>35. CASE InstallMoveIn
  <2>1. FsTypeOK'
    BY <1>35 DEF InstallMoveIn, fsVars, FsTypeOK
  <2> QED
    BY <1>35, <2>1 DEF InstallMoveIn
<1>36. CASE Uninstall
  <2>1. FsTypeOK'
    BY <1>36 DEF Uninstall, Spend, DirGone, fsVars, FsTypeOK
  <2>2. ProcTypeOK'
    BY <1>36 DEF Uninstall, Spend, DirGone, procVars, ProcTypeOK, ProcState, WaiterState, WatcherState
  <2>3. ExtTypeOK'
    BY <1>36 DEF Uninstall, Spend, DirGone, extVars, ExtTypeOK, EventKinds
  <2> QED
    BY <1>36, <2>1, <2>2, <2>3 DEF Uninstall, Spend, DirGone
<1>37. CASE DropResume
  <2>1. FsTypeOK'
    BY <1>37 DEF DropResume, Spend, fsVars, FsTypeOK
  <2>2. ExtTypeOK'
    BY <1>37 DEF DropResume, Spend, extVars, ExtTypeOK, EventKinds
  <2> QED
    BY <1>37, <2>1, <2>2 DEF DropResume, Spend
<1>38. CASE Stop
  <2>1. RunTypeOK'
    BY <1>38 DEF Stop, Spend, runVars, RunTypeOK, RescanPC
  <2>2. SuperTypeOK'
    BY <1>38 DEF Stop, Spend, superVars, SuperTypeOK, SupervisePC
  <2>3. ExtTypeOK'
    BY <1>38 DEF Stop, Spend, extVars, ExtTypeOK, EventKinds
  <2> QED
    BY <1>38, <2>1, <2>2, <2>3 DEF Stop, Spend
<1>39. CASE DaemonRestart
  <2>1. MapTypeOK'
    BY <1>39, NoRecordType DEF DaemonRestart, Spend, mapVars, MapTypeOK, RunTypeOK
  <2>2. RunTypeOK'
    BY <1>39 DEF DaemonRestart, Spend, NoRecord, runVars, RunTypeOK, RescanPC
  <2>3. SuperTypeOK'
    BY <1>39 DEF DaemonRestart, Spend, NoRecord, superVars, SuperTypeOK, SupervisePC
  <2>4. ProcTypeOK'
    BY <1>39 DEF DaemonRestart, Spend, NoRecord, procVars, ProcTypeOK, ProcState, WaiterState, WatcherState
  <2>5. ExtTypeOK'
    BY <1>39 DEF DaemonRestart, Spend, NoRecord, extVars, ExtTypeOK, EventKinds, GoroutineOK, Running, SuperTypeOK
  <2> QED
    BY <1>39, <2>1, <2>2, <2>3, <2>4, <2>5 DEF DaemonRestart, Spend
<1>40. ASSUME NEW p \in orphans, OrphanExit(p) PROVE TypeOK'
  <2>1. FsTypeOK'
    BY <1>40 DEF OrphanExit, fsVars, FsTypeOK
  <2>2. ExtTypeOK'
    BY <1>40 DEF OrphanExit, extVars, ExtTypeOK, EventKinds
  <2> QED
    BY <1>40, <2>1, <2>2 DEF OrphanExit
<1>41. CASE UNCHANGED vars
  BY <1>41 DEF vars
<1> QED
  BY <1>1, <1>2, <1>3, <1>4, <1>5, <1>6, <1>7, <1>8, <1>9, <1>10, <1>11, <1>12, <1>13, <1>14, <1>15, <1>16, <1>17, <1>18, <1>19, <1>20, <1>21, <1>22, <1>23, <1>24, <1>25, <1>26, <1>27, <1>28, <1>29, <1>30, <1>31, <1>32, <1>33, <1>34, <1>35, <1>36, <1>37, <1>38, <1>39, <1>40, <1>41 DEF Next, Rescan, Supervise, Beside, External, Finished

(* The parts of the invariant other than TypeOK, one lemma each.  Steps    *)
(* that leave a part's variables alone are taken together.                 *)
LEMMA GoroutineNext ==
  TypeOK /\ GoroutineOK /\ StartOK /\ CancelTable /\ [Next]_vars => GoroutineOK'
<1> SUFFICES ASSUME TypeOK, GoroutineOK, StartOK, CancelTable, [Next]_vars PROVE GoroutineOK'
  OBVIOUS
<1> USE DEF GoroutineOK, Running
<1>1. CASE UNCHANGED <<superVars, proc>>
  BY <1>1 DEF superVars
<1>2. CASE RescanAdopt \/ RescanForGone
  BY <1>2, GoroutineAssumption DEF RescanAdopt, RescanForGone, CancelOld, CancelTable, TypeOK, SuperTypeOK,
     procVars, superVars, MapTypeOK
<1>3. ASSUME NEW g \in Goroutines, StartOne(g) PROVE GoroutineOK'
  BY <1>3 DEF StartOne, StartOK, TypeOK, SuperTypeOK, procVars
<1>4. CASE Stop
  BY <1>4 DEF Stop, TypeOK, SuperTypeOK, procVars
<1>5. CASE DaemonRestart
  BY <1>5, BoundAssumption DEF DaemonRestart
<1>6. ASSUME NEW g \in Goroutines, Supervise(g) PROVE GoroutineOK'
  <2> USE DEF TypeOK, SuperTypeOK, ProcTypeOK, procVars, At
  <2>1. CASE SuperviseVerified(g)
    BY <2>1, BoundAssumption DEF SuperviseVerified
  <2>2. CASE SuperviseVerifyFailed(g)
    BY <2>2, BoundAssumption DEF SuperviseVerifyFailed
  <2>3. CASE SpawnPrepare(g)
    BY <2>3 DEF SpawnPrepare
  <2>4. CASE SpawnStart(g)
    BY <2>4 DEF SpawnStart
  <2>5. CASE SpawnReturns(g)
    BY <2>5 DEF SpawnReturns, Running
  <2>6. CASE SuperviseCancelled(g)
    BY <2>6 DEF SuperviseCancelled
  <2>7. CASE SuperviseRetry(g)
    BY <2>7 DEF SuperviseRetry
  <2>8. CASE SuperviseTakeReinstalled(g)
    BY <2>8 DEF SuperviseTakeReinstalled
  <2>9. ASSUME NEW kept \in 0 .. crashes.n, SuperviseRecordCrash(g, kept) PROVE GoroutineOK'
    BY <2>9 DEF SuperviseRecordCrash
  <2>10. CASE SuperviseBegin(g) \/ SuperviseNotReady(g)
    BY <2>10 DEF SuperviseBegin, SuperviseNotReady
  <2>11. CASE SpawnRefused(g) \/ SpawnFailed(g)
    BY <2>11 DEF SpawnRefused, SpawnFailed
  <2>12. CASE SuperviseCapMark(g) \/ SuperviseCapRecord(g) \/ SuperviseCrashMark(g)
    BY <2>12 DEF SuperviseCapMark, SuperviseCapRecord, SuperviseCrashMark
  <2> QED
    BY <1>6, <2>1, <2>2, <2>3, <2>4, <2>5, <2>6, <2>7, <2>8, <2>9, <2>10, <2>11, <2>12 DEF Supervise
<1>7. ASSUME NEW g \in Goroutines, ProcBind(g) \/ ProcExit(g) PROVE GoroutineOK'
  BY <1>7 DEF ProcBind, ProcExit, TypeOK, ProcTypeOK, superVars
<1>8. CASE Boot \/ RescanTick \/ RescanError \/ RescanKeep \/ RescanForResume \/ RescanStop \/ RunReturns
  BY <1>8, <1>1 DEF Boot, RescanTick, RescanError, RescanKeep, RescanForResume, RescanStop, RunReturns, procVars
<1>9. ASSUME NEW g \in Goroutines,
             \/ WaitReadySee(g) \/ WaitReadyMark(g) \/ WaitReadyEnd(g)
             \/ WatchSocketTick(g) \/ WatchSocketAct(g)
      PROVE GoroutineOK'
  BY <1>9, <1>1 DEF WaitReadySee, WaitReadyMark, WaitReadyEnd, WatchSocketTick, WatchSocketAct
<1>10. CASE InstallMoveIn \/ Uninstall \/ DropResume
  BY <1>10, <1>1 DEF InstallMoveIn, Uninstall, DropResume, procVars
<1>11. ASSUME NEW b \in Bundles, InstallMoveAway(b) PROVE GoroutineOK'
  BY <1>11, <1>1 DEF InstallMoveAway
<1>12. ASSUME NEW p \in orphans, OrphanExit(p) PROVE GoroutineOK'
  BY <1>12, <1>1 DEF OrphanExit, procVars
<1> QED
  BY <1>1, <1>2, <1>3, <1>4, <1>5, <1>6, <1>7, <1>8, <1>9, <1>10, <1>11, <1>12
     DEF Next, Rescan, Beside, External, Finished, vars, procVars

(* No step of superviseOne makes a goroutine unborn, revives one that is   *)
(* over, or touches what only the rescan goroutine writes.                 *)
LEMMA SuperviseFrame ==
  ASSUME NEW g \in Goroutines, TypeOK, Supervise(g)
  PROVE  /\ UNCHANGED <<installed, appCancel, bundle, cancelled, runVars, used>>
         /\ pc[g] \notin {"free", "done"} /\ pc'[g] # "free"
         /\ \A h \in Goroutines \ {g} : pc'[h] = pc[h]
<1> USE DEF TypeOK, SuperTypeOK, At, mapVars, extVars
<1>1. CASE SuperviseBegin(g) \/ SuperviseCancelled(g) \/ SuperviseVerified(g)
  BY <1>1 DEF SuperviseBegin, SuperviseCancelled, SuperviseVerified
<1>2. CASE SuperviseVerifyFailed(g) \/ SuperviseCapMark(g) \/ SuperviseCapRecord(g)
  BY <1>2 DEF SuperviseVerifyFailed, SuperviseCapMark, SuperviseCapRecord
<1>3. CASE SpawnPrepare(g) \/ SpawnRefused(g) \/ SpawnStart(g)
  BY <1>3 DEF SpawnPrepare, SpawnRefused, SpawnStart
<1>4. CASE SpawnFailed(g) \/ SpawnReturns(g) \/ SuperviseNotReady(g)
  BY <1>4 DEF SpawnFailed, SpawnReturns, SuperviseNotReady
<1>5. CASE SuperviseTakeReinstalled(g) \/ SuperviseCrashMark(g) \/ SuperviseRetry(g)
  BY <1>5 DEF SuperviseTakeReinstalled, SuperviseCrashMark, SuperviseRetry
<1>6. ASSUME NEW kept \in 0 .. crashes.n, SuperviseRecordCrash(g, kept)
      PROVE  /\ UNCHANGED <<installed, appCancel, bundle, cancelled, runVars, used>>
             /\ pc[g] \notin {"free", "done"} /\ pc'[g] # "free"
             /\ \A h \in Goroutines \ {g} : pc'[h] = pc[h]
  BY <1>6 DEF SuperviseRecordCrash
<1> QED
  BY <1>1, <1>2, <1>3, <1>4, <1>5, <1>6 DEF Supervise

LEMMA StartNext ==
  TypeOK /\ StartOK /\ CancelTable /\ [Next]_vars => StartOK'
<1> SUFFICES ASSUME TypeOK, StartOK, CancelTable, [Next]_vars PROVE StartOK'
  OBVIOUS
<1> USE GoroutineAssumption, BundleAssumption DEF StartOK
<1>1. CASE UNCHANGED <<installed, appCancel, runVars, resumeMarker, used>>
  BY <1>1 DEF runVars
<1>2. CASE Boot
  BY <1>2 DEF Boot, scanInstalled, TypeOK, FsTypeOK, fsVars, extVars
<1>3. CASE RescanAdopt
  BY <1>3 DEF RescanAdopt, Adoptable, CancelOld, CancelTable, TypeOK, RunTypeOK, MapTypeOK, extVars
<1>4. CASE RescanForResume
  BY <1>4 DEF RescanForResume, TypeOK, MapTypeOK, extVars
<1>5. CASE RescanForGone
  BY <1>5 DEF RescanForGone, fsVars, extVars
<1>6. CASE RescanTick \/ RescanError \/ RescanKeep
  BY <1>6 DEF RescanTick, RescanError, RescanKeep, fsVars, extVars
<1>7. CASE RescanStop \/ RunReturns
  BY <1>7 DEF RescanStop, RunReturns, fsVars, extVars
<1>8. ASSUME NEW g \in Goroutines, StartOne(g) PROVE StartOK'
  BY <1>8 DEF StartOne, fsVars, extVars
<1>9. ASSUME NEW g \in Goroutines, Supervise(g) PROVE StartOK'
  <2>1. UNCHANGED resumeMarker
    BY <1>9 DEF Supervise, SuperviseBegin, SuperviseCancelled, SuperviseVerified,
       SuperviseVerifyFailed, SuperviseCapMark, SuperviseCapRecord, SpawnPrepare, SpawnRefused,
       SpawnStart, SpawnFailed, SpawnReturns, SuperviseNotReady, SuperviseTakeReinstalled,
       SuperviseRecordCrash, SuperviseCrashMark, SuperviseRetry, fsVars
  <2> QED
    BY <1>1, <1>9, <2>1, SuperviseFrame
<1>10. ASSUME NEW g \in Goroutines, Beside(g) PROVE StartOK'
  BY <1>10, <1>1 DEF Beside, ProcBind, ProcExit, WaitReadySee, WaitReadyMark, WaitReadyEnd,
     WatchSocketTick, WatchSocketAct, fsVars, mapVars, extVars
<1>11. CASE Uninstall
  BY <1>11 DEF Uninstall, DirGone, mapVars, runVars
<1>12. ASSUME NEW b \in Bundles, InstallMoveAway(b) PROVE StartOK'
  BY <1>12 DEF InstallMoveAway, DirGone, mapVars, runVars
<1>13. CASE DropResume
  BY <1>13 DEF DropResume, Spend, EventKinds, TypeOK, ExtTypeOK, mapVars, runVars
<1>14. CASE InstallMoveIn
  BY <1>14, <1>1 DEF InstallMoveIn, mapVars, extVars
<1>15. CASE Stop
  BY <1>15 DEF Stop, Spend, EventKinds, TypeOK, ExtTypeOK, fsVars, mapVars
<1>16. CASE DaemonRestart
  BY <1>16 DEF DaemonRestart, Spend, EventKinds, TypeOK, ExtTypeOK, fsVars
<1>17. ASSUME NEW p \in orphans, OrphanExit(p) PROVE StartOK'
  BY <1>17, <1>1 DEF OrphanExit, mapVars
<1> QED
  BY <1>1, <1>2, <1>3, <1>4, <1>5, <1>6, <1>7, <1>8, <1>9, <1>10, <1>11, <1>12, <1>13, <1>14,
     <1>15, <1>16, <1>17 DEF Next, Rescan, External, Finished, vars, fsVars, mapVars, extVars

LEMMA CancelTableNext ==
  TypeOK /\ StartOK /\ CancelTable /\ [Next]_vars => CancelTable'
<1> SUFFICES ASSUME TypeOK, StartOK, CancelTable, [Next]_vars PROVE CancelTable'
  OBVIOUS
<1> USE GoroutineAssumption, BundleAssumption DEF CancelTable
<1>1. CASE UNCHANGED <<installed, appCancel, shutdown, superVars>>
  BY <1>1 DEF superVars
<1>2. CASE Boot
  BY <1>2 DEF Boot, StartOK
<1>3. CASE RescanAdopt
  BY <1>3 DEF RescanAdopt, CancelOld
<1>4. CASE RescanForResume
  BY <1>4 DEF RescanForResume, superVars
<1>5. CASE RescanForGone
  BY <1>5 DEF RescanForGone, CancelOld
<1>6. CASE RescanTick \/ RescanError \/ RescanKeep \/ RescanStop \/ RunReturns
  BY <1>6, <1>1 DEF RescanTick, RescanError, RescanKeep, RescanStop, RunReturns, mapVars
<1>7. ASSUME NEW g \in Goroutines, StartOne(g) PROVE CancelTable'
  BY <1>7 DEF StartOne, StartOK, TypeOK, SuperTypeOK
<1>8. ASSUME NEW g \in Goroutines, Supervise(g) PROVE CancelTable'
  BY <1>8, SuperviseFrame DEF TypeOK, MapTypeOK, runVars
<1>9. ASSUME NEW g \in Goroutines, Beside(g) PROVE CancelTable'
  BY <1>9, <1>1 DEF Beside, ProcBind, ProcExit, WaitReadySee, WaitReadyMark, WaitReadyEnd,
     WatchSocketTick, WatchSocketAct, mapVars, runVars
<1>10. CASE InstallMoveIn \/ Uninstall \/ DropResume
  BY <1>10, <1>1 DEF InstallMoveIn, Uninstall, DropResume, mapVars, runVars
<1>11. ASSUME NEW b \in Bundles, InstallMoveAway(b) PROVE CancelTable'
  BY <1>11, <1>1 DEF InstallMoveAway, mapVars, runVars
<1>12. CASE Stop
  BY <1>12 DEF Stop, mapVars
<1>13. CASE DaemonRestart
  BY <1>13 DEF DaemonRestart
<1>14. ASSUME NEW p \in orphans, OrphanExit(p) PROVE CancelTable'
  BY <1>14, <1>1 DEF OrphanExit, mapVars, runVars
<1> QED
  BY <1>1, <1>2, <1>3, <1>4, <1>5, <1>6, <1>7, <1>8, <1>9, <1>10, <1>11, <1>12, <1>13, <1>14
     DEF Next, Rescan, External, Finished, vars, mapVars, runVars

(* Goroutines become live in StartOne only, and uncancelled never again.   *)
LEMMA StrayNext ==
  TypeOK /\ GoroutineOK /\ StartOK /\ NoStraySupervisor /\ [Next]_vars => NoStraySupervisor'
<1> SUFFICES ASSUME TypeOK, GoroutineOK, StartOK, NoStraySupervisor, [Next]_vars
             PROVE NoStraySupervisor'
  OBVIOUS
<1> USE GoroutineAssumption DEF NoStraySupervisor, Live
<1>1. CASE UNCHANGED <<appCancel, superVars, used>>
  BY <1>1 DEF superVars
<1>2. CASE RescanAdopt \/ RescanForGone
  BY <1>2 DEF RescanAdopt, RescanForGone, CancelOld, TypeOK, SuperTypeOK, extVars
<1>3. CASE RescanForResume
  BY <1>3 DEF RescanForResume, StartOK, superVars, extVars
<1>4. ASSUME NEW g \in Goroutines, StartOne(g) PROVE NoStraySupervisor'
  BY <1>4 DEF StartOne, StartOK, TypeOK, SuperTypeOK, extVars
<1>5. CASE Boot \/ RescanTick \/ RescanError \/ RescanKeep \/ RescanStop \/ RunReturns
  BY <1>5, <1>1 DEF Boot, RescanTick, RescanError, RescanKeep, RescanStop, RunReturns, mapVars, extVars
<1>6. ASSUME NEW g \in Goroutines, Supervise(g) PROVE NoStraySupervisor'
  BY <1>6, SuperviseFrame
<1>7. ASSUME NEW g \in Goroutines, Beside(g) PROVE NoStraySupervisor'
  BY <1>7, <1>1 DEF Beside, ProcBind, ProcExit, WaitReadySee, WaitReadyMark, WaitReadyEnd,
     WatchSocketTick, WatchSocketAct, mapVars, extVars
<1>8. CASE InstallMoveIn
  BY <1>8, <1>1 DEF InstallMoveIn, mapVars, extVars
<1>9. ASSUME NEW b \in Bundles, InstallMoveAway(b) PROVE NoStraySupervisor'
  BY <1>9 DEF InstallMoveAway, Spend, EventKinds, TypeOK, ExtTypeOK, mapVars, superVars
<1>10. CASE Uninstall \/ DropResume
  BY <1>10 DEF Uninstall, DropResume, Spend, EventKinds, TypeOK, ExtTypeOK, mapVars, superVars
<1>11. CASE Stop
  BY <1>11 DEF Stop, Spend, EventKinds, TypeOK, ExtTypeOK, SuperTypeOK, mapVars
<1>12. CASE DaemonRestart
  BY <1>12 DEF DaemonRestart
<1>13. ASSUME NEW p \in orphans, OrphanExit(p) PROVE NoStraySupervisor'
  BY <1>13, <1>1 DEF OrphanExit, mapVars
<1> QED
  BY <1>1, <1>2, <1>3, <1>4, <1>5, <1>6, <1>7, <1>8, <1>9, <1>10, <1>11, <1>12, <1>13
     DEF Next, Rescan, External, Finished, vars, mapVars, extVars

(* The budget of `restart` requests never comes back.                      *)
LEMMA ResumeCounter == TypeOK /\ [Next]_vars /\ used'["resume"] = 0 => used["resume"] = 0
<1> SUFFICES ASSUME TypeOK, [Next]_vars, used'["resume"] = 0 PROVE used["resume"] = 0
  OBVIOUS
<1>1. ASSUME NEW k \in EventKinds, Spend(k) PROVE used["resume"] = 0
  BY <1>1 DEF Spend, EventKinds, TypeOK, ExtTypeOK
<1>2. ASSUME NEW g \in Goroutines, Supervise(g) PROVE used["resume"] = 0
  BY <1>2, SuperviseFrame
<1>3. CASE External
  BY <1>3, <1>1 DEF External, InstallMoveAway, InstallMoveIn, Uninstall, DropResume, Stop,
     DaemonRestart, OrphanExit, EventKinds, extVars
<1>4. CASE Rescan
  BY <1>4 DEF Rescan, Boot, RescanTick, RescanError, RescanKeep, RescanAdopt, RescanForGone,
     RescanForResume, RescanStop, RunReturns, StartOne, extVars
<1>5. ASSUME NEW g \in Goroutines, Beside(g) PROVE used["resume"] = 0
  BY <1>5 DEF Beside, ProcBind, ProcExit, WaitReadySee, WaitReadyMark, WaitReadyEnd,
     WatchSocketTick, WatchSocketAct, extVars
<1>6. CASE UNCHANGED vars
  BY <1>6 DEF vars, extVars
<1> QED
  BY <1>2, <1>3, <1>4, <1>5, <1>6 DEF Next, Finished

(* Steps after which no process, no orphan and no goroutine between        *)
(* reapStale and cmd.Start has appeared keep both process invariants.      *)
LEMMA ProcessFrame ==
  ASSUME TypeOK, GoroutineOK, ReapedOK, OneProcessPerBinary, [Next]_vars,
         orphans' \subseteq orphans,
         \A g \in Goroutines : proc'[g] # "none" => proc[g] # "none" /\ bundle'[g] = bundle[g],
         \A g \in Goroutines : pc'[g] = "start" /\ ~cancelled'[g] =>
             pc[g] = "start" /\ ~cancelled[g] /\ bundle'[g] = bundle[g]
  PROVE  ReapedOK' /\ OneProcessPerBinary'
  BY ResumeCounter DEF ReapedOK, OneProcessPerBinary, Instances, Running

LEMMA ProcessNext ==
  IInv /\ [Next]_vars => ReapedOK' /\ OneProcessPerBinary'
<1> SUFFICES ASSUME IInv, [Next]_vars PROVE ReapedOK' /\ OneProcessPerBinary'
  OBVIOUS
<1> USE DEF IInv
<1>1. CASE UNCHANGED <<proc, pc, bundle, cancelled, orphans>>
  BY <1>1, ProcessFrame
<1>2. ASSUME NEW g \in Goroutines, SpawnPrepare(g) PROVE ReapedOK' /\ OneProcessPerBinary'
  <2>1. \A h \in Goroutines : proc'[h] # "none" =>
          proc[h] # "none" /\ bundle[h].path # bundle[g].path
    BY <1>2 DEF SpawnPrepare, Instances, Running, TypeOK, ProcTypeOK
  <2>2. orphans' = orphans \ {bundle[g].path} /\ UNCHANGED <<bundle, cancelled, used>>
    BY <1>2 DEF SpawnPrepare
  <2>3. \A h \in Goroutines : pc'[h] = "start" => pc[h] = "start" \/ h = g
    BY <1>2 DEF SpawnPrepare, At, TypeOK, SuperTypeOK
  <2> QED
    BY <2>1, <2>2, <2>3 DEF ReapedOK, OneProcessPerBinary, Instances, Running
<1>3. ASSUME NEW g \in Goroutines, SpawnStart(g) PROVE ReapedOK' /\ OneProcessPerBinary'
  <2>1. /\ pc[g] = "start" /\ pc' = [pc EXCEPT ![g] = "run"]
        /\ ~cancelled[g] /\ proc' = [proc EXCEPT ![g] = "up"]
        /\ UNCHANGED <<bundle, cancelled, orphans, used>>
    BY <1>3 DEF SpawnStart, At, extVars
  <2>2. \A h \in Goroutines : pc'[h] = "start" => h # g /\ pc[h] = "start"
    BY <2>1 DEF TypeOK, SuperTypeOK
  <2>3. \A h \in Goroutines : used["resume"] = 0 /\ pc'[h] = "start" => cancelled[h]
    BY <2>1, <2>2 DEF NoStraySupervisor, Live
  <2>4. ReapedOK'
    BY <2>1, <2>3 DEF ReapedOK
  <2>5. \A h \in Goroutines : h # g => proc'[h] = proc[h]
    BY <2>1 DEF TypeOK, ProcTypeOK
  <2>6. proc'[g] # "none"
    BY <2>1 DEF TypeOK, ProcTypeOK
  <2>7. ASSUME used["resume"] = 0
        PROVE  bundle[g].path \notin orphans
               /\ \A h \in Goroutines : proc[h] # "none" => bundle[h].path # bundle[g].path
    BY <2>1, <2>7 DEF ReapedOK, Instances, Running
  <2> QED
    BY <2>1, <2>4, <2>5, <2>6, <2>7 DEF OneProcessPerBinary, Instances, Running
<1>4. ASSUME NEW g \in Goroutines, ProcBind(g) \/ ProcExit(g) PROVE ReapedOK' /\ OneProcessPerBinary'
  BY <1>4, ProcessFrame DEF ProcBind, ProcExit, Running, superVars, extVars, TypeOK, ProcTypeOK
<1>5. ASSUME NEW g \in Goroutines, Supervise(g), ~SpawnPrepare(g), ~SpawnStart(g)
      PROVE ReapedOK' /\ OneProcessPerBinary'
  <2>1. UNCHANGED <<proc, bundle, cancelled, orphans>>
    BY <1>5 DEF Supervise, SuperviseBegin, SuperviseCancelled, SuperviseVerified,
       SuperviseVerifyFailed, SuperviseCapMark, SuperviseCapRecord, SpawnRefused, SpawnFailed,
       SpawnReturns, SuperviseNotReady, SuperviseTakeReinstalled, SuperviseRecordCrash,
       SuperviseCrashMark, SuperviseRetry, procVars, extVars
  <2>2. pc'[g] # "start"
    BY <1>5 DEF Supervise, SuperviseBegin, SuperviseCancelled, SuperviseVerified,
       SuperviseVerifyFailed, SuperviseCapMark, SuperviseCapRecord, SpawnRefused, SpawnFailed,
       SpawnReturns, SuperviseNotReady, SuperviseTakeReinstalled, SuperviseRecordCrash,
       SuperviseCrashMark, SuperviseRetry, At, TypeOK, SuperTypeOK
  <2>3. \A h \in Goroutines : h # g => pc'[h] = pc[h]
    BY <1>5, SuperviseFrame
  <2> QED
    BY <2>1, <2>2, <2>3, ProcessFrame
<1>6. CASE Boot \/ RescanTick \/ RescanError \/ RescanKeep \/ RescanForResume \/ RescanStop \/ RunReturns
  BY <1>6, <1>1 DEF Boot, RescanTick, RescanError, RescanKeep, RescanForResume, RescanStop,
     RunReturns, superVars, procVars, extVars
<1>7. CASE RescanAdopt \/ RescanForGone \/ Stop
  <2>1. UNCHANGED <<proc, pc, bundle, orphans>>
    BY <1>7 DEF RescanAdopt, RescanForGone, Stop, procVars, extVars
  <2>2. \A g \in Goroutines : cancelled[g] => cancelled'[g]
    BY <1>7 DEF RescanAdopt, RescanForGone, Stop, CancelOld, TypeOK, SuperTypeOK
  <2> QED
    BY <2>1, <2>2, ProcessFrame
<1>8. ASSUME NEW g \in Goroutines, StartOne(g) PROVE ReapedOK' /\ OneProcessPerBinary'
  <2>1. /\ pc[g] = "free" /\ proc[g] = "none"
        /\ UNCHANGED <<proc, orphans>>
    BY <1>8 DEF StartOne, procVars, extVars, GoroutineOK, Running
  <2>2. /\ pc'[g] = "begin"
        /\ \A h \in Goroutines : h # g =>
             pc'[h] = pc[h] /\ bundle'[h] = bundle[h] /\ cancelled'[h] = cancelled[h]
    BY <1>8 DEF StartOne, TypeOK, SuperTypeOK
  <2> QED
    BY <2>1, <2>2, ProcessFrame
<1>9. ASSUME NEW g \in Goroutines,
             \/ WaitReadySee(g) \/ WaitReadyMark(g) \/ WaitReadyEnd(g)
             \/ WatchSocketTick(g) \/ WatchSocketAct(g)
      PROVE ReapedOK' /\ OneProcessPerBinary'
  BY <1>9, <1>1 DEF WaitReadySee, WaitReadyMark, WaitReadyEnd, WatchSocketTick, WatchSocketAct,
     superVars, extVars
<1>10. CASE InstallMoveIn \/ Uninstall \/ DropResume
  BY <1>10, <1>1 DEF InstallMoveIn, Uninstall, DropResume, superVars, procVars, extVars
<1>11. ASSUME NEW b \in Bundles, InstallMoveAway(b) PROVE ReapedOK' /\ OneProcessPerBinary'
  BY <1>11, <1>1 DEF InstallMoveAway, superVars
<1>12. CASE DaemonRestart
  <2>1. \A g \in Goroutines : proc'[g] = "none" /\ pc'[g] = "free"
    BY <1>12 DEF DaemonRestart
  <2> QED
    BY <2>1 DEF ReapedOK, OneProcessPerBinary, Running
<1>13. ASSUME NEW p \in orphans, OrphanExit(p) PROVE ReapedOK' /\ OneProcessPerBinary'
  BY <1>13, ProcessFrame DEF OrphanExit, superVars, procVars
<1> QED
  BY <1>1, <1>2, <1>3, <1>4, <1>5, <1>6, <1>7, <1>8, <1>9, <1>10, <1>11, <1>12, <1>13
     DEF Next, Rescan, Beside, External, Finished, vars, superVars, procVars, extVars

LEMMA VerdictNext == TypeOK /\ VerdictOK /\ [Next]_vars => VerdictOK'
<1> SUFFICES ASSUME TypeOK, VerdictOK, [Next]_vars PROVE VerdictOK'
  OBVIOUS
<1> USE DEF VerdictOK
<1>1. CASE Rescan
  BY <1>1 DEF Rescan, Boot, RescanTick, RescanError, RescanKeep, RescanAdopt, RescanForGone,
     RescanForResume, RescanStop, RunReturns, StartOne, scanInstalled, Adoptable, mapVars
<1>2. CASE UNCHANGED <<scan, installed>>
  BY <1>2
<1>3. ASSUME NEW g \in Goroutines, Supervise(g) PROVE VerdictOK'
  BY <1>2, <1>3, SuperviseFrame DEF runVars
<1>4. ASSUME NEW g \in Goroutines, Beside(g) PROVE VerdictOK'
  BY <1>2, <1>4 DEF Beside, ProcBind, ProcExit, WaitReadySee, WaitReadyMark, WaitReadyEnd,
     WatchSocketTick, WatchSocketAct, mapVars, runVars
<1>5. CASE External
  BY <1>2, <1>5 DEF External, InstallMoveAway, InstallMoveIn, Uninstall, DropResume, Stop,
     DaemonRestart, OrphanExit, mapVars, runVars
<1> QED
  BY <1>1, <1>2, <1>3, <1>4, <1>5 DEF Next, Finished, vars, mapVars, runVars

LEMMA DrainedNext ==
  TypeOK /\ GoroutineOK /\ DrainedOnExit /\ [Next]_vars => DrainedOnExit'
<1> SUFFICES ASSUME TypeOK, GoroutineOK, DrainedOnExit, [Next]_vars, rpc' = "exited"
             PROVE \A g \in Goroutines : ~Live(g)' /\ ~Running(g)'
  BY DEF DrainedOnExit
<1> USE DEF DrainedOnExit, Live, Running
<1>1. CASE UNCHANGED <<rpc, pc, proc>>
  BY <1>1
<1>2. CASE RunReturns
  BY <1>2 DEF RunReturns, GoroutineOK, superVars, procVars
<1>3. CASE \/ Boot \/ RescanTick \/ RescanError \/ RescanKeep \/ RescanAdopt
           \/ RescanForGone \/ RescanForResume \/ RescanStop
  BY <1>3 DEF Boot, RescanTick, RescanError, RescanKeep, RescanAdopt, RescanForGone,
     RescanForResume, RescanStop
<1>4. ASSUME NEW g \in Goroutines, StartOne(g) PROVE FALSE
  BY <1>4 DEF StartOne
<1>5. ASSUME NEW g \in Goroutines, Supervise(g) PROVE FALSE
  BY <1>5, SuperviseFrame DEF runVars
<1>6. ASSUME NEW g \in Goroutines, Beside(g)
      PROVE \A h \in Goroutines : ~Live(h)' /\ ~Running(h)'
  BY <1>6 DEF Beside, ProcBind, ProcExit, WaitReadySee, WaitReadyMark, WaitReadyEnd,
     WatchSocketTick, WatchSocketAct, superVars, procVars, runVars, TypeOK, ProcTypeOK
<1>7. CASE InstallMoveIn \/ Uninstall \/ DropResume \/ Stop
  BY <1>7, <1>1 DEF InstallMoveIn, Uninstall, DropResume, Stop, runVars, superVars, procVars
<1>8. ASSUME NEW b \in Bundles, InstallMoveAway(b)
      PROVE \A h \in Goroutines : ~Live(h)' /\ ~Running(h)'
  BY <1>8, <1>1 DEF InstallMoveAway, runVars, superVars
<1>9. CASE DaemonRestart
  BY <1>9 DEF DaemonRestart
<1>10. ASSUME NEW p \in orphans, OrphanExit(p)
       PROVE \A h \in Goroutines : ~Live(h)' /\ ~Running(h)'
  BY <1>10, <1>1 DEF OrphanExit, runVars, superVars, procVars
<1> QED
  BY <1>1, <1>2, <1>3, <1>4, <1>5, <1>6, <1>7, <1>8, <1>9, <1>10
     DEF Next, Rescan, External, Finished, vars, runVars, superVars, procVars

LEMMA InvInit == Init => IInv
<1> SUFFICES ASSUME Init PROVE IInv
  OBVIOUS
<1>1. GoroutineOK
  BY BoundAssumption DEF Init, GoroutineOK, Running
<1>2. StartOK /\ CancelTable /\ DrainedOnExit
  BY DEF Init, StartOK, CancelTable, DrainedOnExit
<1>3. VerdictOK
  BY DEF Init, VerdictOK
<1>4. ReapedOK /\ OneProcessPerBinary /\ NoStraySupervisor
  BY DEF Init, ReapedOK, OneProcessPerBinary, NoStraySupervisor, Live, Running
<1> QED
  BY <1>1, <1>2, <1>3, <1>4, TypeInit DEF IInv

LEMMA InvNext == IInv /\ [Next]_vars => IInv'
  BY TypeNext, GoroutineNext, StartNext, VerdictNext, CancelTableNext, StrayNext, ProcessNext,
     DrainedNext DEF IInv

(* The inductive invariant holds in every reachable state of the           *)
(* supervisor, for every number of goroutines, bundles and external events.*)
THEOREM InvariantHolds == Spec => []IInv
  BY InvInit, InvNext, PTL DEF Spec

(* Type correctness of the supervisor's maps, of the goroutines' program   *)
(* counters and of the install directory (supervisor.go, reap.go).         *)
THEOREM TypeCorrect == Spec => []TypeOK
<1>1. IInv => TypeOK
  BY DEF IInv
<1> QED
  BY <1>1, InvariantHolds, PTL

(* appCancel always holds the func of a goroutine started for the bundle   *)
(* that is installed now, and one not cancelled unless run() is stopping.  *)
THEOREM CancelTableHolds == Spec => []CancelTable
<1>1. IInv => CancelTable
  BY DEF IInv
<1> QED
  BY <1>1, InvariantHolds, PTL

(* Without `pilotctl appstore restart`, no supervise goroutine escapes the *)
(* cancel table of rescanForNew and rescanForGone.                         *)
THEOREM NoStraySupervisorHolds == Spec => []NoStraySupervisor
<1>1. IInv => NoStraySupervisor
  BY DEF IInv
<1> QED
  BY <1>1, InvariantHolds, PTL

(* Without `pilotctl appstore restart`, reapStale and the cancel table     *)
(* leave at most one process of a binary, orphans included.                *)
THEOREM OneProcessHolds == Spec => []OneProcessPerBinary
<1>1. IInv => OneProcessPerBinary
  BY DEF IInv
<1> QED
  BY <1>1, InvariantHolds, PTL

(* When run() has returned, nothing it started is left running.            *)
THEOREM DrainedHolds == Spec => []DrainedOnExit
<1>1. IInv => DrainedOnExit
  BY DEF IInv
<1> QED
  BY <1>1, InvariantHolds, PTL

-----------------------------------------------------------------------------
(* The refinement of AppTable.                                             *)

LEMMA TableQuiet ==
  ASSUME UNCHANGED <<installed, bundle, proc, orphans>>, used'["resume"] = used["resume"]
  PROVE  UNCHANGED Table!tableVars
<1>1. RunningPaths' = RunningPaths
  BY DEF RunningPaths, Running
<1> QED
  BY <1>1 DEF Table!tableVars

(* Budgets other than that of resumes are no part of the promise.          *)
LEMMA SpendQuiet ==
  ASSUME TypeOK, NEW k \in EventKinds, Spend(k), k # "resume"
  PROVE  used'["resume"] = used["resume"]
  BY DEF Spend, EventKinds, TypeOK, ExtTypeOK

(* cmd.Start is a Start of the bundle in the table: the goroutine is the   *)
(* one in appCancel, which was started for it, and reapStale has left no   *)
(* process of the binary.                                                  *)
LEMMA SpawnStartStep ==
  ASSUME IInv, NEW g \in Goroutines, SpawnStart(g)
  PROVE  Table!Next
<1>1. /\ pc[g] = "start" /\ ~cancelled[g] /\ proc' = [proc EXCEPT ![g] = "up"]
      /\ UNCHANGED <<installed, bundle, orphans, used>>
  BY DEF SpawnStart, At, mapVars, extVars
<1>2. bundle[g] \in Bundles /\ ~Running(g)
  BY <1>1 DEF IInv, GoroutineOK
<1>3. RunningPaths' = RunningPaths \union {bundle[g].path}
  <2>1. \A h \in Goroutines : proc'[h] # "none" <=> proc[h] # "none" \/ h = g
    BY <1>1 DEF IInv, TypeOK, ProcTypeOK
  <2> QED
    BY <1>1, <2>1 DEF RunningPaths, Running
<1>4. ASSUME ~(used["resume"] > 0) PROVE bundle[g] = installed /\ bundle[g].path \notin RunningPaths
  <2>1. used["resume"] = 0
    BY <1>4 DEF IInv, TypeOK, ExtTypeOK, EventKinds
  <2>2. g = appCancel
    BY <1>1, <2>1 DEF IInv, NoStraySupervisor, Live
  <2>3. bundle[g] = installed
    BY <2>2, GoroutineAssumption DEF IInv, CancelTable
  <2>4. bundle[g].path \notin orphans /\ Instances(bundle[g]) = {}
    BY <1>1, <2>1 DEF IInv, ReapedOK
  <2> QED
    BY <2>3, <2>4 DEF RunningPaths, Instances
<1>5. Table!Start(bundle[g])
  BY <1>1, <1>3, <1>4 DEF Table!Start
<1> QED
  BY <1>2, <1>5 DEF Table!Next

(* The end of one process is an Exit of its binary; with two of the same   *)
(* binary, after a resume, it changes nothing yet.                         *)
LEMMA ExitStep ==
  ASSUME TypeOK, UNCHANGED <<installed, bundle, used>>,
         NEW p, RunningPaths' = RunningPaths \/ RunningPaths' = RunningPaths \ {p}
  PROVE  [Table!Next]_(Table!tableVars)
<1>1. CASE RunningPaths' = RunningPaths
  BY <1>1 DEF Table!tableVars
<1>2. CASE RunningPaths' = RunningPaths \ {p} /\ p \in RunningPaths
  <2>1. Table!Exit(p)
    BY <1>2 DEF Table!Exit
  <2> QED
    BY <1>2, <2>1 DEF Table!Next
<1> QED
  BY <1>1, <1>2

(* rescanForNew adopts a checked bundle that is not older.                 *)
LEMMA AdoptStep ==
  ASSUME IInv, UNCHANGED <<bundle, proc, orphans, used>>, NEW b \in Bundles, b.ok,
         installed' = b, Adoptable(b, installed)
  PROVE  Table!Next
<1>1. RunningPaths' = RunningPaths
  BY DEF RunningPaths, Running
<1>2. installed # NoBundle => b.ver >= installed.ver /\ b # installed
  BY BundleAssumption DEF Adoptable, SameBuild, Downgrade, IInv, TypeOK, MapTypeOK
<1>3. Table!Adopt(b)
  BY <1>1, <1>2 DEF Table!Adopt
<1> QED
  BY <1>3 DEF Table!Next

LEMMA TableNext == IInv /\ [Next]_vars => [Table!Next]_(Table!tableVars)
<1> SUFFICES ASSUME IInv, [Next]_vars PROVE [Table!Next]_(Table!tableVars)
  OBVIOUS
<1>1. TypeOK
  BY DEF IInv
<1>2. CASE Boot
  <2>1. UNCHANGED <<bundle, proc, orphans, used>>
    BY <1>2 DEF Boot, superVars, procVars, extVars
  <2>2. CASE scanInstalled = NoBundle
    <3>1. RunningPaths' = RunningPaths /\ installed' = NoBundle
      BY <1>2, <2>1, <2>2 DEF Boot, RunningPaths, Running
    <3>2. Table!Drop
      BY <2>1, <3>1 DEF Table!Drop
    <3> QED
      BY <3>2 DEF Table!Next
  <2>3. CASE scanInstalled # NoBundle /\ installed = NoBundle
    <3>1. scanInstalled \in Bundles /\ scanInstalled.ok /\ installed' = scanInstalled
      BY <1>1, <1>2, <2>3 DEF Boot, scanInstalled, TypeOK, FsTypeOK
    <3>2. Adoptable(scanInstalled, installed)
      BY <2>3 DEF Adoptable
    <3> QED
      BY <2>1, <3>1, <3>2, AdoptStep
  <2>4. installed = NoBundle
    BY <1>2 DEF IInv, StartOK, Boot
  <2> QED
    BY <2>2, <2>3, <2>4
<1>3. CASE RescanAdopt
  <2>1. UNCHANGED <<bundle, proc, orphans, used>> /\ installed' = scan /\ Adoptable(scan, installed)
    BY <1>3 DEF RescanAdopt, procVars, extVars
  <2>2. scan \in Bundles /\ scan.ok
    BY <1>1, <2>1 DEF IInv, VerdictOK, TypeOK, RunTypeOK, Adoptable
  <2> QED
    BY <2>1, <2>2, AdoptStep
<1>4. CASE RescanForGone
  <2>1. UNCHANGED <<bundle, proc, orphans, used>> /\ (installed' = installed \/ installed' = NoBundle)
    BY <1>4 DEF RescanForGone, procVars, extVars
  <2>2. RunningPaths' = RunningPaths
    BY <2>1 DEF RunningPaths, Running
  <2>3. CASE installed' = NoBundle
    BY <2>1, <2>2, <2>3 DEF Table!Drop, Table!Next
  <2>4. CASE installed' = installed
    BY <2>1, <2>2, <2>4 DEF Table!tableVars
  <2> QED
    BY <2>1, <2>3, <2>4
<1>5. CASE RescanTick \/ RescanError \/ RescanKeep \/ RescanForResume \/ RescanStop \/ RunReturns
  BY <1>5, TableQuiet DEF RescanTick, RescanError, RescanKeep, RescanForResume, RescanStop,
     RunReturns, mapVars, superVars, procVars, extVars
<1>6. ASSUME NEW g \in Goroutines, StartOne(g) PROVE [Table!Next]_(Table!tableVars)
  <2>1. ~Running(g) /\ UNCHANGED <<installed, proc, orphans, used>>
    BY <1>6 DEF StartOne, IInv, GoroutineOK, procVars, extVars
  <2>2. \A h \in Goroutines : Running(h) => bundle'[h] = bundle[h]
    BY <1>1, <1>6, <2>1 DEF StartOne, TypeOK, SuperTypeOK
  <2>3. RunningPaths' = RunningPaths
    BY <2>1, <2>2 DEF RunningPaths, Running
  <2> QED
    BY <2>1, <2>3 DEF Table!tableVars
<1>7. ASSUME NEW g \in Goroutines, SpawnPrepare(g) PROVE [Table!Next]_(Table!tableVars)
  <2>1. UNCHANGED <<installed, bundle, used>> /\ orphans' = orphans \ {bundle[g].path}
    BY <1>7 DEF SpawnPrepare, mapVars
  <2>2. \A h \in Goroutines : proc'[h] # "none" <=> proc[h] # "none" /\ bundle[h].path # bundle[g].path
    BY <1>7 DEF SpawnPrepare, Instances, Running
  <2>3. RunningPaths' = RunningPaths \ {bundle[g].path}
    BY <2>1, <2>2 DEF RunningPaths, Running
  <2> QED
    BY <1>1, <2>1, <2>3, ExitStep
<1>8. ASSUME NEW g \in Goroutines, SpawnStart(g) PROVE [Table!Next]_(Table!tableVars)
  BY <1>8, SpawnStartStep
<1>9. ASSUME NEW g \in Goroutines, Supervise(g), ~SpawnPrepare(g), ~SpawnStart(g)
      PROVE  [Table!Next]_(Table!tableVars)
  <2>1. UNCHANGED <<installed, bundle, used>>
    BY <1>1, <1>9, SuperviseFrame
  <2>2. UNCHANGED <<proc, orphans>>
    BY <1>9 DEF Supervise, SuperviseBegin, SuperviseCancelled, SuperviseVerified,
       SuperviseVerifyFailed, SuperviseCapMark, SuperviseCapRecord, SpawnRefused, SpawnFailed,
       SpawnReturns, SuperviseNotReady, SuperviseTakeReinstalled, SuperviseRecordCrash,
       SuperviseCrashMark, SuperviseRetry, procVars, extVars
  <2> QED
    BY <2>1, <2>2, TableQuiet
<1>10. ASSUME NEW g \in Goroutines, ProcExit(g) PROVE [Table!Next]_(Table!tableVars)
  <2>1. UNCHANGED <<installed, bundle, orphans, used>> /\ proc' = [proc EXCEPT ![g] = "none"]
    BY <1>10 DEF ProcExit, mapVars, superVars, extVars
  <2>2. \A h \in Goroutines : proc'[h] # "none" <=> proc[h] # "none" /\ h # g
    BY <1>1, <2>1 DEF TypeOK, ProcTypeOK
  <2>3. RunningPaths' = RunningPaths \/ RunningPaths' = RunningPaths \ {bundle[g].path}
    BY <2>1, <2>2 DEF RunningPaths, Running
  <2> QED
    BY <1>1, <2>1, <2>3, ExitStep
<1>11. ASSUME NEW g \in Goroutines, ProcBind(g) PROVE [Table!Next]_(Table!tableVars)
  <2>1. UNCHANGED <<installed, bundle, orphans, used>>
    BY <1>11 DEF ProcBind, mapVars, superVars, extVars
  <2>2. \A h \in Goroutines : proc'[h] # "none" <=> proc[h] # "none"
    BY <1>1, <1>11 DEF ProcBind, TypeOK, ProcTypeOK
  <2>3. RunningPaths' = RunningPaths
    BY <2>1, <2>2 DEF RunningPaths, Running
  <2> QED
    BY <2>1, <2>3 DEF Table!tableVars
<1>12. ASSUME NEW g \in Goroutines,
              \/ WaitReadySee(g) \/ WaitReadyMark(g) \/ WaitReadyEnd(g)
              \/ WatchSocketTick(g) \/ WatchSocketAct(g)
       PROVE  [Table!Next]_(Table!tableVars)
  BY <1>12, TableQuiet DEF WaitReadySee, WaitReadyMark, WaitReadyEnd, WatchSocketTick,
     WatchSocketAct, mapVars, superVars, extVars
<1>13. ASSUME NEW p \in orphans, OrphanExit(p) PROVE [Table!Next]_(Table!tableVars)
  <2>1. UNCHANGED <<installed, bundle, proc, used>> /\ orphans' = orphans \ {p}
    BY <1>13 DEF OrphanExit, mapVars, superVars, procVars
  <2>2. RunningPaths' = RunningPaths \/ RunningPaths' = RunningPaths \ {p}
    BY <2>1 DEF RunningPaths, Running
  <2> QED
    BY <1>1, <2>1, <2>2, ExitStep
<1>14. CASE InstallMoveIn \/ Uninstall \/ Stop
  <2>1. UNCHANGED <<installed, bundle, proc, orphans>>
    BY <1>14 DEF InstallMoveIn, Uninstall, Stop, mapVars, superVars, procVars, extVars
  <2>2. used'["resume"] = used["resume"]
    BY <1>1, <1>14, SpendQuiet DEF InstallMoveIn, Uninstall, Stop, EventKinds, extVars
  <2> QED
    BY <2>1, <2>2, TableQuiet
<1>15. ASSUME NEW b \in Bundles, InstallMoveAway(b) PROVE [Table!Next]_(Table!tableVars)
  <2>1. UNCHANGED <<installed, bundle, proc, orphans>>
    BY <1>15 DEF InstallMoveAway, mapVars, superVars
  <2>2. used'["resume"] = used["resume"]
    BY <1>1, <1>15, SpendQuiet DEF InstallMoveAway, EventKinds
  <2> QED
    BY <2>1, <2>2, TableQuiet
<1>16. CASE DropResume
  <2>1. UNCHANGED <<installed, bundle, proc, orphans>>
    BY <1>16 DEF DropResume, mapVars, superVars, procVars
  <2>2. RunningPaths' = RunningPaths
    BY <2>1 DEF RunningPaths, Running
  <2>3. used'["resume"] > 0
    BY <1>1, <1>16 DEF DropResume, Spend, EventKinds, TypeOK, ExtTypeOK
  <2>4. Table!Resume
    BY <2>1, <2>2, <2>3 DEF Table!Resume
  <2> QED
    BY <2>4 DEF Table!Next
<1>17. CASE DaemonRestart
  <2>1. installed' = NoBundle
    BY <1>17 DEF DaemonRestart
  <2>2. used'["resume"] = used["resume"]
    BY <1>1, <1>17, SpendQuiet DEF DaemonRestart, EventKinds
  <2>3. /\ orphans' = RunningPaths
        /\ \A g \in Goroutines : proc'[g] = "none"
    BY <1>17 DEF DaemonRestart, RunningPaths
  <2>4. RunningPaths' = RunningPaths
    BY <2>3 DEF RunningPaths, Running
  <2>5. Table!Drop
    BY <2>1, <2>2, <2>4 DEF Table!Drop
  <2> QED
    BY <2>5 DEF Table!Next
<1>18. CASE UNCHANGED vars
  BY <1>18, TableQuiet DEF vars, mapVars, superVars, procVars, extVars
<1> QED
  BY <1>2, <1>3, <1>4, <1>5, <1>6, <1>7, <1>8, <1>9, <1>10, <1>11, <1>12, <1>13, <1>14, <1>15,
     <1>16, <1>17, <1>18 DEF Next, Rescan, Beside, External, Finished

(* The supervisor implements AppTable: spawn starts only the bundle in the *)
(* installed table, on a binary no process runs, and rescanForNew never    *)
(* takes the table back to an older bundle or to an unchecked one.         *)
THEOREM ImplementsTable == Spec => TableKept
<1>1. Init => Table!Init
  <2> SUFFICES ASSUME Init PROVE Table!Init
    OBVIOUS
  <2>1. RunningPaths = {}
    BY DEF Init, RunningPaths, Running
  <2>2. installed = NoBundle /\ used["resume"] = 0
    BY DEF Init, EventKinds
  <2> QED
    BY <2>1, <2>2 DEF Table!Init
<1> QED
  BY <1>1, TableNext, InvariantHolds, PTL DEF Spec, TableKept, Table!Spec

-----------------------------------------------------------------------------
(* The order behind the downgrade protection, for all versions: what lets  *)
(* Supervisor number them.                                                 *)

(* What a version is compared by, part by part.                            *)
Last(a) == IF a.pre = 0 THEN 1 ELSE 0

Precedes(a, b) ==
    LET A(i) == AtoiOrZero(a.parts[i])
        B(i) == AtoiOrZero(b.parts[i])
    IN  \/ A(0) < B(0)
        \/ A(0) = B(0) /\ A(1) < B(1)
        \/ A(0) = B(0) /\ A(1) = B(1) /\ A(2) < B(2)
        \/ /\ A(0) = B(0) /\ A(1) = B(1) /\ A(2) = B(2)
           /\ \/ Last(a) < Last(b)
              \/ Last(a) = Last(b) /\ a.pre < b.pre

LEMMA KeyTypes ==
    ASSUME NEW a \in Versions, MaxInt \in Nat
    PROVE  /\ AtoiOrZero(a.parts[0]) \in Nat
           /\ AtoiOrZero(a.parts[1]) \in Nat
           /\ AtoiOrZero(a.parts[2]) \in Nat
           /\ a.pre \in Nat /\ Last(a) \in Nat
  BY DEF Versions, AtoiOrZero, Last

(* The chain of ifs of compareVersions is a lexicographic order.           *)
LEMMA OlderByParts ==
    ASSUME NEW a \in Versions, NEW b \in Versions, MaxInt \in Nat
    PROVE  Older(a, b) <=> Precedes(a, b)
  <1> DEFINE A(i) == AtoiOrZero(a.parts[i])
  <1> DEFINE B(i) == AtoiOrZero(b.parts[i])
  <1>1. a.pre \in Nat /\ b.pre \in Nat
    BY KeyTypes
  <1>2. A(0) \in Nat /\ A(1) \in Nat /\ A(2) \in Nat /\ B(0) \in Nat /\ B(1) \in Nat /\ B(2) \in Nat
    BY KeyTypes
  <1>3. CompareNumericParts(a.parts, b.parts) =
          IF Sign(A(0), B(0)) # 0 THEN Sign(A(0), B(0))
          ELSE IF Sign(A(1), B(1)) # 0 THEN Sign(A(1), B(1)) ELSE Sign(A(2), B(2))
    BY DEF CompareNumericParts
  <1> HIDE DEF A, B
  <1>4. QED
    BY <1>1, <1>2, <1>3 DEF A, B, Older, CompareVersions, Sign, Last, Precedes

(* Downgrade protection holds over any number of upgrades: if each of two  *)
(* replacements was accepted because the new version is not older, the     *)
(* last version is not older than the first.                               *)
THEOREM NoRollback ==
    ASSUME NEW a \in Versions, NEW b \in Versions, NEW c \in Versions, MaxInt \in Nat,
           ~Older(b, a), ~Older(c, b)
    PROVE  ~Older(c, a)
  <1>1. ~Precedes(b, a) /\ ~Precedes(c, b)
    BY OlderByParts
  <1> DEFINE P(v, i) == AtoiOrZero(v.parts[i])
  <1>2. /\ P(a, 0) \in Nat /\ P(a, 1) \in Nat /\ P(a, 2) \in Nat /\ a.pre \in Nat /\ Last(a) \in Nat
        /\ P(b, 0) \in Nat /\ P(b, 1) \in Nat /\ P(b, 2) \in Nat /\ b.pre \in Nat /\ Last(b) \in Nat
        /\ P(c, 0) \in Nat /\ P(c, 1) \in Nat /\ P(c, 2) \in Nat /\ c.pre \in Nat /\ Last(c) \in Nat
    BY KeyTypes
  <1>3. ~Precedes(c, a)
    BY <1>1, <1>2 DEF Precedes
  <1>4. QED
    BY <1>3, OlderByParts

(* Of two versions at most one is older than the other: the refusal of a   *)
(* downgrade never stands in the way of going back up.                     *)
THEOREM OneWay ==
    ASSUME NEW a \in Versions, NEW b \in Versions, MaxInt \in Nat, Older(a, b)
    PROVE  ~Older(b, a)
  <1>1. Precedes(a, b)
    BY OlderByParts
  <1> DEFINE P(v, i) == AtoiOrZero(v.parts[i])
  <1>2. /\ P(a, 0) \in Nat /\ P(a, 1) \in Nat /\ P(a, 2) \in Nat /\ a.pre \in Nat /\ Last(a) \in Nat
        /\ P(b, 0) \in Nat /\ P(b, 1) \in Nat /\ P(b, 2) \in Nat /\ b.pre \in Nat /\ Last(b) \in Nat
    BY KeyTypes
  <1>3. ~Precedes(b, a)
    BY <1>1, <1>2 DEF Precedes
  <1>4. QED
    BY <1>3, OlderByParts
=============================================================================
