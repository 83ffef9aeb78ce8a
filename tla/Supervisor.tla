----------------------------- MODULE Supervisor -----------------------------
(***************************************************************************)
(* The lifecycle half of plugin/appstore/supervisor.go, with the process   *)
(* handling of reap.go: one installed app, the rescan goroutine that       *)
(* adopts, replaces, drops and resumes it, the supervise goroutines that   *)
(* spawn its process, and the waitReady and watchSocket goroutines beside  *)
(* each process.  Every map of the supervisor is keyed by the app id and   *)
(* no step reads the entry of a second app, so one app stands for all.     *)
(*                                                                         *)
(* The daemon can be killed between any two steps.  pilotctl and the app's *)
(* own process are external: they change the install directory and the     *)
(* socket whenever they like, within one of the budgets in Limits.         *)
(***************************************************************************)
EXTENDS Integers, FiniteSets

CONSTANTS
    Goroutines,      \* identities of superviseOne goroutines
    NoG,             \* "no goroutine", not a member of Goroutines
    Bundles,         \* the bundles pilotctl may install: [ver, sha, path, ok]
    NoBundle,        \* "no bundle", not a member of Bundles
    MaxVerifyFails,  \* maxVerifyFails: 10 in the code
    MaxCrashes,      \* maxCrashesInWindow: 5 in the code
    Limits           \* bounds on the external events, by EventKinds: what
                     \* happens in a behaviour stays within one of them

EventKinds == {"install", "uninstall", "resume", "down", "stop"}

ASSUME GoroutineAssumption == NoG \notin Goroutines
ASSUME BundleAssumption ==
    /\ NoBundle \notin Bundles
    /\ \A b \in Bundles : b.ver \in Nat /\ b.ok \in BOOLEAN
ASSUME BoundAssumption ==
    /\ MaxVerifyFails \in Nat \ {0}
    /\ MaxCrashes \in Nat
    /\ Limits \subseteq [EventKinds -> Nat]

VARIABLES
    (* the install directory, <InstallRoot>/<id> *)
    disk,            \* the bundle under that name, or NoBundle
    staged,          \* <id>.staging while pilotctl swaps it in, or NoBundle
    suspendedMarker, \* the .suspended sentinel is there
    resumeMarker,    \* the .resume sentinel is there
    socket,          \* app.sock is there
    (* the supervisor's maps, at this app's key *)
    installed,       \* installed[id], or NoBundle
    ready,           \* ready[id]
    crashes,         \* crashes[id] as [n, suspended]; NoRecord when absent
    appCancel,       \* the goroutine appCancel[id] would cancel, or NoG
    reinstalled,     \* reinstalled[id]
    (* run(): the rescan goroutine *)
    rpc,             \* where it is
    scan,            \* what scanInstalled returned to rescanForNew
    fresh,           \* the app whose goroutine is to be started
    shutdown,        \* the context of run() is cancelled
    (* superviseOne(): one entry per goroutine *)
    pc,              \* where it is
    bundle,          \* its argument a
    cancelled,       \* its context is cancelled
    verifyFails,     \* consecutive verifyBinary failures
    proc,            \* its child process
    waiter,          \* the waitReady goroutine of its latest process
    watcher,         \* the watchSocket goroutine of its latest process
    moved,           \* the install dir was replaced since that process started
    (* outside the daemon *)
    orphans,         \* binary paths of processes a killed daemon left behind
    used             \* external events so far, by kind

fsVars    == <<disk, staged, suspendedMarker, resumeMarker, socket>>
mapVars   == <<installed, ready, crashes, appCancel, reinstalled>>
runVars   == <<rpc, scan, fresh, shutdown>>
superVars == <<pc, bundle, cancelled, verifyFails>>
procVars  == <<proc, waiter, watcher, moved>>
extVars   == <<orphans, used>>
vars == <<fsVars, mapVars, runVars, superVars, procVars, extVars>>

NoRecord == [n |-> 0, suspended |-> FALSE]

RescanPC == {"boot", "startBoot", "idle", "new", "startNew", "gone", "resume",
             "startResume", "stopped", "exited"}
SupervisePC == {"free", "begin", "top", "verifyWait", "capMark", "capRecord",
                "spawn", "start", "run", "notReady", "exited", "crash",
                "crashMark", "reinstallWait", "backoff", "done"}
ProcState    == {"none", "up", "bound"}
WaiterState  == {"off", "poll", "seen"}
WatcherState == {"off", "wait", "armed", "swap", "lost"}

FsTypeOK ==
    /\ disk \in Bundles \union {NoBundle}
    /\ staged \in Bundles \union {NoBundle}
    /\ suspendedMarker \in BOOLEAN
    /\ resumeMarker \in BOOLEAN
    /\ socket \in BOOLEAN

MapTypeOK ==
    /\ installed \in Bundles \union {NoBundle}
    /\ ready \in BOOLEAN
    /\ crashes \in [n : Nat, suspended : BOOLEAN]
    /\ appCancel \in Goroutines \union {NoG}
    /\ reinstalled \in BOOLEAN

RunTypeOK ==
    /\ rpc \in RescanPC
    /\ scan \in Bundles \union {NoBundle}
    /\ fresh \in Bundles \union {NoBundle}
    /\ shutdown \in BOOLEAN

SuperTypeOK ==
    /\ pc \in [Goroutines -> SupervisePC]
    /\ bundle \in [Goroutines -> Bundles \union {NoBundle}]
    /\ cancelled \in [Goroutines -> BOOLEAN]
    /\ verifyFails \in [Goroutines -> 0 .. MaxVerifyFails]

ProcTypeOK ==
    /\ proc \in [Goroutines -> ProcState]
    /\ waiter \in [Goroutines -> WaiterState]
    /\ watcher \in [Goroutines -> WatcherState]
    /\ moved \in [Goroutines -> BOOLEAN]

ExtTypeOK ==
    /\ orphans \subseteq {b.path : b \in Bundles}
    /\ used \in [EventKinds -> Nat]

TypeOK == FsTypeOK /\ MapTypeOK /\ RunTypeOK /\ SuperTypeOK /\ ProcTypeOK /\ ExtTypeOK

Running(g) == proc[g] # "none"
Live(g) == pc[g] \notin {"free", "done"}

(* The state newSupervisor builds: empty maps and no goroutine. *)
Init ==
    /\ disk \in Bundles \union {NoBundle}
    /\ staged = NoBundle
    /\ suspendedMarker \in (IF disk = NoBundle THEN {FALSE} ELSE BOOLEAN)
    /\ resumeMarker = FALSE
    /\ socket = FALSE
    /\ installed = NoBundle /\ ready = FALSE /\ crashes = NoRecord
    /\ appCancel = NoG /\ reinstalled = FALSE
    /\ rpc = "boot" /\ scan = NoBundle /\ fresh = NoBundle /\ shutdown = FALSE
    /\ pc = [g \in Goroutines |-> "free"]
    /\ bundle = [g \in Goroutines |-> NoBundle]
    /\ cancelled = [g \in Goroutines |-> FALSE]
    /\ verifyFails = [g \in Goroutines |-> 0]
    /\ proc = [g \in Goroutines |-> "none"]
    /\ waiter = [g \in Goroutines |-> "off"]
    /\ watcher = [g \in Goroutines |-> "off"]
    /\ moved = [g \in Goroutines |-> FALSE]
    /\ orphans = {}
    /\ used = [k \in EventKinds |-> 0]

-----------------------------------------------------------------------------
(* External: pilotctl, the daemon's host and its shutdown request.         *)

Spend(k) ==
    /\ used' = [used EXCEPT ![k] = @ + 1]
    /\ \E limit \in Limits : \A e \in EventKinds : used'[e] <= limit[e]

(* The directory leaves its name, with everything in it.  A running        *)
(* process keeps its open files but its socket path is gone.               *)
DirGone ==
    /\ disk' = NoBundle
    /\ suspendedMarker' = FALSE /\ resumeMarker' = FALSE /\ socket' = FALSE
    /\ moved' = [g \in Goroutines |-> pc[g] = "run"]

(* `pilotctl appstore install`: <id> becomes <id>.previous, and only then  *)
(* does <id>.staging become <id>.                                          *)
InstallMoveAway(b) ==
    /\ staged = NoBundle
    /\ Spend("install")
    /\ staged' = b
    /\ DirGone
    /\ UNCHANGED <<mapVars, runVars, superVars, proc, waiter, watcher, orphans>>

InstallMoveIn ==
    /\ staged # NoBundle
    /\ disk' = staged
    /\ staged' = NoBundle
    /\ UNCHANGED <<suspendedMarker, resumeMarker, socket,
                   mapVars, runVars, superVars, procVars, extVars>>

Uninstall ==
    /\ disk # NoBundle
    /\ Spend("uninstall")
    /\ DirGone
    /\ UNCHANGED <<staged, mapVars, runVars, superVars,
                   proc, waiter, watcher, orphans>>

(* `pilotctl appstore restart`: drops .resume, whatever the app is doing.  *)
DropResume ==
    /\ disk # NoBundle /\ ~resumeMarker
    /\ Spend("resume")
    /\ resumeMarker' = TRUE
    /\ UNCHANGED <<disk, staged, suspendedMarker, socket,
                   mapVars, runVars, superVars, procVars, orphans>>

(* Service.Stop cancels the context of run(), and every context derived    *)
(* from it.                                                                *)
Stop ==
    /\ rpc # "boot" /\ ~shutdown
    /\ Spend("stop")
    /\ shutdown' = TRUE
    /\ cancelled' = [g \in Goroutines |-> cancelled[g] \/ pc[g] # "free"]
    /\ UNCHANGED <<fsVars, mapVars, rpc, scan, fresh,
                   pc, bundle, verifyFails, procVars, orphans>>

(* The daemon dies (or has exited) and is started again: its memory is     *)
(* lost, its children live on as orphans, the disk stays.                  *)
DaemonRestart ==
    /\ rpc # "boot"
    /\ Spend("down")
    /\ orphans' = orphans \union {bundle[g].path : g \in {h \in Goroutines : Running(h)}}
    /\ installed' = NoBundle /\ ready' = FALSE /\ crashes' = NoRecord
    /\ appCancel' = NoG /\ reinstalled' = FALSE
    /\ rpc' = "boot" /\ scan' = NoBundle /\ fresh' = NoBundle /\ shutdown' = FALSE
    /\ pc' = [g \in Goroutines |-> "free"]
    /\ bundle' = [g \in Goroutines |-> NoBundle]
    /\ cancelled' = [g \in Goroutines |-> FALSE]
    /\ verifyFails' = [g \in Goroutines |-> 0]
    /\ proc' = [g \in Goroutines |-> "none"]
    /\ waiter' = [g \in Goroutines |-> "off"]
    /\ watcher' = [g \in Goroutines |-> "off"]
    /\ moved' = [g \in Goroutines |-> FALSE]
    /\ UNCHANGED fsVars

-----------------------------------------------------------------------------
(* Service.Start and run(): the rescan goroutine.                          *)

(* scanInstalled: the dir named after the app, when its manifest passes    *)
(* every check (b.ok).  A half-done swap shows no such dir, and            *)
(* <id>.staging and <id>.previous are never adopted.                       *)
scanInstalled == IF disk # NoBundle /\ disk.ok THEN disk ELSE NoBundle

(* Service.Start: scan, then registerInstalled into the empty table.       *)
Boot ==
    /\ rpc = "boot"
    /\ installed' = scanInstalled
    /\ fresh' = scanInstalled
    /\ rpc' = IF scanInstalled = NoBundle THEN "idle" ELSE "startBoot"
    /\ UNCHANGED <<fsVars, ready, crashes, appCancel, reinstalled, scan,
                   shutdown, superVars, procVars, extVars>>

(* startOne(fresh): a context derived from run's, entered in appCancel,    *)
(* and a goroutine for it.                                                 *)
StartOne(g) ==
    /\ rpc \in {"startBoot", "startNew", "startResume"}
    /\ pc[g] = "free"
    /\ pc' = [pc EXCEPT ![g] = "begin"]
    /\ bundle' = [bundle EXCEPT ![g] = fresh]
    /\ cancelled' = [cancelled EXCEPT ![g] = shutdown]
    /\ appCancel' = g
    /\ fresh' = NoBundle
    /\ rpc' = IF rpc = "startNew" THEN "gone" ELSE "idle"
    /\ UNCHANGED <<fsVars, installed, ready, crashes, reinstalled, scan,
                   shutdown, verifyFails, procVars, extVars>>

(* The ticker fires: scanInstalled runs without the lock, so what it read  *)
(* is a snapshot by the time rescanForNew takes the lock.                  *)
RescanTick ==
    /\ rpc = "idle"
    /\ scan' = scanInstalled
    /\ rpc' = "new"
    /\ UNCHANGED <<fsVars, mapVars, fresh, shutdown, superVars, procVars, extVars>>

(* ReadDir failed: rescanForNew returns nil.                               *)
RescanError ==
    /\ rpc = "idle"
    /\ rpc' = "gone"
    /\ UNCHANGED <<fsVars, mapVars, scan, fresh, shutdown, superVars, procVars, extVars>>

(* Faulty variants of CancelOld: the entry is not deleted; the func is     *)
(* deleted but not called.                                                 *)
CancelOldKeepsEntry ==
    /\ cancelled' = [g \in Goroutines |-> cancelled[g] \/ g = appCancel]
    /\ UNCHANGED appCancel

CancelOldWithoutCall == UNCHANGED cancelled /\ appCancel' = NoG

(* appCancel[id](), then delete(appCancel, id).                            *)
CancelOld ==
    /\ cancelled' = [g \in Goroutines |-> cancelled[g] \/ g = appCancel]
    /\ appCancel' = NoG

SameBuild(a, b) == a.ver = b.ver /\ a.sha = b.sha
Rebuild(a, b)   == a.ver = b.ver /\ a.sha # b.sha
Downgrade(a, b) == a.ver < b.ver

(* Faulty variant of Adoptable: the rescan looks for unknown apps only.    *)
AdoptableUnknownOnly(a, old) == a # NoBundle /\ old = NoBundle

(* What rescanForNew takes over from the scan: a bundle, unless the one it  *)
(* already has is the same build or a newer version.                       *)
Adoptable(a, old) ==
    /\ a # NoBundle
    /\ old # NoBundle => ~SameBuild(a, old) /\ ~Downgrade(a, old)

(* rescanForNew finds nothing to do, or refuses a downgrade.               *)
RescanKeep ==
    /\ rpc = "new"
    /\ ~Adoptable(scan, installed)
    /\ scan' = NoBundle
    /\ rpc' = "gone"
    /\ UNCHANGED <<fsVars, mapVars, fresh, shutdown, superVars, procVars, extVars>>

(* rescanForNew registers the scanned bundle and returns it: a new app, a  *)
(* rebuilt bundle (whose .suspended marker it removes) or an upgrade.      *)
RescanAdopt ==
    /\ rpc = "new"
    /\ Adoptable(scan, installed)
    /\ IF installed # NoBundle
         THEN CancelOld /\ ready' = FALSE
         ELSE UNCHANGED <<cancelled, appCancel, ready>>
    /\ suspendedMarker' = (suspendedMarker /\ ~(installed # NoBundle /\ Rebuild(scan, installed)))
    /\ crashes' = NoRecord
    /\ installed' = scan
    /\ fresh' = scan
    /\ scan' = NoBundle
    /\ rpc' = "startNew"
    /\ UNCHANGED <<disk, staged, resumeMarker, socket, reinstalled, shutdown,
                   pc, bundle, verifyFails, procVars, extVars>>

(* Faulty variant of RescanForGone: the entry goes, its goroutine stays.   *)
RescanForGoneNoCancel ==
    /\ rpc = "gone"
    /\ IF installed # NoBundle /\ disk = NoBundle
         THEN installed' = NoBundle /\ ready' = FALSE /\ crashes' = NoRecord /\ appCancel' = NoG
         ELSE UNCHANGED <<appCancel, installed, ready, crashes>>
    /\ rpc' = "resume"
    /\ UNCHANGED <<fsVars, reinstalled, scan, fresh, shutdown,
                   superVars, procVars, extVars>>

(* rescanForGone: under the lock, drop the app if its manifest is gone.    *)
RescanForGone ==
    /\ rpc = "gone"
    /\ IF installed # NoBundle /\ disk = NoBundle
         THEN /\ CancelOld
              /\ installed' = NoBundle
              /\ ready' = FALSE
              /\ crashes' = NoRecord
         ELSE UNCHANGED <<cancelled, appCancel, installed, ready, crashes>>
    /\ rpc' = "resume"
    /\ UNCHANGED <<fsVars, reinstalled, scan, fresh, shutdown,
                   pc, bundle, verifyFails, procVars, extVars>>

(* Faulty variant of RescanForResume: cancels the old goroutine and leaves *)
(* its func in the table.                                                  *)
RescanForResumeKeepsEntry ==
    /\ rpc = "resume"
    /\ IF installed # NoBundle /\ resumeMarker
         THEN /\ resumeMarker' = FALSE
              /\ suspendedMarker' = FALSE
              /\ crashes' = NoRecord
              /\ CancelOldKeepsEntry
              /\ fresh' = installed
              /\ rpc' = "startResume"
         ELSE /\ rpc' = "idle"
              /\ UNCHANGED <<resumeMarker, suspendedMarker, crashes, appCancel, fresh, cancelled>>
    /\ UNCHANGED <<disk, staged, socket, installed, ready, reinstalled, scan,
                   shutdown, pc, bundle, verifyFails, procVars, extVars>>

(* rescanForResume: consume .resume, forget the crash record and the       *)
(* cancel func (without calling it), remove .suspended.                    *)
RescanForResume ==
    /\ rpc = "resume"
    /\ IF installed # NoBundle /\ resumeMarker
         THEN /\ resumeMarker' = FALSE
              /\ suspendedMarker' = FALSE
              /\ crashes' = NoRecord
              /\ appCancel' = NoG
              /\ fresh' = installed
              /\ rpc' = "startResume"
         ELSE /\ rpc' = "idle"
              /\ UNCHANGED <<resumeMarker, suspendedMarker, crashes, appCancel, fresh>>
    /\ UNCHANGED <<disk, staged, socket, installed, ready, reinstalled, scan,
                   shutdown, superVars, procVars, extVars>>

(* ctx.Done won the select: the rescan goroutine is over.                  *)
RescanStop ==
    /\ rpc = "idle" /\ shutdown
    /\ rpc' = "stopped"
    /\ UNCHANGED <<fsVars, mapVars, scan, fresh, shutdown, superVars, procVars, extVars>>

(* Faulty variant of RunReturns: run() does not wait for its goroutines.   *)
RunReturnsEarly ==
    /\ rpc = "stopped"
    /\ rpc' = "exited"
    /\ UNCHANGED <<fsVars, mapVars, scan, fresh, shutdown, superVars, procVars, extVars>>

(* wg.Wait returns: run() is over and doneCh is closed.                    *)
RunReturns ==
    /\ rpc = "stopped"
    /\ \A g \in Goroutines : ~Live(g)
    /\ rpc' = "exited"
    /\ UNCHANGED <<fsVars, mapVars, scan, fresh, shutdown, superVars, procVars, extVars>>

-----------------------------------------------------------------------------
(* superviseOne(ctx, a) in goroutine g.                                    *)

At(g, from, to) == pc[g] = from /\ pc' = [pc EXCEPT ![g] = to]

(* On entry: clear a stale .suspended marker.                              *)
SuperviseBegin(g) ==
    /\ At(g, "begin", "top")
    /\ suspendedMarker' = FALSE
    /\ UNCHANGED <<disk, staged, resumeMarker, socket, mapVars, runVars,
                   bundle, cancelled, verifyFails, procVars, extVars>>

(* verifyBinary: the file at the manifest's path has the pinned hash.      *)
verifyBinary(b) == disk # NoBundle /\ disk.path = b.path /\ disk.sha = b.sha

(* A context seen cancelled, at the top of the loop, before recording a    *)
(* crash or in one of the waits, ends the goroutine.                       *)
SuperviseCancelled(g) ==
    /\ pc[g] \in {"top", "verifyWait", "exited", "reinstallWait", "backoff"}
    /\ cancelled[g]
    /\ pc' = [pc EXCEPT ![g] = "done"]
    /\ UNCHANGED <<fsVars, mapVars, runVars, bundle, cancelled, verifyFails,
                   procVars, extVars>>

SuperviseVerified(g) ==
    /\ ~cancelled[g]
    /\ At(g, "top", "spawn")
    /\ verifyBinary(bundle[g])
    /\ verifyFails' = [verifyFails EXCEPT ![g] = 0]
    /\ UNCHANGED <<fsVars, mapVars, runVars, bundle, cancelled, procVars, extVars>>

(* Faulty variant of SuperviseVerifyFailed: one failure too many.          *)
SuperviseVerifyFailedLate(g) ==
    /\ pc[g] = "top" /\ ~cancelled[g]
    /\ ~verifyBinary(bundle[g])
    /\ At(g, "top", IF verifyFails[g] >= MaxVerifyFails THEN "capMark" ELSE "verifyWait")
    /\ verifyFails' = [verifyFails EXCEPT ![g] = @ + 1]
    /\ UNCHANGED <<fsVars, mapVars, runVars, bundle, cancelled, procVars, extVars>>

SuperviseVerifyFailed(g) ==
    /\ pc[g] = "top" /\ ~cancelled[g]
    /\ ~verifyBinary(bundle[g])
    /\ At(g, "top", IF verifyFails[g] + 1 >= MaxVerifyFails THEN "capMark" ELSE "verifyWait")
    /\ verifyFails' = [verifyFails EXCEPT ![g] = @ + 1]
    /\ UNCHANGED <<fsVars, mapVars, runVars, bundle, cancelled, procVars, extVars>>

(* The verify-fail cap: write the marker, then markSuspended, then return. *)
(* Neither looks at the context.  The write fails if the dir is gone.      *)
SuperviseCapMark(g) ==
    /\ At(g, "capMark", "capRecord")
    /\ suspendedMarker' = (disk # NoBundle)
    /\ UNCHANGED <<disk, staged, resumeMarker, socket, mapVars, runVars,
                   bundle, cancelled, verifyFails, procVars, extVars>>

SuperviseCapRecord(g) ==
    /\ At(g, "capRecord", "done")
    /\ crashes' = [crashes EXCEPT !.suspended = TRUE]
    /\ UNCHANGED <<fsVars, installed, ready, appCancel, reinstalled, runVars,
                   bundle, cancelled, verifyFails, procVars, extVars>>

(* The processes findInstances matches for bundle b: same binary path, and *)
(* the socket path all of the app's processes share.                       *)
Instances(b) == {h \in Goroutines : Running(h) /\ bundle[h].path = b.path}

(* Faulty variant of SpawnPrepare: no reapStale.                           *)
SpawnPrepareNoReap(g) ==
    /\ At(g, "spawn", "start")
    /\ verifyBinary(bundle[g])
    /\ socket' = FALSE
    /\ UNCHANGED <<disk, staged, suspendedMarker, resumeMarker, mapVars, runVars,
                   bundle, cancelled, verifyFails, procVars, extVars>>

(* spawn: verifyAtSpawn, reapStale, and the removal of a stale socket, in  *)
(* one step.  An idealization: reapStale, a bounded number of passes over  *)
(* the processes whose arguments can be read, here misses none of them and *)
(* finds them dead afterwards.                                             *)
SpawnPrepare(g) ==
    /\ At(g, "spawn", "start")
    /\ verifyBinary(bundle[g])
    /\ proc' = [h \in Goroutines |-> IF h \in Instances(bundle[g]) THEN "none" ELSE proc[h]]
    /\ orphans' = orphans \ {bundle[g].path}
    /\ socket' = FALSE
    /\ UNCHANGED <<disk, staged, suspendedMarker, resumeMarker, mapVars, runVars,
                   bundle, cancelled, verifyFails, waiter, watcher, moved, used>>

SpawnRefused(g) ==
    /\ At(g, "spawn", "notReady")
    /\ ~verifyBinary(bundle[g])
    /\ UNCHANGED <<fsVars, mapVars, runVars, bundle, cancelled, verifyFails,
                   procVars, extVars>>

(* Faulty variant of SpawnStart: a command that is not tied to the context *)
(* of its goroutine.                                                       *)
SpawnStartAnyContext(g) ==
    /\ At(g, "start", "run")
    /\ disk # NoBundle /\ disk.path = bundle[g].path
    /\ watcher[g] \notin {"swap", "lost"}
    /\ proc' = [proc EXCEPT ![g] = "up"]
    /\ waiter' = [waiter EXCEPT ![g] = "poll"]
    /\ watcher' = [watcher EXCEPT ![g] = "wait"]
    /\ moved' = [moved EXCEPT ![g] = FALSE]
    /\ UNCHANGED <<fsVars, mapVars, runVars, bundle, cancelled, verifyFails, extVars>>

(* cmd.Start succeeds; waitReady and watchSocket are launched beside it.   *)
(* Its look at the context and the fork are taken for one step.            *)
(* A watchSocket of the previous process has acted by now: at least the    *)
(* one-second backoff lies between the two.                                *)
SpawnStart(g) ==
    /\ ~cancelled[g]
    /\ At(g, "start", "run")
    /\ disk # NoBundle /\ disk.path = bundle[g].path
    /\ watcher[g] \notin {"swap", "lost"}
    /\ proc' = [proc EXCEPT ![g] = "up"]
    /\ waiter' = [waiter EXCEPT ![g] = "poll"]
    /\ watcher' = [watcher EXCEPT ![g] = "wait"]
    /\ moved' = [moved EXCEPT ![g] = FALSE]
    /\ UNCHANGED <<fsVars, mapVars, runVars, bundle, cancelled, verifyFails, extVars>>

(* cmd.Start fails: the context is cancelled, or the system refuses.       *)
SpawnFailed(g) ==
    /\ At(g, "start", "notReady")
    /\ UNCHANGED <<fsVars, mapVars, runVars, bundle, cancelled, verifyFails,
                   procVars, extVars>>

(* cmd.Wait saw the process exit; spawn returns and cancels watchCtx.      *)
SpawnReturns(g) ==
    /\ At(g, "run", "notReady")
    /\ ~Running(g)
    /\ watcher' = [watcher EXCEPT ![g] = IF @ \in {"swap", "lost"} THEN @ ELSE "off"]
    /\ moved' = [moved EXCEPT ![g] = FALSE]
    /\ UNCHANGED <<fsVars, mapVars, runVars, bundle, cancelled, verifyFails,
                   proc, waiter, extVars>>

SuperviseNotReady(g) ==
    /\ At(g, "notReady", "exited")
    /\ ready' = FALSE
    /\ UNCHANGED <<fsVars, installed, crashes, appCancel, reinstalled, runVars,
                   bundle, cancelled, verifyFails, procVars, extVars>>

(* takeReinstalled, after the context was found not cancelled.             *)
SuperviseTakeReinstalled(g) ==
    /\ ~cancelled[g]
    /\ At(g, "exited", IF reinstalled THEN "reinstallWait" ELSE "crash")
    /\ reinstalled' = FALSE
    /\ UNCHANGED <<fsVars, installed, ready, crashes, appCancel, runVars,
                   bundle, cancelled, verifyFails, procVars, extVars>>

(* recordCrash: kept of the recorded crashes are still in the window; the  *)
(* new one makes kept + 1, and more than MaxCrashes suspends for good.     *)
RecordCrash(kept) ==
    [n |-> kept + 1,
     suspended |-> crashes.suspended \/ kept + 1 > MaxCrashes]

SuperviseRecordCrash(g, kept) ==
    /\ kept \in 0 .. crashes.n
    /\ crashes' = RecordCrash(kept)
    /\ At(g, "crash", IF RecordCrash(kept).suspended THEN "crashMark" ELSE "backoff")
    /\ UNCHANGED <<fsVars, installed, ready, appCancel, reinstalled, runVars,
                   bundle, cancelled, verifyFails, procVars, extVars>>

SuperviseCrashMark(g) ==
    /\ At(g, "crashMark", "done")
    /\ suspendedMarker' = (disk # NoBundle)
    /\ UNCHANGED <<disk, staged, resumeMarker, socket, mapVars, runVars,
                   bundle, cancelled, verifyFails, procVars, extVars>>

(* The verify backoff, the crash backoff or the wait for a rescan elapsed. *)
SuperviseRetry(g) ==
    /\ pc[g] \in {"verifyWait", "reinstallWait", "backoff"}
    /\ ~cancelled[g]
    /\ pc' = [pc EXCEPT ![g] = "top"]
    /\ UNCHANGED <<fsVars, mapVars, runVars, bundle, cancelled, verifyFails,
                   procVars, extVars>>

-----------------------------------------------------------------------------
(* The app's process (external) and the goroutines beside it.              *)

(* The app listens on its socket path.                                     *)
ProcBind(g) ==
    /\ proc[g] = "up" /\ disk # NoBundle
    /\ proc' = [proc EXCEPT ![g] = "bound"]
    /\ socket' = TRUE
    /\ UNCHANGED <<disk, staged, suspendedMarker, resumeMarker, mapVars, runVars,
                   superVars, waiter, watcher, moved, extVars>>

(* The app exits by itself, or of the SIGTERM of watchSocket; it removes   *)
(* the socket path if it shuts down in order and leaves it if it crashes.  *)
ProcExit(g) ==
    /\ Running(g)
    /\ proc' = [proc EXCEPT ![g] = "none"]
    /\ socket' \in {socket, FALSE}
    /\ UNCHANGED <<disk, staged, suspendedMarker, resumeMarker, mapVars, runVars,
                   superVars, waiter, watcher, moved, extVars>>

(* Faulty variant of StopAppGroup: SIGTERM alone, which obliges no app.    *)
StopAppGroupTermOnly(g) == FALSE /\ ProcExit(g)

(* stopAppGroup: a cancelled context stops the process, by SIGTERM or,     *)
(* after appStopGrace, by SIGKILL.                                         *)
StopAppGroup(g) == cancelled[g] /\ ProcExit(g)

(* An orphan exits and takes the shared socket path with it, or not.       *)
OrphanExit(p) ==
    /\ p \in orphans
    /\ orphans' = orphans \ {p}
    /\ socket' \in {socket, FALSE}
    /\ UNCHANGED <<disk, staged, suspendedMarker, resumeMarker, mapVars, runVars,
                   superVars, procVars, used>>

(* waitReady: the context is checked and the socket found ...              *)
WaitReadySee(g) ==
    /\ waiter[g] = "poll" /\ ~cancelled[g] /\ socket
    /\ waiter' = [waiter EXCEPT ![g] = "seen"]
    /\ UNCHANGED <<fsVars, mapVars, runVars, superVars, proc, watcher, moved, extVars>>

(* ... and then markReady takes the lock.                                  *)
WaitReadyMark(g) ==
    /\ waiter[g] = "seen"
    /\ waiter' = [waiter EXCEPT ![g] = "off"]
    /\ ready' = TRUE
    /\ UNCHANGED <<fsVars, installed, crashes, appCancel, reinstalled, runVars,
                   superVars, proc, watcher, moved, extVars>>

(* Cancelled, or no socket within three seconds.                           *)
WaitReadyEnd(g) ==
    /\ waiter[g] = "poll"
    /\ waiter' = [waiter EXCEPT ![g] = "off"]
    /\ UNCHANGED <<fsVars, mapVars, runVars, superVars, proc, watcher, moved, extVars>>

(* A tick of watchSocket: arm once the socket was seen; when it is gone,   *)
(* tell a replaced install dir from a lost socket.                         *)
WatchSocketTick(g) ==
    /\ pc[g] = "run" /\ ~cancelled[g]
    /\ \/ /\ watcher[g] = "wait" /\ socket
          /\ watcher' = [watcher EXCEPT ![g] = "armed"]
       \/ /\ watcher[g] = "armed" /\ ~socket
          /\ watcher' = [watcher EXCEPT ![g] =
                           IF disk # NoBundle /\ moved[g] THEN "swap" ELSE "lost"]
    /\ UNCHANGED <<fsVars, mapVars, runVars, superVars, proc, waiter, moved, extVars>>

(* markReinstalled if the dir was replaced; SIGTERM to the process group,  *)
(* which the process obeys in a ProcExit step, if it does.                 *)
WatchSocketAct(g) ==
    /\ watcher[g] \in {"swap", "lost"}
    /\ reinstalled' = (reinstalled \/ watcher[g] = "swap")
    /\ watcher' = [watcher EXCEPT ![g] = "off"]
    /\ UNCHANGED <<fsVars, installed, ready, crashes, appCancel, runVars,
                   superVars, proc, waiter, moved, extVars>>

-----------------------------------------------------------------------------
Rescan ==
    \/ Boot \/ RescanTick \/ RescanError \/ RescanKeep \/ RescanAdopt
    \/ RescanForGone \/ RescanForResume \/ RescanStop \/ RunReturns
    \/ \E g \in Goroutines : StartOne(g)

Supervise(g) ==
    \/ SuperviseBegin(g) \/ SuperviseCancelled(g) \/ SuperviseVerified(g)
    \/ SuperviseVerifyFailed(g) \/ SuperviseCapMark(g) \/ SuperviseCapRecord(g)
    \/ SpawnPrepare(g) \/ SpawnRefused(g) \/ SpawnStart(g) \/ SpawnFailed(g)
    \/ SpawnReturns(g) \/ SuperviseNotReady(g) \/ SuperviseTakeReinstalled(g)
    \/ \E kept \in 0 .. crashes.n : SuperviseRecordCrash(g, kept)
    \/ SuperviseCrashMark(g) \/ SuperviseRetry(g)

Beside(g) ==
    \/ ProcBind(g) \/ ProcExit(g)
    \/ WaitReadySee(g) \/ WaitReadyMark(g) \/ WaitReadyEnd(g)
    \/ WatchSocketTick(g) \/ WatchSocketAct(g)

External ==
    \/ \E b \in Bundles : InstallMoveAway(b)
    \/ InstallMoveIn \/ Uninstall \/ DropResume \/ Stop \/ DaemonRestart
    \/ \E p \in orphans : OrphanExit(p)

(* Once run() has returned and nothing outside is left to happen.          *)
Finished == rpc = "exited" /\ UNCHANGED vars

Next ==
    \/ Rescan
    \/ \E g \in Goroutines : Supervise(g) \/ Beside(g)
    \/ External
    \/ Finished

Spec == Init /\ [][Next]_vars

(* Fairness.  Goroutines are scheduled, timers fire and system calls       *)
(* return.  stopAppGroup ends with SIGKILL, so a stopped process exits;    *)
(* nothing obliges an app to exit, to bind its socket or to obey the lone  *)
(* SIGTERM of watchSocket.  The select of the rescan loop picks among its  *)
(* ready cases at random, and ReadDir does not fail for ever: hence the    *)
(* strong fairness of the two steps that compete at "idle".                *)
Fairness ==
    /\ WF_vars(Rescan)
    /\ SF_vars(RescanTick)
    /\ SF_vars(RescanStop)
    /\ \A g \in Goroutines :
         /\ WF_vars(Supervise(g))
         /\ WF_vars(StopAppGroup(g))

LiveSpec == Spec /\ Fairness

-----------------------------------------------------------------------------
(* Properties.                                                             *)

(* The func in appCancel is the one that stops the app as it is installed  *)
(* now: its goroutine was started for the bundle in installed, and its     *)
(* context is cancelled only if the whole of run() is.  A stale or foreign *)
(* entry would make the next upgrade or uninstall stop the wrong goroutine *)
(* (startOne, rescanForNew, rescanForGone, rescanForResume).               *)
CancelTable ==
    appCancel # NoG =>
        /\ installed # NoBundle
        /\ pc[appCancel] # "free"
        /\ bundle[appCancel] = installed
        /\ cancelled[appCancel] => shutdown

(* As long as nobody used `pilotctl appstore restart`, a goroutine that    *)
(* nothing has cancelled is the one appCancel holds: upgrades, rebuilds,   *)
(* uninstalls, stale scans and daemon deaths never leave a second          *)
(* supervisor running that no later rescan could stop.                     *)
NoStraySupervisor ==
    used["resume"] = 0 =>
        \A g \in Goroutines : Live(g) /\ ~cancelled[g] => g = appCancel

(* And at most one process runs a given binary of the app, counting the    *)
(* children of goroutines already cancelled and the orphans of a killed    *)
(* daemon: reapStale clears them before cmd.Start, and nothing slips in    *)
(* between the two.                                                        *)
OneProcessPerBinary ==
    used["resume"] = 0 =>
        \A g \in Goroutines : Running(g) =>
            /\ bundle[g].path \notin orphans
            /\ Instances(bundle[g]) = {g}

(* When run() returns, so that Service.Stop may report success, no         *)
(* supervise goroutine is left and none of the daemon's processes runs.    *)
DrainedOnExit ==
    rpc = "exited" => \A g \in Goroutines : ~Live(g) /\ ~Running(g)

(* A shutdown request is carried out: run() returns, whatever the          *)
(* goroutines, the rescan and the apps were doing.                         *)
ShutdownDrains == shutdown ~> (rpc = "exited" \/ ~shutdown)

(* An app whose directory is gone for good is dropped from the installed   *)
(* table and its processes are stopped (rescanForGone, stopAppGroup),      *)
(* unless it was resumed while it ran (ResumeFindsNoGoroutine).            *)
UninstallStops ==
    (disk = NoBundle /\ used["resume"] = 0) ~>
        \/ disk # NoBundle
        \/ shutdown
        \/ installed = NoBundle /\ \A g \in Goroutines : ~Running(g)

(* The newest bundle, once on disk and left there, becomes the installed   *)
(* one: no interleaving of scans, swaps and restarts makes the rescan miss *)
(* it.                                                                     *)
Newest(b) == b # NoBundle /\ b.ok /\ \A c \in Bundles : c.ver <= b.ver

UpgradeApplied == Newest(disk) ~> (installed = disk \/ ~Newest(disk) \/ shutdown)

(* The binaries some process of the app runs, orphans included.            *)
RunningPaths == orphans \union {bundle[g].path : g \in {h \in Goroutines : Running(h)}}

Table == INSTANCE AppTable
           WITH table <- installed, running <- RunningPaths, resumed <- used["resume"] > 0

(* The supervisor implements AppTable: whatever the goroutines of replaced *)
(* bundles, stale scans, swaps and daemon deaths do, spawn starts only the *)
(* installed bundle, on a binary nobody else runs, and rescanForNew moves  *)
(* the table forward to checked bundles only.                              *)
TableKept == Table!Spec

-----------------------------------------------------------------------------
(* The inductive invariant behind the safety properties.                   *)

(* A goroutine has a bundle from its start on, a process only while it     *)
(* waits for it in spawn, and is over once it has reached the cap.         *)
GoroutineOK ==
    \A g \in Goroutines :
        /\ pc[g] # "free" => bundle[g] \in Bundles
        /\ pc[g] = "free" => ~cancelled[g]
        /\ Running(g) => pc[g] = "run"
        /\ pc[g] \notin {"capMark", "capRecord", "done"} => verifyFails[g] < MaxVerifyFails

(* Before startOne, the app to start is the installed one and the table    *)
(* holds no func for it.  A .resume marker was dropped by someone.         *)
StartOK ==
    /\ rpc \in {"startBoot", "startNew", "startResume"} =>
         fresh = installed /\ installed \in Bundles /\ appCancel = NoG
    /\ rpc = "boot" => installed = NoBundle /\ appCancel = NoG /\ ~shutdown
    /\ resumeMarker => used["resume"] > 0

(* A snapshot and the table hold only what passed the checks of a scan.    *)
VerdictOK ==
    /\ scan # NoBundle => scan.ok
    /\ installed # NoBundle => installed.ok

(* From reapStale to cmd.Start, no other process of the binary runs.       *)
ReapedOK ==
    used["resume"] = 0 =>
        \A g \in Goroutines : pc[g] = "start" /\ ~cancelled[g] =>
            /\ bundle[g].path \notin orphans
            /\ Instances(bundle[g]) = {}

(* Types, the four properties and what their induction needs.              *)
IInv ==
    /\ TypeOK /\ GoroutineOK /\ StartOK /\ VerdictOK /\ ReapedOK
    /\ CancelTable /\ NoStraySupervisor /\ OneProcessPerBinary /\ DrainedOnExit

-----------------------------------------------------------------------------
(* What comments of the code say and the code does not keep.               *)

(* rescanForResume: "the old goroutine has already returned (suspended     *)
(* apps don't have live goroutines)", so its cancel func may be dropped.   *)
ResumeFindsNoGoroutine ==
    rpc = "startResume" => \A g \in Goroutines : ~(Live(g) /\ ~cancelled[g])
=============================================================================
