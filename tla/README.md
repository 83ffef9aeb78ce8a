# Verification of the app-store plugin

TLA+ models of the app store of the Pilot daemon: which installed apps the
plugin accepts, what it does with them (start, watch, replace, suspend, stop),
what it logs, how calls reach them over IPC and through their gates, and how apps
hook into commands. The models are checked with TLC on small instances;
the invariants that matter most are proved with TLAPS for every value of the
constants.

## 1. Inventory

The program is a Go library the daemon links. `plugin/appstore` is the active
part; `pkg/*` is used by it, by the daemon or by apps.

| Component | State | Operations | What is hard |
|---|---|---|---|
| Service (`service.go`) | `sup`, `cancel`, `doneCh` under `startMu` | Start, Stop, Apps, Call, CallFrom, CallWithOrigin | Stop holds the lock through a drain with a deadline; Start can fail half-way |
| Supervisor lifecycle (`supervisor.go`, `reap.go`) | maps `installed`, `ready`, `crashes`, `appCancel`, `reinstalled`; one goroutine per app; files and sentinels in the install dir; child processes | run, the three rescans, superviseOne, spawn, waitReady, watchSocket, reapStale, stopAppGroup | all of it is concurrent, with pilotctl changing the disk and the daemon dying at any time |
| Broker (`callFrom`) | reads `installed` and `ready` | gates, awaitReady, dial, IPC, usage event | the table changes between the gates and the dispatch |
| Audit log | `supervisor.log` and its generations | writeAuditLine, rotateGenerations | several writers, no lock, crash between renames |
| Signature backoff, skip notes | `sigFails`, `skipLogged` | shouldAttempt, noteFailure, clear, noteSkipped | time and changing manifests |
| Crash window | `crashes[id].times` | recordCrash | window and limit boundaries |
| Version comparison | none | compareVersions | prereleases |
| Hook registry (`pkg/extend`) | `byPoint` under a RWMutex, the limiter | Register, Unregister, UnregisterOne, Run, Wrap, the capped runtime handler, the provenance trail | chains run while the registry changes; check and insertion are apart; values change type on the IPC hop |
| IPC (`pkg/ipc`) | a connection | WriteFrame, ReadFrame, Call, Serve | a peer that goes away inside a frame |
| App-side gates and limiter (`pkg/appkit`) | hits per node | RequireOrigin, LimitPerNode, RequireEnvelope, Allow | window boundaries and sweeping |
| Payment (`pkg/payment`) | method and escrow registries | Register, Unregister, Satisfy, Verify, Redeem, Seal, Unseal | a lock held across a callback; order of a map |
| Manifest (`pkg/manifest`) | none | Parse, Validate, sideload policy, HasGrant, signature | many rules, no state |
| Process arguments, limits, logging, daemon adapter, example app | none | system calls and forwarding | - |

How they interact: the daemon calls Service, which creates a Supervisor and
runs `run()` in a goroutine. `run()` starts one `superviseOne` goroutine per
app and rescans the install root on a timer; `superviseOne` verifies and spawns
the binary, beside each process run `waitReady` and `watchSocket`. These
goroutines share the maps under one mutex and the install directory under none.
pilotctl talks to the supervisor only through the disk: it installs by renames,
uninstalls, and drops a `.resume` marker. The Broker reads the same maps and
dials the app's socket. Commands go through `extend.Wrap`, whose hooks are
broker calls into apps.

What makes each correct: the supervisor can always stop what it started, runs
one process per binary, applies upgrades and uninstalls, and drains on shutdown;
the service never has two supervisors; the broker authorizes a call against one
state of the table; a chain skips no hook and keeps its order; a scan adopts only
what is trusted now, and recovers what becomes trusted; the log gives up its
oldest lines first; budgets are exact at their boundaries; a call returns its own
reply or an error. The hazards that
could break these are listed, by line, in `PROJECT.json`.

## 2. Modules

| Module | Models | Extends, instantiates |
|---|---|---|
| `Supervisor`, `MCSupervisor`, `SupervisorProofs` | supervisor lifecycle | `AppTable` (refined) |
| `AppTable` | abstract: what the supervisor promises about one app | - |
| `Service`, `ServiceProofs` | service entry points | - |
| `Broker`, `BrokerProofs` | broker | - |
| `Extend`, `MCExtend`, `ExtendProofs` | hook registry and Wrap | - |
| `Manifest` | validation, sideload policy, trust chain | - |
| `Scan`, `MCScan`, `ScanProofs` | scanInstalled over time: trust, backoff, skip notes | `Manifest` |
| `AuditLog`, `AuditLogProofs` | audit log and its rotation | `RetainedLog` (refined) |
| `RetainedLog` | abstract: what the audit log promises | - |
| `NodeLimiter` | per-node limiter | `SlidingWindow` (refined) |
| `SlidingWindow` | abstract: what a per-node limit promises | - |
| `Gates` | app-side gates around a handler | `NodeLimiter` |
| `RateLimiter` | token bucket of the hook registry | - |
| `CrashWindow` | recordCrash with a clock | - |
| `MCBudgets`, `LimiterProofs` | the three budgets under one stream of events | `Gates`, `RateLimiter`, `CrashWindow` |
| `Ipc`, `IpcProofs` | framing, client and server | - |
| `MCCalls` | the three stations of a call, for TLC | `Ipc`, `Service`, `Broker` |
| `Versions` | compareVersions; its proofs are in `SupervisorProofs` | - |

How the modules fit together. `Service` uses what `Supervisor` shows: that a
cancelled `run()` returns (`Supervisor!ShutdownDrains`). `Broker` treats the app
table and the processes as free, more than what `Supervisor` allows, so its
results hold for it; its IPC call is one step that succeeds or fails, which `Ipc`
bears out: a call ends with its own reply or with an error, after which it may or
may not have run, once. `Supervisor` takes the verdict of a scan as a property of the
bundle; `Scan` is how the verdict comes about. Its crash record drops old entries
freely, a superset of `CrashWindow`, and its versions are numbers, which loses
nothing because `compareVersions` is a total preorder (`NoRollback`, `OneWay`).
`Extend` refuses hook calls freely, a superset of `RateLimiter`.

Definitions named "Faulty variant" are not part of any specification. They are
plausible bugs, each of which one of the properties is known to catch.

### Supervisor

One app. Every map of the supervisor is keyed by the app id and no step reads
another app's entry, so one app stands for all. State: the install directory
(`disk`, `staged`, the sentinels, `socket`), the maps at this app's key, the
rescan goroutine (`rpc`, `scan`, `fresh`), and for each supervise goroutine its
place (`pc`), its argument (`bundle`), its context (`cancelled`), its process,
its `waitReady` (`waiter`) and its `watchSocket` (`watcher`). A bundle is a
version, a hash, a binary path, and whether a scan accepts it.

One action per step between two points where another goroutine can interfere:
each critical section, each file operation, each system call. What is merged,
and why no behaviour is lost by it:

- the context check at the loop head is merged with `verifyBinary`, and the one
  before `takeReinstalled` with it: a cancellation in between only delays the
  goroutine's notice to its next check, which the model has;
- an uninstall is one step; pilotctl removes the manifest first, which is all
  the rescan looks at;
- the `waitReady` goroutines of one supervise goroutine are one: an older one
  does the same to the same map entry;
- a `watchSocket` that has decided to act does so before its goroutine's next
  spawn, at least a second of backoff later;
- `recordCrash` drops any number of old entries, so every course of the clock is
  included.

Two steps are idealizations, which do lose behaviours:

- `SpawnPrepare` merges `verifyAtSpawn`, `reapStale` and the removal of the
  socket, and its reaping is complete: afterwards no other process of the binary
  is left. The code's is best effort: a bounded number of passes (`reapPasses`),
  each over the processes whose arguments can be read (reap.go:89 skips the
  others), and no wait after the SIGKILL. `OneProcessPerBinary` and the part of
  `TableKept` about running binaries say what holds when every instance is found
  and dies;
- `SpawnStart` takes os/exec's look at the context and the fork for one step. A
  cancellation between the two starts a process that is stopped at once, beside
  which the successor may already start its own; the model has no such overlap.

A daemon death keeps the disk and leaves children behind as `orphans`.

`AppTable` is what a user of the supervisor may rely on: a table entry and the
set of binaries that run. The table moves to checked bundles that are not older,
or drops the app; a process is started only from the bundle in the table and only
while no process of that binary runs, orphans included; processes of replaced
bundles may linger but are not started again. After the first resume request
starts are free, for the reason `resume_while_live` shows. The mapping is
`installed`, the paths of orphans and running children, and whether a resume was
requested.

### Service

`startMu`, `s.sup` and, for each successful or failed Start, the fate of its run
goroutine. Callers are goroutines of the daemon. Start and the reads of `s.sup`
are one step each, being under the lock throughout; Stop is two, with the lock
held between them. A request comes with a context that ends some day or does not
(`deadline`). The scan of any Start can fail. That the drain waits for no broker
call is read off the code: `run()` waits for its supervise goroutines and they
for their processes, a process that is itself waiting for a call is killed after
`appStopGrace`, and calls are on the goroutines of their callers.

### Broker

`callFrom` in the steps where time passes: the read under the lock, the gates,
the wait, the dial, the IPC call. One method; a manifest says whether it exposes
it and whose it may call. `past` records, for the property, which pairs of
manifests were installed together since the call began. The origin argument is
left out: the cross-app entry point passes none.

### Extend

`byPoint` as a set of numbered registrations with the order of the sorted lists
(`Before`). Handlers register in the code's two critical sections; commands run
Wrap hook by hook. The arguments handed from hook to hook are left out, and with
them the provenance trail in `__meta`. Rate limiting and errors are a free
refusal.

### Manifest and Scan

`Manifest` has the checks of `pkg/manifest` as predicates. A field that is only
matched against a pattern is represented by whether it matches (`malformed`); a
grant target by its shape; a condition tree by its nodes, since one bad node
makes the condition bad; a signature by the key that made it and the payload it
covers. `SigningPayload` is that of the code: publisher, id, manifest version,
binary hash and grants, not the hooks, the protection or what is exposed.

`Scan` has the dirs of the install root (`dirs`), the catalogue's `pin`, the
records `sigFails` and `skipLogged`, and what a scan returned and logged
(`adopted`, `logged`). `ScanInstalled` is one whole scan: `Examine` follows the
checks of one dir in their order, and the dirs meet only in the notes. Dirs and
pins change between scans, not during one: a scan that sees a dir half-changed is
one that reads an unparsable or other manifest, which the next scan corrects.
`sigFails.wait` is what is left of `nextRetry`, so the model needs no clock that
runs out. `logged` and `quarantined` of the record follow from its hash and its
count. `touched`, `retouched` and `failed` are history, for the properties.

### AuditLog

Generation 0 is `supervisor.log`. Each writer goes through the file operations of
`writeAuditLine` one at a time: stat, remove, stat and rename per generation,
open, write. A file is known by its present generation, so `fd` moves with it
when it is renamed under its writer and is `Gone` when it is replaced or removed.
The daemon can die between any two operations; the dir can be removed or
replaced. Operations fail only because a file or the dir is missing; a full disk
or a permission error, which the code logs and ignores, is not modelled. The
configured `keep` is at least 1 in every path, so `Keep` is positive.

### NodeLimiter, Gates

`hits` is the map, `granted` and `answer` the history. `Allow` is one step, being
under the mutex; a bucket is a set of hits, ordered by time, so pruning from the
front is a filter. The clock does not step back (Go's monotonic reading).
`Gates` composes the gates the way their comments say:
`RequireOrigin(LimitPerNode(h))` for bridged requests, the same behind
`RequireEnvelope` for the others. What the daemon's verification answers is free.

### RateLimiter, CrashWindow

The token bucket counts in parts of a token; float rounding is left out. The
crash window is one app's record. Neither has a next-state relation of its own:
`MCBudgets` drives both, and the gates, with one stream of events. They are
independent, so every history of each occurs.

### Ipc

One connection: the parts of frames under way in each direction, where the
current `Call` is, where `Serve` is. A frame is a header and a body, each one
write and one read. A deadline, a closing caller and a dying app can cut in
between, leaving part of a body (`cut`). Later calls may use the same connection;
the code's broker does not, but the client promises to notice (`req_id
mismatch`). A zero-length frame and a non-request envelope at the server are left
out, since neither side of the code writes one.

A reader at a lost place takes four bytes of JSON text for a length, which is over
the limit, its first byte being a printable character. That is an idealization:
four bytes that straddle the end of a body and the next header can be a small
number, and a header can be cut after one to three bytes. `OwnReply` does not
depend on it, since a misread frame would also have to parse and carry the
caller's fresh req_id.

`Serve` takes an `io.ReadWriter` and closes nothing. The close that follows it
(`AppCloses`) is the app's own `defer c.Close()`, as in the example app
(examples/hello-world/cmd/hello/main.go:124), whose comment calls it "the standard
concurrency model for every app". `CallReturns` holds for apps that do so: one
that leaves the connection open after a reply over the limit keeps its caller
waiting.

### MCCalls

`Service`, `Broker` and `Ipc` are what a call goes through, one after the other.
None reads another's state, so a behaviour of the three together is a behaviour
of each with the steps of the others between, which no property can see.
`MCCalls` lets one of them, chosen at the start (`station`), move in a behaviour
while the others stand still: every behaviour of each is checked in one run.

### Versions

A version is the three numbers and the prerelease `splitSemver` yields, the
latter by its rank among strings. A number over `MaxInt` makes `Atoi` fail, and
counts as 0.

## 3. Runs

Passing:

| Run | Question | Bounds |
|---|---|---|
| `supervisor_disrupted` | can a rebuild or a daemon death, or an uninstall beside a resume and a shutdown, leave two processes on one binary, the wrong func in the cancel table, or a goroutine outside it; does the inductive invariant hold; is everything drained | 2 goroutines, 2 paths and a rejected bundle; either 1 install and 1 death, or 1 uninstall, 1 resume and 1 stop |
| `supervisor_live_upgrade` | is the newest bundle always adopted; does the supervisor implement `AppTable` while it is | 2 goroutines, 1 install |
| `supervisor_live_stop` | does a shutdown always drain, an uninstalled app always stop | 1 goroutine |
| `calls` | can two supervisors be active; can the lock be left held; is every request answered; can changes of two apps combine into a permission neither state gave; can a call get another's reply, run twice, run from half a frame or wait for ever | 2 callers, 2 starts, failing scans, stops with and without a deadline; 2 apps, 2 manifests, 3 changes; 4 calls on a connection, with and without a deadline |
| `extend_chain` | does a chain skip, repeat or reorder hooks while others come and go; by how much can the cap be overshot | 2 apps, 2 orders, 2 handlers, cap 1, 3 registrations |
| `audit_log` | what can rotations that interleave, a death or a vanishing dir do to the files; does the log implement `RetainedLog` | 2 writers, 2 generations, threshold 2, 9 lines |
| `scan` | can anything untrusted be adopted, anything be logged twice, a bad manifest be verified in a loop, a good one be left out for ever | 1 app id and its `.previous`, 5 manifests, 9 dir contents, backoff 1 to 3, quarantine at 2 |
| `budgets` | are the limiter, the token bucket and the crash window exact; does the limiter implement `SlidingWindow`; whom do the gates let through | 2 nodes, 8 kinds of request, windows 2 and 3, 6 ticks, 6 events |

Most inductive invariants of the proofs are properties of the runs (`IInv`,
`LogInv`, `ScanInv`, `LimiterInv`, `BudgetsInv`, `IpcInv`); they include the type
invariants of their modules.

The bounds are enough because every interference here is between two parties: a
goroutine and its successor, a rescan and a swap, two registrations, a call and
a change of the table. A goroutine is started at most once per boot, install and
resume, so the goroutines of an instance never run out. `MaxVerifyFails`,
`MaxCrashes` and `MaxRegs` stand for 10, 5 and 32; only reaching them matters,
and the proofs cover every value. Retries after a crash are in
`supervisor_live_stop`, after a failed verification and after a reinstall in
`supervisor_disrupted`. Its `Limits` are two mixes of external events, each of
which a behaviour stays within; events that no mix combines (a reinstall after an
uninstall beside a resume, say) are combined in the proofs, where `Limits` is
arbitrary. In the log, 9 lines fill and discard every
generation with both writers in flight; in the budgets, 6 ticks are three
windows, past two sweeps and two refills, and 6 events exceed every limit; in the
scan, the backoff reaches its cap and the quarantine; in `calls`, a piece of frame
left behind by one call can reach the next two and still leave a call to run
after. `budgets` and `calls` may stop at their bounds (`CHECK_DEADLOCK FALSE`); an
app side that has returned, and a Stop that nothing wakes, are ends too. The goroutines, the apps and handlers of `Extend`
are interchangeable, so the safety runs use symmetry; the liveness runs do not.

Four runs end in a violation, of something a comment or the change log says (the
findings in `PROJECT.json` quote it):

| Run | What is said | What the code does |
|---|---|---|
| `resume_while_live` | the resumed app's goroutine "has already returned" (supervisor.go:878) | a `.resume` for a running app starts a second supervisor and forgets how to cancel the first |
| `stop_without_deadline` | Stop waits "up to the ctx's deadline (or 5s if no deadline set)" (service.go:224) | it sets no such limit; after a Start whose scan failed nobody closes `doneCh`, and a Stop without a deadline waits for ever, with `startMu` held |
| `usage_events` | a usage event "after every call (success or failure)" (supervisor.go:1372) | a call whose dial fails (1431-1433) emits none |
| `crash_cap` | "5 crashes in 60s suspends an app" (CHANGELOG.md:112) | the sixth does; the comments beside the code (supervisor.go:213, 231) say "exceed", which is what `SuspendedExactly` states |

`RequestsAnswered` makes one exception for the second of these: requests wait
while a Stop that nothing can wake holds the lock (`Hung`).

Other places where the code and its comments differ, found while modelling and
kept out of the properties:

- a replaced goroutine that has spent its verify budget suspends the record of
  its successor (`SuperviseCapRecord`, supervisor.go:1041; the comment at 785
  expects a clean record), and writes `.suspended` after the successor cleared
  it;
- what an out-of-process hook adds to `__meta_required` or `__meta_encoding` is
  dropped, its Go type having changed on the IPC hop (wiremeta.go:154, comment at
  extend.go:278);
- a peer that closes right after a length prefix counts as a clean end:
  `ReadFrame` wraps `io.EOF`, so `errors.Is` sees it, against frame.go:43 ("Any
  partial-frame condition is returned as a non-EOF error"). `CleanAt` has it, and
  `CleanEndAnswered` shows that it does no harm: the request was not whole;
- the quarantine's comment says it slows retries to the longest backoff; the
  delay goes on doubling as before, and "until re-installed" does not hold for
  the same manifest, whose record is kept by dir name and hash;
- the trail is "cumulative across the whole hook chain" (wiremeta.go:15), and
  cmdwrap_test.go:158 wants the stamps of both chains, for a core that hands its
  arguments on. One that returns a new map (as in cmdwrap_test.go:112) drops the
  stamps of the pre chain, a hook that returns one drops all earlier stamps, and
  so does a `__meta` that does not convert (`GetMeta`, wiremeta.go:59-66). The
  trail is what apps hand on, so it is not modelled;
- the footprint in the comment at supervisor.go:37-38, (backups+1) times the
  threshold, is exceeded by the lines of the writers that passed the size check
  before it was reached (`FileBound`);
- the comment of `Extension.Method` requires it in `exposes`; the check is
  skipped when `exposes` is empty (`ValidateExtension`);
- `Satisfy` of the payment registry promises registration order and goes through
  a map.

The models also reach these states, which a reader may not expect and which no
property excludes:

- two goroutines that rotate at once can replace a middle generation of the
  audit log, or write to a file already removed; `RetainsNewest` is about a sole
  writer;
- hooks, protection and exposed methods of an installed manifest can change
  without breaking its signature, which does not cover them (`AdoptedTrusted` is
  about grants and the binary);
- `beta.10` is older than `beta.2`, and a version part beyond an int is 0;
- `waitReady` runs under the goroutine's context, not the process's, and can
  mark an app ready that has crashed;
- the `reinstalled` flag can outlive the exit it was set for, when the goroutine
  is cancelled first, and then excuses the next crash;
- a stat of `rescanForGone` between the two renames of an install takes it for
  an uninstall; the next rescan adopts the app again;
- a call admitted by the old version of an app can be served by the new one,
  which need not expose the method;
- registering a hook again adds a second entry, and two registrations in flight
  can exceed the cap (by one: `CapOvershoot`);
- the backoff of a manifest is forgotten once another one was checked under the
  same dir name (`AttemptsSpaced` is about one manifest in a row).

### Fairness

Liveness is checked under `LiveSpec` of `Supervisor`, `Service` and `Scan`, and
under the fairness of `Service` and `Ipc` together in `MCCalls`. Goroutines
are scheduled, timers fire and system calls return (weak fairness of the
rescan and supervise steps). `stopAppGroup` ends in SIGKILL, so a process being
stopped exits. The rescan loop's `select` picks at random among ready cases, and
reading the directory does not fail for ever (strong fairness of its two
steps). A Go mutex starves nobody (strong fairness of the steps behind
`startMu`), a context that ends is noticed, and a cancelled `run()` drains (weak
fairness; `ShutdownDrains` is why). Nothing is assumed of a call dispatched to
the supervisor: it may never return. In `Scan` the rescan ticker keeps firing and time passes (weak
fairness of both); nobody need ever stop changing dirs, since `TrustedAdopted`
speaks of an app that is good from some point on. In `Ipc` both sides are
scheduled, the app's goroutine around `Serve` included, handlers return and
deadlines pass. In `Supervisor` nothing is assumed
of apps: they need not exit, bind, answer or obey the one SIGTERM of
`watchSocket`.

## 4. Proofs

- `SupervisorProofs`: `IInv` is inductive (`InvariantHolds`), hence `TypeOK`,
  `CancelTable`, `NoStraySupervisor`, `OneProcessPerBinary`, `DrainedOnExit`.
  None of these is inductive alone. `GoroutineOK` ties a process to its
  goroutine's place in `spawn`; `StartOK` says that before `startOne` the app to
  start is the installed one and the table empty, so the new entry is right;
  `ReapedOK` carries "no other process of this binary" from `reapStale` to
  `cmd.Start`. It needs `NoStraySupervisor`: only an uncancelled goroutine
  passes `cmd.Start`, and there is one. The resume path breaks this premise, so
  the two properties are stated for runs without it, and `resume_while_live`
  shows why.
- `SupervisorProofs` also has `ImplementsTable`, the refinement of `AppTable`,
  action by action. The one hard step is `cmd.Start` (`SpawnStartStep`): the
  goroutine is not cancelled, so by `NoStraySupervisor` it is the one in
  `appCancel`, so by `CancelTable` its bundle is the installed one, and by
  `ReapedOK` nobody runs the binary. Adoption needs `VerdictOK`: the snapshot a
  rescan acts on later was checked when it was taken.
- `ServiceProofs`: `ServiceInv`, hence `OneSupervisor`. `s.sup` is either nil or
  the latest generation, so a Start that finds nil finds every earlier run
  drained. `LockHeldByDrain` follows from the same invariant: only a Stop that
  waits for its drain holds the lock between steps.
- `BrokerProofs`: `BrokerInv`, hence `DialAuthorized`. What a call read was
  installed together, `past` never loses it, and beyond the gates it passes
  them.
- `ExtendProofs`: `ChainInv`, hence `NoHookSkipped` and `ChainInOrder`: a
  registration is numbered beyond every copy already made, and what ran of a
  copy comes before what is left. `CapOvershoot` from `CapInv`, which counts the
  handlers past the check as if they had registered.
- `AuditLogProofs`: `LogInv`, hence `FileBound` and the refinement of
  `RetainedLog`. `FileBound` is not inductive: `PendingInv` counts, beside the
  lines of a file, the writers that passed the size check and may still append to
  it. The refinement needs `SoleInv`: with one writer, newer lines are in lower
  generations, a rotation moves a file only where nothing is (so a gap left by a
  death is closed without loss), and what is left of a log whose oldest
  generation is removed is at least the full active file. Each rename is a
  stutter of `RetainedLog`, each removal a `Discard`.
- `LimiterProofs`: `LimiterInv`, hence the refinement of `SlidingWindow`,
  `WindowBound` and, over `Gates`, `ServedProven`. The invariant says a bucket
  holds every grant that still counts and nothing but grants; then the size of
  the pruned bucket is the number of grants in the window, and forgetting changes
  no answer. `NoStaleBuckets` is inductive with the clock behind `lastSweep`.
- `LimiterProofs`, over `MCBudgets`: `BudgetsInv`, hence `BucketExact` and
  `SuspendedExactly`. For the bucket (`BucketInv`), what a key has spent since any
  time and what is left never exceed a burst and the refill since, and equal it
  for some time, the one since which the bucket was never full: the first half is
  the upper bound, the second shows a refusal was due. For the crash window
  (`CrashInv`), what the record dropped is out of every window still to come.
- `ScanProofs`: `ScanInv`, hence `AdoptedTrusted`, `QuietWhenUnchanged` and
  `AttemptsSpaced`. `BackoffInv` ties a record to the failures since it was made:
  time passed and wait left make up the delay, and the delay is the one due after
  that many failures. `SettledInv` says what a scan leaves behind for a dir that
  does not change: a failure record exactly if it does not verify, and its note
  as logged; so the next scan of it logs nothing. `AdoptedInv` says that what was
  adopted and left alone would be adopted again. The delays are stated as
  sequences each twice the one before (`Delays`), not as powers of two.
- `IpcProofs`: `IpcInv`, hence `OwnReply`, `RunAtMostOnce` and
  `CleanEndAnswered`. The invariant describes the bytes under way: frames in the
  order of their calls, a body or a cut body only after its own header, `Serve`
  between two frames or inside the frame it has the header of (`PlaceInv`) or lost
  for good. Then requests reach the handler in order and whole (`RanInv`), every
  reply under way is one to a request that ran, and a request written whole is
  answered, in service or still under way (`SentInv`).
- Versions, in `SupervisorProofs`: `Older` is characterised part by part
  (`OlderByParts`); with it `NoRollback` (a chain of updates none of which is
  refused never ends at an older version) and `OneWay`.

The assumptions are the named `ASSUME`s of the modules: constants are of their
types and markers such as `NoBundle` are not members of the sets beside them.
`Service` and `Broker` need none.
The bounds on events (`Limits`, `MaxStarts`, `MaxBorn`, `MaxChanges`, `MaxLines`,
`MaxTime`, `MaxEvents`, `MaxCalls`) are arbitrary in the proofs, and so are the
limits of the code: retries, crashes, windows, rates, bursts, backoffs and the
number of generations. `InstallAssumption` says what an install root is: dirs
with the ids they may hold, and for each hash a manifest.

Only model-checked: the liveness properties (`ShutdownDrains`, `UninstallStops`,
`UpgradeApplied`, `RequestsAnswered`, `TrustedAdopted`, `CallReturns`), which
need fairness, out of this prover's reach; and the violations. Every other
property of the runs is a theorem.

## 5. Not modelled, and the plan

Left out for good:

- payment: its two registries are maps under a lock that no code but the tests
  calls, so there is no protocol to check; Seal and Unseal are cryptography;
- parsing and marshalling of manifests and the pattern matches of Validate: pure
  text;
- process arguments, resource limits, logging, the adapter, and all of the
  example app but its close after `Serve`: system calls and forwarding;
- the provenance trail (`wiremeta.go`): a sequential append to a value that hooks
  and core are free to replace, so that any promise about it is an assumption
  about them;
- of the hook registry, SetRateLimit, FlagsFor and the shape checks of hook
  points and flags.

What is left to do: connect `Broker` with `AppTable`, so that its table changes
only as the supervisor's does and what a call may assume of the app it dials is
proved of the composition; state for `Service` the promise its callers rely on
(started at most once, stopped for good) as an abstract specification; and say of
the hook registry that a chain run is one of some registry that existed between
its start and its end.
