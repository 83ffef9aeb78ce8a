-------------------------------- MODULE Scan --------------------------------
(***************************************************************************)
(* scanInstalled of plugin/appstore/supervisor.go over time: which dirs of *)
(* the install root a scan adopts, how it backs off from a manifest whose  *)
(* trust chain does not verify, and which lines it logs.  The rescan loop  *)
(* scans again and again while pilotctl installs, replaces and removes     *)
(* dirs and the catalogue's pins come and go.                              *)
(*                                                                         *)
(* One scan is one step: it examines each dir once, and the dirs meet only *)
(* in noteSkipped.  A dir holds a manifest by its sha256.  Times are kept   *)
(* relative (what is left of a wait), so the clock never runs out.         *)
(***************************************************************************)
EXTENDS Manifest

CONSTANTS
    Names,              \* names a dir of the install root can have
    AppIds,             \* the app ids among them
    PreviousOf,         \* name -> the app id it is "<id>.previous..." of, or None
    ManifestOf,         \* sha256 of a manifest -> the manifest
    Dirs,               \* name -> what its dir can hold
    Pins,               \* what the catalogue can pin for an app id
    SigBackoffStart,
    SigBackoffMax,
    SigQuarantineAfter

ASSUME BackoffAssumption ==
    /\ SigBackoffStart \in Nat \ {0}
    /\ SigBackoffMax \in Nat
    /\ SigBackoffStart <= SigBackoffMax
    /\ SigQuarantineAfter \in Nat \ {0}

None == "none"     \* no manifest, no app id

(* A dir: how reading and parsing its manifest ends, the manifest, the     *)
(* .sideloaded marker, and what the path of the binary resolves to.        *)
Dir(status, hash, side, bin) == [status |-> status, hash |-> hash, side |-> side, bin |-> bin]
NoDir == Dir("absent", None, FALSE, "plain")

(* A manifest names an app; a dir holds one when it parsed; and what reads *)
(* and parses badly is no verdict of the scan itself.                      *)
ASSUME InstallAssumption ==
    /\ None \notin Names /\ None \notin DOMAIN ManifestOf
    /\ AppIds \subseteq Names
    /\ \A h \in DOMAIN ManifestOf : ManifestOf[h].id \in AppIds
    /\ PreviousOf \in [Names -> AppIds \cup {None}]
    /\ \A n \in Names : \A d \in Dirs[n] :
         /\ d.status \notin {"adopt", "backoff", "untrusted", "escapes app dir", "symlink"}
         /\ d.status = "parsed" => d.hash \in DOMAIN ManifestOf
         /\ d.side \in BOOLEAN
         /\ d.bin \in {"plain", "escapes app dir", "symlink"}

VARIABLES
    dirs,         \* name -> what is there, or NoDir
    pin,          \* app id -> the publisher the catalogue pins for it, or NoPin
    sigFails,     \* name -> its sigFailRecord, or NoRecord
    skipLogged,   \* name -> the skip note last logged for it, or NoNote
    adopted,      \* names the last scan returned as installed apps
    logged,       \* <<name, kind of line>> the last scan logged
    touched,      \* names whose dir or pin changed since a scan last examined them
    retouched,    \* what touched was before the last scan
    failed        \* name -> the failures in a row seen of one manifest

vars == <<dirs, pin, sigFails, skipLogged, adopted, logged, touched, retouched, failed>>

NoRecord == [hash |-> None, fails |-> 0, backoff |-> 0, wait |-> 0]
NoFailure == [hash |-> None, run |-> 0, ago |-> 0]
NoNote == <<"none", None>>

Installs == {f \in [Names -> UNION {Dirs[n] : n \in Names}] : \A n \in Names : f[n] \in Dirs[n]}

Init == /\ dirs \in Installs
        /\ pin \in [AppIds -> Pins]
        /\ sigFails = [n \in Names |-> NoRecord]
        /\ skipLogged = [n \in Names |-> NoNote]
        /\ adopted = {}
        /\ logged = {}
        /\ touched = Names
        /\ retouched = {}
        /\ failed = [n \in Names |-> NoFailure]

ManifestAt(n) == ManifestOf[dirs[n].hash]

(* The manifests that pass each check, by hash.                            *)
Passing(Check(_)) == {h \in DOMAIN ManifestOf : Check(ManifestOf[h])}
Valid == Passing(Validate)
Sideloadable == Passing(EnforceSideloadPolicy)
Signed == Passing(VerifySignature)

-----------------------------------------------------------------------------
(* Faulty variant: a quarantined manifest is never looked at again.        *)
ShouldAttemptSignatureNever(n) ==
    \/ sigFails[n].hash # dirs[n].hash
    \/ sigFails[n].wait = 0 /\ sigFails[n].fails < SigQuarantineAfter

(* A same-hash failure is attempted again once its backoff has elapsed.    *)
ShouldAttemptSignature(n) ==
    sigFails[n].hash # dirs[n].hash \/ sigFails[n].wait = 0

(* Faulty variant: the delay doubles without end.                          *)
NextBackoffUncapped(cur) == 2 * cur

NextBackoff(cur) == IF 2 * cur > SigBackoffMax THEN SigBackoffMax ELSE 2 * cur

(* Faulty variant: every failure starts the backoff over.                  *)
NoteSignatureFailureFlat(rec, hash) ==
    LET count == IF rec.hash = hash THEN rec.fails + 1 ELSE 1
    IN  [hash |-> hash,
         fails |-> IF count > SigQuarantineAfter THEN SigQuarantineAfter + 1 ELSE count,
         backoff |-> SigBackoffStart,
         wait |-> SigBackoffStart]

(* The record after one more failure.  Counting stops at the quarantine:   *)
(* beyond it fails is not looked at again.                                 *)
NoteSignatureFailure(rec, hash) ==
    LET same == rec.hash = hash
        delay == IF same THEN NextBackoff(rec.backoff) ELSE SigBackoffStart
        count == IF same THEN rec.fails + 1 ELSE 1
    IN  [hash |-> hash,
         fails |-> IF count > SigQuarantineAfter THEN SigQuarantineAfter + 1 ELSE count,
         backoff |-> delay,
         wait |-> delay]

(* An interrupted swap leaves <id>.previous without <id> beside it.        *)
MisnamedNote(n, id) ==
    IF PreviousOf[n] = id /\ dirs[id] = NoDir
    THEN <<"previous of uninstalled", id>>
    ELSE <<"misnamed", id>>

(* Faulty variant: any publisher's signature will do.                      *)
TrustChainUnpinned(n) == dirs[n].hash \in Signed

TrustChain(n) == /\ dirs[n].hash \in Signed
                 /\ VerifyTrustAnchor(ManifestAt(n), pin[ManifestAt(n).id])

(* What a scan makes of dir n, check by check in the code's order: a skip  *)
(* note, or that it is adopted, waits for its backoff or is not trusted.   *)
Examine(n) ==
    LET h == dirs[n].hash
        m == ManifestAt(n)
        side == dirs[n].side
    IN  IF dirs[n].status # "parsed" THEN <<dirs[n].status, None>>
        ELSE IF h \notin Valid THEN <<"invalid manifest", h>>
        ELSE IF m.id # n THEN MisnamedNote(n, m.id)
        ELSE IF side /\ h \notin Sideloadable THEN <<"sideload policy", h>>
        ELSE IF ~side /\ ~ShouldAttemptSignature(n) THEN <<"backoff", None>>
        ELSE IF ~side /\ ~TrustChain(n) THEN <<"untrusted", None>>
        ELSE IF dirs[n].bin # "plain" THEN <<dirs[n].bin, h>>
        ELSE <<"adopt", None>>

Skipped(result) == result[1] \notin {"absent", "adopt", "backoff", "untrusted"}
Untrusted(result) == result[1] = "untrusted"
Verified(n, result) ==
    ~dirs[n].side /\ result[1] \in {"adopt", "escapes app dir", "symlink"}

(* Faulty variant: only the notes that are new are remembered.             *)
NoteSkippedFresh(found) ==
    [n \in Names |-> IF Skipped(found[n]) /\ skipLogged[n] # found[n] THEN found[n] ELSE NoNote]

(* noteSkipped: a note is logged when it is not the one logged last, and   *)
(* names that were not skipped this time are forgotten.                    *)
NoteSkipped(found) == [n \in Names |-> IF Skipped(found[n]) THEN found[n] ELSE NoNote]

(* The lines a scan logs of dir n: a new skip note, the first failure of a *)
(* manifest, its quarantine, and that it verifies after all.               *)
Lines(n, result) ==
    LET rec == NoteSignatureFailure(sigFails[n], dirs[n].hash)
    IN  {l \in {"skip", "failure", "quarantine", "recovered"} :
            \/ l = "skip" /\ Skipped(result) /\ skipLogged[n] # result
            \/ l = "failure" /\ Untrusted(result) /\ rec.hash # sigFails[n].hash
            \/ l = "quarantine" /\ Untrusted(result) /\ rec.fails = SigQuarantineAfter
            \/ l = "recovered" /\ Verified(n, result) /\ sigFails[n] # NoRecord}

(* What the properties remember of the failures of one manifest in a row:  *)
(* how many, and how long ago the last one was.                            *)
Remember(n, result) ==
    CASE Untrusted(result) -> [hash |-> dirs[n].hash,
                               run |-> IF failed[n].hash = dirs[n].hash THEN failed[n].run + 1 ELSE 1,
                               ago |-> 0]
      [] Verified(n, result) -> NoFailure
      [] OTHER -> failed[n]

MaxRun == SigQuarantineAfter + 1     \* bound on the failures remembered
Capped(f) == [f EXCEPT !.run = IF @ > MaxRun THEN MaxRun ELSE @]

(* One whole scan; found are its verdicts, each taken once.                *)
ScanInstalled ==
    \E found \in {[n \in Names |-> Examine(n)]} :
        /\ UNCHANGED <<dirs, pin>>
        /\ retouched' = touched
        /\ sigFails' = [n \in Names |->
                CASE Untrusted(found[n]) -> NoteSignatureFailure(sigFails[n], dirs[n].hash)
                  [] Verified(n, found[n]) -> NoRecord          \* clearSignatureFailure
                  [] OTHER -> sigFails[n]]
        /\ skipLogged' = NoteSkipped(found)
        /\ adopted' = {n \in Names : found[n][1] = "adopt"}
        /\ logged' = UNION {{n} \X Lines(n, found[n]) : n \in Names}
        /\ failed' = [n \in Names |-> Capped(Remember(n, found[n]))]
        /\ touched' = {n \in touched : found[n][1] = "backoff"}

-----------------------------------------------------------------------------
Waiting == \E n \in Names : sigFails[n].wait > 0

(* Time passes.  Longer than the longest backoff is all the same.          *)
Tick == /\ Waiting
        /\ UNCHANGED <<dirs, pin, skipLogged, adopted, logged, touched, retouched>>
        /\ sigFails' = [n \in Names |-> IF sigFails[n].wait > 0
                                        THEN [sigFails[n] EXCEPT !.wait = @ - 1]
                                        ELSE sigFails[n]]
        /\ failed' = [n \in Names |-> IF failed[n].run > 0 /\ failed[n].ago < SigBackoffMax
                                      THEN [failed[n] EXCEPT !.ago = @ + 1]
                                      ELSE failed[n]]

Touch(n) == /\ touched' = touched \cup {n}
            /\ UNCHANGED <<sigFails, skipLogged, adopted, logged, retouched, failed>>

(* pilotctl installs, replaces or removes what is under one name.          *)
ChangeDir(n) == /\ \E d \in Dirs[n] : d # dirs[n] /\ dirs' = [dirs EXCEPT ![n] = d]
                /\ Touch(n)
                /\ UNCHANGED pin

(* The catalogue is fetched anew, or cannot be read.                       *)
ChangePin(id) == /\ \E p \in Pins : p # pin[id] /\ pin' = [pin EXCEPT ![id] = p]
                 /\ Touch(id)
                 /\ UNCHANGED dirs

Next == \/ ScanInstalled
        \/ Tick
        \/ \E n \in Names : ChangeDir(n)
        \/ \E id \in AppIds : ChangePin(id)

Spec == Init /\ [][Next]_vars

(* The rescan ticker scans for ever and time passes.                       *)
LiveSpec == Spec /\ WF_vars(ScanInstalled) /\ WF_vars(Tick)

-----------------------------------------------------------------------------
Hashes == DOMAIN ManifestOf \cup {None}

TypeOK == /\ dirs \in Installs
          /\ pin \in [AppIds -> Pins]
          /\ sigFails \in [Names -> [hash : Hashes, fails : 0 .. SigQuarantineAfter + 1,
                                     backoff : 0 .. SigBackoffMax, wait : 0 .. SigBackoffMax]]
          /\ DOMAIN skipLogged = Names
          /\ adopted \subseteq Names
          /\ logged \subseteq Names \X {"skip", "failure", "quarantine", "recovered"}
          /\ touched \subseteq Names /\ retouched \subseteq Names
          /\ failed \in [Names -> [hash : Hashes, run : 0 .. MaxRun, ago : 0 .. SigBackoffMax]]

(* What a manifest asks for beyond logging and the app's own dir.          *)
Privileged(m) == \/ \E g \in m.grants : ~(g.cap = "audit.log" \/ g.target = "under $APP")
                 \/ m.extends # {} \/ m.dynamicExtends # {}

(* Trust: whatever was installed, pinned and cached before, an app the     *)
(* last scan returned has the dir of its id, and if it asks for anything   *)
(* outside that dir, its grants and its binary were signed by the key that *)
(* the catalogue pinned at that scan.  A .sideloaded marker never buys     *)
(* more.                                                                   *)
AdoptedTrusted ==
    \A n \in adopted \ touched :
        /\ ManifestAt(n).id = n
        /\ Privileged(ManifestAt(n)) =>
             /\ ManifestAt(n).signature.by = pin[n]
             /\ ManifestAt(n).signature.over.grants = ManifestAt(n).grants
             /\ ManifestAt(n).signature.over.sha256 = ManifestAt(n).sha256

(* Quiet log: a scan reports a skip or a signature failure only of a dir   *)
(* that changed, or whose app's dir did, since a scan last examined it;    *)
(* however often the scan runs, nothing is reported twice.                 *)
QuietWhenUnchanged ==
    \A line \in logged : line[2] \in {"skip", "failure"} =>
        line[1] \in retouched \/ PreviousOf[line[1]] \in retouched

(* The delays after so many failures in a row: each twice the one before,  *)
(* up to the longest.                                                      *)
Delays(run) ==
    {d \in [1 .. run -> 0 .. SigBackoffMax] :
        /\ d[1] = SigBackoffStart
        /\ \A k \in 1 .. run - 1 :
             d[k + 1] = IF d[k] + d[k] > SigBackoffMax THEN SigBackoffMax ELSE d[k] + d[k]}

Spaced(run, time) == \E d \in Delays(run) : time >= d[run]

(* No hot loop: a manifest that has failed k times in a row is not         *)
(* verified again before the k-th of the doubling delays has passed, also  *)
(* when its dir was empty or its app unfit in between.  Another manifest   *)
(* checked in that dir, good or bad, takes its record away.                *)
AttemptsSpaced ==
    \A n \in Names :
        Untrusted(Examine(n)) /\ failed[n].hash = dirs[n].hash =>
            failed[n].run > 0 /\ Spaced(failed[n].run, failed[n].ago)

Healthy(n) == /\ dirs[n].status = "parsed"
              /\ dirs[n].hash \in Valid
              /\ ManifestAt(n).id = n
              /\ dirs[n].bin = "plain"
              /\ IF dirs[n].side THEN dirs[n].hash \in Sideloadable
                                 ELSE TrustChain(n)

(* Recovery: an app whose dir and pin are good, and stay so, ends up       *)
(* adopted for good: no quarantine is for ever.                            *)
TrustedAdopted == \A n \in AppIds : <>[]Healthy(n) => <>[](n \in adopted)

-----------------------------------------------------------------------------
(* The inductive invariant.                                                *)

(* The dirs whose verdict the signature decides.                           *)
AtSignature(n) == /\ dirs[n].status = "parsed"
                  /\ dirs[n].hash \in Valid
                  /\ ManifestAt(n).id = n
                  /\ ~dirs[n].side

(* The failures on record are those of the manifest they are kept for, and *)
(* what is left of the wait and what has passed make up the delay.         *)
BackoffInv ==
    \A n \in Names :
        /\ failed[n].hash = sigFails[n].hash
        /\ sigFails[n].hash = None => sigFails[n] = NoRecord /\ failed[n] = NoFailure
        /\ sigFails[n].hash # None =>
             /\ failed[n].run > 0 /\ Spaced(failed[n].run, sigFails[n].backoff)
             /\ failed[n].ago + sigFails[n].wait >= sigFails[n].backoff

(* What was examined and has not changed since: it has a record exactly    *)
(* when it does not verify, and its note is the one logged last.           *)
SettledInv ==
    \A n \in Names \ touched :
        /\ AtSignature(n) => (sigFails[n].hash = dirs[n].hash <=> ~TrustChain(n))
        /\ PreviousOf[n] \notin touched /\ Skipped(Examine(n)) => skipLogged[n] = Examine(n)

(* What was adopted and has not changed since would be adopted again.      *)
AdoptedInv == \A n \in adopted \ touched : Healthy(n)

(* Between any two scans, whatever is installed, swapped or pinned.        *)
ScanInv == TypeOK /\ BackoffInv /\ SettledInv /\ AdoptedInv
=============================================================================
