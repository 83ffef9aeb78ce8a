----------------------------- MODULE ScanProofs -----------------------------
(***************************************************************************)
(* The scan over time, for any names, manifests, pins and delays: only     *)
(* what is trusted is adopted, nothing unchanged is reported again, and a  *)
(* manifest that keeps failing is tried ever more slowly.                  *)
(***************************************************************************)
EXTENDS Scan, TLAPS

(* What a dir can hold, and what is on record for it.                      *)
LEMMA DirTypes ==
    ASSUME TypeOK, NEW n \in Names
    PROVE  /\ dirs[n] \in Dirs[n]
           /\ dirs[n].status \notin {"adopt", "backoff", "untrusted", "escapes app dir", "symlink"}
           /\ dirs[n].status = "parsed" => dirs[n].hash \in DOMAIN ManifestOf /\ dirs[n].hash # None
           /\ dirs[n].side \in BOOLEAN
           /\ dirs[n].bin \in {"plain", "escapes app dir", "symlink"}
           /\ PreviousOf[n] \in AppIds \cup {None}
  <1>1. dirs[n] \in Dirs[n]
    BY DEF TypeOK, Installs
  <1>2. PreviousOf[n] \in AppIds \cup {None}
    BY InstallAssumption
  <1>3. \A d \in Dirs[n] :
           /\ d.status \notin {"adopt", "backoff", "untrusted", "escapes app dir", "symlink"}
           /\ d.status = "parsed" => d.hash \in DOMAIN ManifestOf
           /\ d.side \in BOOLEAN
           /\ d.bin \in {"plain", "escapes app dir", "symlink"}
    BY InstallAssumption
  <1>4. None \notin DOMAIN ManifestOf
    BY InstallAssumption
  <1> HIDE DEF None
  <1> QED
    BY <1>1, <1>2, <1>3, <1>4

LEMMA RecordTypes ==
    ASSUME TypeOK, NEW n \in Names
    PROVE  /\ sigFails[n].hash \in Hashes
           /\ sigFails[n].fails \in 0 .. SigQuarantineAfter + 1
           /\ sigFails[n].backoff \in 0 .. SigBackoffMax
           /\ sigFails[n].wait \in 0 .. SigBackoffMax
           /\ failed[n].hash \in Hashes
           /\ failed[n].run \in 0 .. MaxRun
           /\ failed[n].ago \in 0 .. SigBackoffMax
  BY DEF TypeOK

-----------------------------------------------------------------------------
(* The verdict on one dir.                                                 *)

LEMMA FirstOf == \A a, b : <<a, b>>[1] = a
  OBVIOUS

(* The signature decides the verdict on exactly the dirs AtSignature.      *)
LEMMA Verdict ==
    ASSUME TypeOK, NEW n \in Names
    PROVE  /\ Examine(n)[1] = "backoff" <=> AtSignature(n) /\ ~ShouldAttemptSignature(n)
           /\ Untrusted(Examine(n)) <=>
                AtSignature(n) /\ ShouldAttemptSignature(n) /\ ~TrustChain(n)
           /\ Verified(n, Examine(n)) <=>
                AtSignature(n) /\ ShouldAttemptSignature(n) /\ TrustChain(n)
           /\ AtSignature(n) => dirs[n].hash \in DOMAIN ManifestOf /\ dirs[n].hash # None
  <1>0. AtSignature(n) => dirs[n].hash \in DOMAIN ManifestOf /\ dirs[n].hash # None
    BY DirTypes DEF AtSignature
  <1> SUFFICES /\ Examine(n)[1] = "backoff" <=> AtSignature(n) /\ ~ShouldAttemptSignature(n)
               /\ Untrusted(Examine(n)) <=>
                    AtSignature(n) /\ ShouldAttemptSignature(n) /\ ~TrustChain(n)
               /\ Verified(n, Examine(n)) <=>
                    AtSignature(n) /\ ShouldAttemptSignature(n) /\ TrustChain(n)
    BY <1>0
  <1> DEFINE st == dirs[n].status
             h == dirs[n].hash
             id == ManifestAt(n).id
             side == dirs[n].side
             bin == dirs[n].bin
  <1>1. /\ st \notin {"adopt", "backoff", "untrusted", "escapes app dir", "symlink"}
        /\ st = "parsed" => h \in DOMAIN ManifestOf /\ h # None
        /\ side \in BOOLEAN
        /\ bin \in {"plain", "escapes app dir", "symlink"}
    BY DirTypes
  <1>2. MisnamedNote(n, id)[1] \in {"previous of uninstalled", "misnamed"}
    BY DEF MisnamedNote
  <1>3. Examine(n) =
          IF st # "parsed" THEN <<st, None>>
          ELSE IF h \notin Valid THEN <<"invalid manifest", h>>
          ELSE IF id # n THEN MisnamedNote(n, id)
          ELSE IF side /\ h \notin Sideloadable THEN <<"sideload policy", h>>
          ELSE IF ~side /\ ~ShouldAttemptSignature(n) THEN <<"backoff", None>>
          ELSE IF ~side /\ ~TrustChain(n) THEN <<"untrusted", None>>
          ELSE IF bin # "plain" THEN <<bin, h>>
          ELSE <<"adopt", None>>
    BY DEF Examine
  <1>4. AtSignature(n) <=> st = "parsed" /\ h \in Valid /\ id = n /\ ~side
    BY DEF AtSignature
  <1> HIDE DEF st, h, id, side, bin
  <1>5. Verified(n, Examine(n)) <=> ~side /\ Examine(n)[1] \in {"adopt", "escapes app dir", "symlink"}
    BY DEF Verified, side
  <1>6. CASE st # "parsed"
    <2>1. Examine(n)[1] = st
      BY <1>3, <1>6
    <2> QED
      BY <1>1, <1>4, <1>5, <1>6, <2>1 DEF Untrusted
  <1>7. CASE st = "parsed" /\ h \notin Valid
    <2>1. Examine(n) = <<"invalid manifest", h>>
      BY <1>3, <1>7
    <2>2. Examine(n)[1] = "invalid manifest"
      BY <2>1, FirstOf
    <2> QED
      BY <1>4, <1>5, <1>7, <2>2 DEF Untrusted
  <1>8. CASE st = "parsed" /\ h \in Valid /\ id # n
    <2>1. Examine(n) = MisnamedNote(n, id)
      BY <1>3, <1>8
    <2> QED
      BY <1>2, <1>4, <1>5, <1>8, <2>1 DEF Untrusted
  <1>9. CASE st = "parsed" /\ h \in Valid /\ id = n /\ side
    <2>1. Examine(n) = IF h \notin Sideloadable THEN <<"sideload policy", h>>
                       ELSE IF bin # "plain" THEN <<bin, h>> ELSE <<"adopt", None>>
      BY <1>3, <1>9
    <2>2. Examine(n)[1] = IF h \notin Sideloadable THEN "sideload policy"
                          ELSE IF bin # "plain" THEN bin ELSE "adopt"
      BY <2>1, FirstOf
    <2> QED
      BY <1>1, <1>4, <1>5, <1>9, <2>2 DEF Untrusted
  <1>10. CASE st = "parsed" /\ h \in Valid /\ id = n /\ ~side
    <2>1. CASE ~ShouldAttemptSignature(n)
      <3>1. Examine(n) = <<"backoff", None>>
        BY <1>3, <1>10, <2>1
      <3> QED
        BY <1>4, <1>5, <1>10, <2>1, <3>1 DEF Untrusted
    <2>2. CASE ShouldAttemptSignature(n) /\ ~TrustChain(n)
      <3>1. Examine(n) = <<"untrusted", None>>
        BY <1>3, <1>10, <2>2
      <3> QED
        BY <1>4, <1>5, <1>10, <2>2, <3>1 DEF Untrusted
    <2>3. CASE ShouldAttemptSignature(n) /\ TrustChain(n)
      <3>1. Examine(n) = IF bin # "plain" THEN <<bin, h>> ELSE <<"adopt", None>>
        BY <1>3, <1>10, <2>3
      <3>2. Examine(n)[1] = IF bin # "plain" THEN bin ELSE "adopt"
        BY <3>1
      <3> QED
        BY <1>1, <1>4, <1>5, <1>10, <2>3, <3>2 DEF Untrusted
    <2> QED
      BY <2>1, <2>2, <2>3
  <1> QED
    BY <1>1, <1>6, <1>7, <1>8, <1>9, <1>10

(* What it takes to be adopted.                                            *)
LEMMA AdoptMeans ==
    ASSUME TypeOK, NEW n \in Names, Examine(n)[1] = "adopt"
    PROVE  Healthy(n)
  <1>1. /\ dirs[n].status # "adopt"
        /\ dirs[n].side \in BOOLEAN
        /\ dirs[n].bin \in {"plain", "escapes app dir", "symlink"}
    BY DirTypes
  <1>2. MisnamedNote(n, ManifestAt(n).id)[1] \in {"previous of uninstalled", "misnamed"}
    BY DEF MisnamedNote
  <1> QED
    BY <1>1, <1>2 DEF Examine, Healthy

(* A sideloaded app asks for nothing outside its dir, and a signature made *)
(* by the pinned key covers the grants and the binary.                     *)
LEMMA HealthyTrusted ==
    ASSUME TypeOK, NEW n \in Names, Healthy(n)
    PROVE  /\ ManifestAt(n).id = n
           /\ Privileged(ManifestAt(n)) =>
                /\ ManifestAt(n).signature.by = pin[n]
                /\ ManifestAt(n).signature.over.grants = ManifestAt(n).grants
                /\ ManifestAt(n).signature.over.sha256 = ManifestAt(n).sha256
  <1> DEFINE m == ManifestAt(n)
  <1>1. /\ dirs[n].hash \in DOMAIN ManifestOf /\ m.id = n
        /\ dirs[n].side => dirs[n].hash \in Sideloadable
        /\ ~dirs[n].side => TrustChain(n)
        /\ dirs[n].side \in BOOLEAN
    BY DirTypes DEF Healthy
  <1>2. CASE dirs[n].side
    <2>1. EnforceSideloadPolicy(m)
      BY <1>1, <1>2 DEF Sideloadable, Passing, ManifestAt
    <2>2. ~Privileged(m)
      BY <2>1 DEF EnforceSideloadPolicy, SideloadGrant, SideloadAllowedCaps, IsAppLocalTarget, Privileged
    <2> QED
      BY <1>1, <2>2
  <1>3. CASE ~dirs[n].side
    <2>1. VerifySignature(m) /\ m.publisher = pin[m.id]
      BY <1>1, <1>3 DEF TrustChain, Signed, Passing, ManifestAt, VerifyTrustAnchor
    <2> QED
      BY <1>1, <2>1 DEF VerifySignature, SigningPayload
  <1> QED
    BY <1>1, <1>2, <1>3

-----------------------------------------------------------------------------
(* The doubling delays.                                                    *)

LEMMA SpacedFirst == Spaced(1, SigBackoffStart)
  <1> DEFINE d == [k \in 1 .. 1 |-> SigBackoffStart]
  <1>1. d \in [1 .. 1 -> 0 .. SigBackoffMax] /\ d[1] = SigBackoffStart
    BY BackoffAssumption
  <1>2. d \in Delays(1)
    BY <1>1 DEF Delays
  <1> QED
    BY <1>1, <1>2, BackoffAssumption DEF Spaced

(* One failure more, and nextBackoff keeps up with the delays.             *)
LEMMA SpacedNext ==
    ASSUME NEW run \in Nat \ {0}, NEW b \in 0 .. SigBackoffMax, Spaced(run, b)
    PROVE  Spaced(run + 1, NextBackoff(b))
  <1> USE BackoffAssumption
  <1>1. PICK d \in Delays(run) : b >= d[run]
    BY DEF Spaced
  <1>2. /\ d \in [1 .. run -> 0 .. SigBackoffMax] /\ d[1] = SigBackoffStart
        /\ \A k \in 1 .. run - 1 :
             d[k + 1] = IF d[k] + d[k] > SigBackoffMax THEN SigBackoffMax ELSE d[k] + d[k]
    BY <1>1 DEF Delays
  <1> DEFINE last == IF d[run] + d[run] > SigBackoffMax THEN SigBackoffMax ELSE d[run] + d[run]
             e == [k \in 1 .. run + 1 |-> IF k <= run THEN d[k] ELSE last]
  <1>3. d[run] \in 0 .. SigBackoffMax
    BY <1>2
  <1>4. last \in 0 .. SigBackoffMax /\ NextBackoff(b) >= last
    BY <1>1, <1>3 DEF NextBackoff
  <1>5. e \in [1 .. run + 1 -> 0 .. SigBackoffMax] /\ e[1] = SigBackoffStart /\ e[run + 1] = last
    <2> HIDE DEF last
    <2> QED
      BY <1>2, <1>4
  <1>6. ASSUME NEW k \in 1 .. run + 1 - 1
        PROVE  e[k + 1] = IF e[k] + e[k] > SigBackoffMax THEN SigBackoffMax ELSE e[k] + e[k]
    <2>1. k \in 1 .. run /\ k \in 1 .. run + 1 /\ k + 1 \in 1 .. run + 1
      OBVIOUS
    <2>2. e[k] = d[k]
      BY <2>1
    <2>3. CASE k = run
      <3>1. e[k + 1] = last
        BY <1>5, <2>3
      <3> QED
        BY <2>2, <2>3, <3>1
    <2>4. CASE k # run
      <3>1. k \in 1 .. run - 1 /\ k + 1 <= run
        BY <2>1, <2>4
      <3>2. e[k + 1] = d[k + 1]
        BY <2>1, <3>1
      <3> QED
        BY <1>2, <2>2, <3>1, <3>2
    <2> QED
      BY <2>3, <2>4
  <1> HIDE DEF e, last
  <1>7. e \in Delays(run + 1)
    BY <1>5, <1>6 DEF Delays
  <1> QED
    BY <1>4, <1>5, <1>7 DEF Spaced

LEMMA SpacedLonger ==
    ASSUME NEW run \in Nat \ {0}, NEW b \in Nat, NEW c \in Nat, b <= c, Spaced(run, b)
    PROVE  Spaced(run, c)
  <1>1. PICK d \in Delays(run) : b >= d[run]
    BY DEF Spaced
  <1>2. d[run] \in Nat
    BY <1>1, BackoffAssumption DEF Delays
  <1> QED
    BY <1>1, <1>2 DEF Spaced

LEMMA ScanInit == Init => ScanInv /\ QuietWhenUnchanged
  <1> SUFFICES ASSUME Init PROVE ScanInv /\ QuietWhenUnchanged
    OBVIOUS
  <1> USE BackoffAssumption DEF Init
  <1>1. NoRecord \in [hash : Hashes, fails : 0 .. SigQuarantineAfter + 1,
                      backoff : 0 .. SigBackoffMax, wait : 0 .. SigBackoffMax]
    BY DEF NoRecord, Hashes
  <1>2. NoFailure \in [hash : Hashes, run : 0 .. MaxRun, ago : 0 .. SigBackoffMax]
    BY DEF NoFailure, Hashes, MaxRun
  <1>3. TypeOK
    BY <1>1, <1>2 DEF TypeOK
  <1>4. BackoffInv
    BY DEF BackoffInv, NoRecord, NoFailure
  <1> QED
    BY <1>3, <1>4 DEF ScanInv, SettledInv, AdoptedInv, QuietWhenUnchanged

-----------------------------------------------------------------------------
(* One scan.                                                               *)

(* What it does to the records of one dir.                                 *)
LEMMA ScanRecords ==
    ASSUME TypeOK, ScanInstalled, NEW n \in Names
    PROVE  /\ Untrusted(Examine(n)) =>
                /\ sigFails'[n] = NoteSignatureFailure(sigFails[n], dirs[n].hash)
                /\ failed'[n] = Capped(Remember(n, Examine(n)))
                /\ Remember(n, Examine(n)) =
                     [hash |-> dirs[n].hash,
                      run |-> IF failed[n].hash = dirs[n].hash THEN failed[n].run + 1 ELSE 1,
                      ago |-> 0]
           /\ Verified(n, Examine(n)) => sigFails'[n] = NoRecord /\ failed'[n] = NoFailure
           /\ ~Untrusted(Examine(n)) /\ ~Verified(n, Examine(n)) =>
                sigFails'[n] = sigFails[n] /\ failed'[n] = failed[n]
           /\ skipLogged'[n] = IF Skipped(Examine(n)) THEN Examine(n) ELSE NoNote
           /\ ~(Untrusted(Examine(n)) /\ Verified(n, Examine(n)))
  <1>1. ~(Untrusted(Examine(n)) /\ Verified(n, Examine(n)))
    BY Verdict
  <1>2. /\ sigFails'[n] = CASE Untrusted(Examine(n)) -> NoteSignatureFailure(sigFails[n], dirs[n].hash)
                            [] Verified(n, Examine(n)) -> NoRecord
                            [] OTHER -> sigFails[n]
        /\ failed'[n] = Capped(Remember(n, Examine(n)))
        /\ skipLogged'[n] = IF Skipped(Examine(n)) THEN Examine(n) ELSE NoNote
    BY DEF ScanInstalled, NoteSkipped
  <1>3. Remember(n, Examine(n)) =
          CASE Untrusted(Examine(n)) -> [hash |-> dirs[n].hash,
                               run |-> IF failed[n].hash = dirs[n].hash THEN failed[n].run + 1 ELSE 1,
                               ago |-> 0]
            [] Verified(n, Examine(n)) -> NoFailure
            [] OTHER -> failed[n]
    BY DEF Remember
  <1>4. failed[n].run \in Nat /\ failed[n].run <= MaxRun /\ MaxRun \in Nat
    BY RecordTypes, BackoffAssumption DEF MaxRun
  <1>5. failed[n] \in [hash : Hashes, run : 0 .. MaxRun, ago : 0 .. SigBackoffMax]
    BY DEF TypeOK
  <1>6. Capped(failed[n]) = failed[n]
    BY <1>4, <1>5 DEF Capped
  <1>7. Capped(NoFailure) = NoFailure
    BY <1>4 DEF Capped, NoFailure
  <1> QED
    BY <1>1, <1>2, <1>3, <1>6, <1>7

(* A failure is put on record with the delay that follows the last one.    *)
LEMMA FailureRecord ==
    ASSUME TypeOK, BackoffInv, NEW n \in Names, dirs[n].hash \in DOMAIN ManifestOf,
           NEW rec, rec = NoteSignatureFailure(sigFails[n], dirs[n].hash),
           NEW f, f = Capped([hash |-> dirs[n].hash,
                              run |-> IF failed[n].hash = dirs[n].hash THEN failed[n].run + 1 ELSE 1,
                              ago |-> 0])
    PROVE  /\ rec \in [hash : Hashes, fails : 0 .. SigQuarantineAfter + 1,
                       backoff : 0 .. SigBackoffMax, wait : 0 .. SigBackoffMax]
           /\ f \in [hash : Hashes, run : 0 .. MaxRun, ago : 0 .. SigBackoffMax]
           /\ rec.hash = dirs[n].hash /\ f.hash = dirs[n].hash
           /\ f.run > 0 /\ Spaced(f.run, rec.backoff)
           /\ f.ago + rec.wait >= rec.backoff
  <1> USE BackoffAssumption
  <1> DEFINE h == dirs[n].hash
             same == sigFails[n].hash = h
             delay == IF same THEN NextBackoff(sigFails[n].backoff) ELSE SigBackoffStart
             count == IF same THEN sigFails[n].fails + 1 ELSE 1
             run == IF same THEN failed[n].run + 1 ELSE 1
  <1>1. /\ sigFails[n].fails \in 0 .. SigQuarantineAfter + 1
        /\ sigFails[n].backoff \in 0 .. SigBackoffMax
        /\ failed[n].run \in 0 .. MaxRun
        /\ MaxRun \in Nat \ {0}
    BY RecordTypes DEF MaxRun
  <1>2. failed[n].hash = sigFails[n].hash
    BY DEF BackoffInv
  <1>3. h # None /\ h \in Hashes
    BY InstallAssumption DEF Hashes
  <1>4. same => failed[n].run > 0 /\ Spaced(failed[n].run, sigFails[n].backoff)
    BY <1>3 DEF BackoffInv
  <1>5. delay \in 0 .. SigBackoffMax /\ count \in Nat /\ run \in Nat \ {0}
    BY <1>1 DEF NextBackoff
  <1>6. Spaced(run, delay)
    <2>1. CASE same
      BY <1>1, <1>4, <2>1, SpacedNext
    <2>2. CASE ~same
      BY <2>2, SpacedFirst
    <2> QED
      BY <2>1, <2>2
  <1>7. ~same => run = 1
    OBVIOUS
  <1>8. rec = [hash |-> h,
               fails |-> IF count > SigQuarantineAfter THEN SigQuarantineAfter + 1 ELSE count,
               backoff |-> delay, wait |-> delay]
    BY DEF NoteSignatureFailure
  <1>9. f = [hash |-> h, run |-> IF run > MaxRun THEN MaxRun ELSE run, ago |-> 0]
    BY <1>2 DEF Capped
  <1>10. Spaced(IF run > MaxRun THEN MaxRun ELSE run, delay)
    <2>1. CASE run > MaxRun
      <3>1. same /\ failed[n].run = MaxRun
        BY <1>1, <2>1
      <3>2. sigFails[n].backoff <= delay
        BY <1>1, <3>1 DEF NextBackoff
      <3> HIDE DEF delay
      <3> QED
        BY <1>1, <1>4, <1>5, <2>1, <3>1, <3>2, SpacedLonger
    <2>2. CASE ~(run > MaxRun)
      BY <1>6, <2>2
    <2> QED
      BY <2>1, <2>2
  <1> HIDE DEF h, delay, count, run
  <1>11. /\ rec \in [hash : Hashes, fails : 0 .. SigQuarantineAfter + 1,
                     backoff : 0 .. SigBackoffMax, wait : 0 .. SigBackoffMax]
         /\ rec.hash = h /\ rec.backoff = delay /\ rec.wait = delay
    BY <1>3, <1>5, <1>8
  <1>12. /\ f \in [hash : Hashes, run : 0 .. MaxRun, ago : 0 .. SigBackoffMax]
         /\ f.hash = h /\ f.run > 0 /\ f.ago = 0
         /\ f.run = IF run > MaxRun THEN MaxRun ELSE run
    BY <1>1, <1>3, <1>5, <1>9
  <1> QED
    BY <1>5, <1>10, <1>11, <1>12 DEF h

LEMMA ScanTypes ==
    ASSUME ScanInv, ScanInstalled
    PROVE  TypeOK'
  <1> USE BackoffAssumption
  <1> DEFINE Recs == [hash : Hashes, fails : 0 .. SigQuarantineAfter + 1,
                      backoff : 0 .. SigBackoffMax, wait : 0 .. SigBackoffMax]
             Fails == [hash : Hashes, run : 0 .. MaxRun, ago : 0 .. SigBackoffMax]
  <1>1. TypeOK /\ BackoffInv
    BY DEF ScanInv
  <1>2. NoRecord \in Recs
    BY DEF NoRecord, Hashes
  <1>3. NoFailure \in Fails
    BY DEF NoFailure, Hashes, MaxRun
  <1>4. ASSUME NEW n \in Names
        PROVE  sigFails'[n] \in Recs /\ failed'[n] \in Fails
    <2>1. CASE Untrusted(Examine(n))
      <3>1. dirs[n].hash \in DOMAIN ManifestOf
        BY <1>1, <2>1, Verdict
      <3> QED
        BY <1>1, <2>1, <3>1, ScanRecords, FailureRecord
    <2>2. CASE Verified(n, Examine(n))
      BY <1>1, <1>2, <1>3, <2>2, ScanRecords
    <2>3. CASE ~Untrusted(Examine(n)) /\ ~Verified(n, Examine(n))
      BY <1>1, <2>3, ScanRecords DEF TypeOK
    <2> QED
      BY <2>1, <2>2, <2>3
  <1> HIDE DEF Recs, Fails
  <1>5. sigFails' \in [Names -> Recs] /\ failed' \in [Names -> Fails]
    <2>1. /\ sigFails' = [n \in Names |-> sigFails'[n]]
          /\ failed' = [n \in Names |-> failed'[n]]
      BY DEF ScanInstalled
    <2> QED
      BY <1>4, <2>1
  <1>6. DOMAIN skipLogged' = Names
    BY DEF ScanInstalled, NoteSkipped
  <1>7. logged' \subseteq Names \X {"skip", "failure", "quarantine", "recovered"}
    <2>1. \A n \in Names : Lines(n, Examine(n)) \subseteq {"skip", "failure", "quarantine", "recovered"}
      BY DEF Lines
    <2> QED
      BY <2>1 DEF ScanInstalled
  <1>8. adopted' \subseteq Names /\ touched' \subseteq Names /\ retouched' \subseteq Names
    BY <1>1 DEF ScanInstalled, TypeOK
  <1>9. dirs' \in Installs /\ pin' \in [AppIds -> Pins]
    BY <1>1 DEF ScanInstalled, TypeOK
  <1> QED
    BY <1>5, <1>6, <1>7, <1>8, <1>9 DEF TypeOK, Recs, Fails

LEMMA ScanBackoff ==
    ASSUME ScanInv, ScanInstalled
    PROVE  BackoffInv'
  <1> SUFFICES ASSUME NEW n \in Names
               PROVE  /\ failed'[n].hash = sigFails'[n].hash
                      /\ sigFails'[n].hash = None => sigFails'[n] = NoRecord /\ failed'[n] = NoFailure
                      /\ sigFails'[n].hash # None =>
                           /\ failed'[n].run > 0 /\ Spaced(failed'[n].run, sigFails'[n].backoff)
                           /\ failed'[n].ago + sigFails'[n].wait >= sigFails'[n].backoff
    BY DEF BackoffInv, Spaced, Delays
  <1>1. TypeOK /\ BackoffInv
    BY DEF ScanInv
  <1>2. CASE Untrusted(Examine(n))
    <2>1. dirs[n].hash \in DOMAIN ManifestOf /\ dirs[n].hash # None
      BY <1>1, <1>2, Verdict
    <2> QED
      BY <1>1, <1>2, <2>1, ScanRecords, FailureRecord
  <1>3. CASE Verified(n, Examine(n))
    BY <1>1, <1>3, ScanRecords DEF NoRecord, NoFailure
  <1>4. CASE ~Untrusted(Examine(n)) /\ ~Verified(n, Examine(n))
    BY <1>1, <1>4, ScanRecords DEF BackoffInv
  <1> QED
    BY <1>2, <1>3, <1>4

(* After a scan every dir has its verdict on record.                       *)
LEMMA ScanSettled ==
    ASSUME ScanInv, ScanInstalled
    PROVE  SettledInv'
  <1>1. TypeOK /\ BackoffInv /\ SettledInv /\ TypeOK'
    BY ScanTypes DEF ScanInv
  <1>2. dirs' = dirs /\ pin' = pin
    BY DEF ScanInstalled
  <1>3. ASSUME NEW n \in Names
        PROVE  /\ AtSignature(n)' <=> AtSignature(n)
               /\ TrustChain(n)' <=> TrustChain(n)
               /\ (ShouldAttemptSignature(n) <=> ShouldAttemptSignature(n)') => Examine(n)' = Examine(n)
               /\ ~AtSignature(n) => Examine(n)' = Examine(n)
    <2>1. AtSignature(n)' <=> AtSignature(n)
      BY <1>2 DEF AtSignature, ManifestAt, Valid, Passing
    <2>2. TrustChain(n)' <=> TrustChain(n)
      BY <1>2 DEF TrustChain, ManifestAt, Signed, Passing
    <2>3. (ShouldAttemptSignature(n) <=> ShouldAttemptSignature(n)') => Examine(n)' = Examine(n)
      BY <1>2, <2>2 DEF Examine, ManifestAt, MisnamedNote
    <2>4. ~AtSignature(n) => Examine(n)' = Examine(n)
      BY <1>2, <2>2 DEF Examine, ManifestAt, MisnamedNote, AtSignature
    <2> QED
      BY <2>1, <2>2, <2>3, <2>4
  <1>4. ASSUME NEW n \in Names, AtSignature(n), ShouldAttemptSignature(n), TrustChain(n)
        PROVE  /\ sigFails'[n].hash = None /\ None # dirs[n].hash
               /\ ShouldAttemptSignature(n)'
    <2>1. sigFails'[n] = NoRecord /\ dirs[n].hash # None
      BY <1>1, <1>4, Verdict, ScanRecords
    <2>2. sigFails'[n].hash = None /\ None # dirs[n].hash
      BY <2>1 DEF NoRecord
    <2> HIDE DEF None
    <2> QED
      BY <1>2, <2>2 DEF ShouldAttemptSignature
  <1>5. ASSUME NEW n \in Names, AtSignature(n), ShouldAttemptSignature(n), ~TrustChain(n)
        PROVE  /\ sigFails'[n].hash = dirs[n].hash
               /\ ~Skipped(Examine(n)')
    <2>1. sigFails'[n] = NoteSignatureFailure(sigFails[n], dirs[n].hash)
      BY <1>1, <1>5, Verdict, ScanRecords
    <2>2. sigFails'[n].hash = dirs[n].hash
      BY <2>1 DEF NoteSignatureFailure
    <2>3. Examine(n)' \in {<<"backoff", None>>, <<"untrusted", None>>}
      BY <1>2, <1>3, <1>5 DEF Examine, ManifestAt, AtSignature
    <2> QED
      BY <2>2, <2>3 DEF Skipped
  <1>6. ASSUME NEW n \in Names, AtSignature(n), ~ShouldAttemptSignature(n)
        PROVE  /\ sigFails'[n] = sigFails[n] /\ Examine(n)' = Examine(n)
               /\ Examine(n)[1] = "backoff" /\ sigFails[n].hash = dirs[n].hash
    <2>1. Examine(n)[1] = "backoff" /\ ~Untrusted(Examine(n)) /\ ~Verified(n, Examine(n))
      BY <1>1, <1>6, Verdict
    <2>2. sigFails'[n] = sigFails[n]
      BY <1>1, <2>1, ScanRecords
    <2>3. ShouldAttemptSignature(n) <=> ShouldAttemptSignature(n)'
      BY <1>2, <2>2 DEF ShouldAttemptSignature
    <2> QED
      BY <1>3, <1>6, <2>1, <2>2, <2>3 DEF ShouldAttemptSignature
  <1>7. ASSUME NEW n \in Names \ touched', AtSignature(n)
        PROVE  sigFails'[n].hash = dirs[n].hash <=> ~TrustChain(n)
    <2>1. CASE ~ShouldAttemptSignature(n)
      <3>1. sigFails'[n] = sigFails[n] /\ Examine(n)[1] = "backoff"
        BY <1>6, <1>7, <2>1
      <3>2. n \notin touched
        BY <1>7, <3>1 DEF ScanInstalled
      <3> QED
        BY <1>1, <1>7, <3>1, <3>2 DEF SettledInv
    <2>2. CASE ShouldAttemptSignature(n)
      BY <1>4, <1>5, <1>7, <2>2
    <2> QED
      BY <2>1, <2>2
  <1>8. ASSUME NEW n \in Names, Skipped(Examine(n)')
        PROVE  skipLogged'[n] = Examine(n)'
    <2>1. skipLogged'[n] = IF Skipped(Examine(n)) THEN Examine(n) ELSE NoNote
      BY <1>1, ScanRecords
    <2>2. CASE ~AtSignature(n)
      BY <1>3, <1>8, <2>1, <2>2
    <2>3. CASE AtSignature(n) /\ ~ShouldAttemptSignature(n)
      BY <1>6, <1>8, <2>1, <2>3
    <2>4. CASE AtSignature(n) /\ ShouldAttemptSignature(n) /\ ~TrustChain(n)
      BY <1>5, <1>8, <2>4
    <2>5. CASE AtSignature(n) /\ ShouldAttemptSignature(n) /\ TrustChain(n)
      BY <1>3, <1>4, <1>8, <2>1, <2>5
    <2> QED
      BY <2>2, <2>3, <2>4, <2>5
  <1>9. \A n \in Names : Skipped(Examine(n))' = Skipped(Examine(n)')
    BY DEF Skipped
  <1> QED
    BY <1>2, <1>3, <1>7, <1>8, <1>9 DEF SettledInv

(* Only what changed, or whose app did, is reported.                       *)
LEMMA ScanQuiet ==
    ASSUME ScanInv, ScanInstalled
    PROVE  QuietWhenUnchanged'
  <1>1. TypeOK /\ SettledInv
    BY DEF ScanInv
  <1> SUFFICES ASSUME NEW line \in logged', line[2] \in {"skip", "failure"}
               PROVE  line[1] \in touched \/ PreviousOf[line[1]] \in touched
    BY DEF QuietWhenUnchanged, ScanInstalled
  <1>2. PICK n \in Names : line \in {n} \X Lines(n, Examine(n))
    BY DEF ScanInstalled
  <1>3. line[1] = n /\ line[2] \in Lines(n, Examine(n))
    BY <1>2
  <1>4. CASE line[2] = "skip"
    <2>1. Skipped(Examine(n)) /\ skipLogged[n] # Examine(n)
      BY <1>3, <1>4 DEF Lines
    <2> QED
      BY <1>1, <1>3, <2>1 DEF SettledInv
  <1>5. CASE line[2] = "failure"
    <2>1. Untrusted(Examine(n)) /\ NoteSignatureFailure(sigFails[n], dirs[n].hash).hash # sigFails[n].hash
      BY <1>3, <1>5 DEF Lines
    <2>2. sigFails[n].hash # dirs[n].hash
      BY <2>1 DEF NoteSignatureFailure
    <2>3. AtSignature(n) /\ ~TrustChain(n)
      BY <1>1, <2>1, Verdict
    <2> QED
      BY <1>1, <1>3, <2>2, <2>3 DEF SettledInv
  <1> QED
    BY <1>4, <1>5

(* What is adopted has just passed every check.                            *)
LEMMA ScanAdopted ==
    ASSUME ScanInv, ScanInstalled
    PROVE  AdoptedInv'
  <1>1. TypeOK
    BY DEF ScanInv
  <1>2. dirs' = dirs /\ pin' = pin
    BY DEF ScanInstalled
  <1>3. \A n \in adopted' : n \in Names /\ Examine(n)[1] = "adopt"
    BY DEF ScanInstalled
  <1> QED
    BY <1>1, <1>2, <1>3, AdoptMeans DEF AdoptedInv, Healthy, TrustChain, ManifestAt, Valid, Sideloadable, Signed, Passing

-----------------------------------------------------------------------------
(* Time passes.                                                            *)

LEMMA TickTypes ==
    ASSUME TypeOK, Tick, NEW n \in Names
    PROVE  /\ sigFails'[n] \in [hash : Hashes, fails : 0 .. SigQuarantineAfter + 1,
                                backoff : 0 .. SigBackoffMax, wait : 0 .. SigBackoffMax]
           /\ failed'[n] \in [hash : Hashes, run : 0 .. MaxRun, ago : 0 .. SigBackoffMax]
           /\ sigFails'[n].hash = sigFails[n].hash /\ sigFails'[n].backoff = sigFails[n].backoff
           /\ failed'[n].hash = failed[n].hash /\ failed'[n].run = failed[n].run
           /\ sigFails[n].wait = 0 => sigFails'[n] = sigFails[n]
           /\ sigFails[n].wait > 0 => sigFails'[n].wait = sigFails[n].wait - 1
           /\ failed[n].run = 0 => failed'[n] = failed[n]
           /\ failed'[n].ago = failed[n].ago \/ failed'[n].ago = failed[n].ago + 1
           /\ failed[n].run > 0 /\ failed[n].ago < SigBackoffMax => failed'[n].ago = failed[n].ago + 1
  <1> USE BackoffAssumption
  <1>1. /\ sigFails[n] \in [hash : Hashes, fails : 0 .. SigQuarantineAfter + 1,
                            backoff : 0 .. SigBackoffMax, wait : 0 .. SigBackoffMax]
        /\ failed[n] \in [hash : Hashes, run : 0 .. MaxRun, ago : 0 .. SigBackoffMax]
        /\ MaxRun \in Nat
    BY DEF TypeOK, MaxRun
  <1>2. sigFails'[n] = IF sigFails[n].wait > 0 THEN [sigFails[n] EXCEPT !.wait = @ - 1] ELSE sigFails[n]
    BY DEF Tick
  <1>3. failed'[n] = IF failed[n].run > 0 /\ failed[n].ago < SigBackoffMax
                     THEN [failed[n] EXCEPT !.ago = @ + 1] ELSE failed[n]
    BY DEF Tick
  <1> QED
    BY <1>1, <1>2, <1>3

LEMMA TickStep ==
    ASSUME ScanInv, Tick
    PROVE  ScanInv'
  <1> USE BackoffAssumption
  <1>1. TypeOK /\ BackoffInv /\ SettledInv /\ AdoptedInv
    BY DEF ScanInv
  <1>2. UNCHANGED <<dirs, pin, skipLogged, adopted, logged, touched, retouched>>
    BY DEF Tick
  <1>3. TypeOK'
    <2>1. /\ sigFails' = [n \in Names |-> sigFails'[n]]
          /\ failed' = [n \in Names |-> failed'[n]]
      BY DEF Tick
    <2> QED
      BY <1>1, <1>2, <2>1, TickTypes DEF TypeOK
  <1>4. BackoffInv'
    <2> SUFFICES ASSUME NEW n \in Names
                 PROVE  /\ failed'[n].hash = sigFails'[n].hash
                        /\ sigFails'[n].hash = None => sigFails'[n] = NoRecord /\ failed'[n] = NoFailure
                        /\ sigFails'[n].hash # None =>
                             /\ failed'[n].run > 0 /\ Spaced(failed'[n].run, sigFails'[n].backoff)
                             /\ failed'[n].ago + sigFails'[n].wait >= sigFails'[n].backoff
      BY DEF BackoffInv, Spaced, Delays
    <2>1. /\ failed[n].hash = sigFails[n].hash
          /\ sigFails[n].hash = None => sigFails[n] = NoRecord /\ failed[n] = NoFailure
          /\ sigFails[n].hash # None =>
               /\ failed[n].run > 0 /\ Spaced(failed[n].run, sigFails[n].backoff)
               /\ failed[n].ago + sigFails[n].wait >= sigFails[n].backoff
      BY <1>1 DEF BackoffInv
    <2>2. sigFails[n].hash = None => sigFails[n].wait = 0 /\ failed[n].run = 0
      BY <2>1 DEF NoRecord, NoFailure
    <2>3. sigFails[n].hash # None => failed'[n].ago + sigFails'[n].wait >= sigFails'[n].backoff
      BY <1>1, <2>1, RecordTypes, TickTypes
    <2> QED
      BY <1>1, <2>1, <2>2, <2>3, TickTypes
  <1>5. SettledInv'
    <2> SUFFICES ASSUME NEW n \in Names \ touched
                 PROVE  /\ AtSignature(n)' => (sigFails'[n].hash = dirs'[n].hash <=> ~TrustChain(n)')
                        /\ PreviousOf[n] \notin touched /\ Skipped(Examine(n)') => skipLogged[n] = Examine(n)'
      BY <1>2 DEF SettledInv, Skipped
    <2>1. AtSignature(n)' <=> AtSignature(n)
      BY <1>2 DEF AtSignature, ManifestAt, Valid, Passing
    <2>2. TrustChain(n)' <=> TrustChain(n)
      BY <1>2 DEF TrustChain, ManifestAt, Signed, Passing
    <2>3. AtSignature(n) => (sigFails[n].hash = dirs[n].hash <=> ~TrustChain(n))
      BY <1>1 DEF SettledInv
    <2>4. sigFails'[n].hash = sigFails[n].hash
      BY <1>1, TickTypes
    <2>5. CASE AtSignature(n) /\ ~TrustChain(n)
      <3>1. Examine(n)' \in {<<"backoff", None>>, <<"untrusted", None>>}
        BY <1>2, <2>2, <2>5 DEF Examine, ManifestAt, AtSignature
      <3>2. ~Skipped(Examine(n)')
        BY <3>1 DEF Skipped
      <3> QED
        BY <1>2, <2>1, <2>2, <2>3, <2>4, <3>2
    <2>6. CASE ~AtSignature(n) \/ TrustChain(n)
      <3>1. AtSignature(n) => ShouldAttemptSignature(n) /\ ShouldAttemptSignature(n)'
        BY <1>2, <2>3, <2>4, <2>6 DEF ShouldAttemptSignature
      <3>2. Examine(n)' = Examine(n)
        BY <1>2, <2>2, <3>1 DEF Examine, ManifestAt, MisnamedNote, AtSignature
      <3> QED
        BY <1>1, <1>2, <2>1, <2>2, <2>3, <2>4, <3>2 DEF SettledInv
    <2> QED
      BY <2>5, <2>6
  <1>6. AdoptedInv'
    BY <1>1, <1>2 DEF AdoptedInv, Healthy, TrustChain, ManifestAt, Valid, Sideloadable, Signed, Passing
  <1> QED
    BY <1>3, <1>4, <1>5, <1>6 DEF ScanInv

-----------------------------------------------------------------------------
(* The world changes under one name.                                       *)

(* The verdict on another dir stays, unless it is the previous one of the  *)
(* app that changed.                                                       *)
LEMMA ChangeElsewhere ==
    ASSUME TypeOK, TypeOK', NEW c \in Names,
           \A n \in Names : n # c => dirs'[n] = dirs[n],
           \A n \in AppIds : n # c => pin'[n] = pin[n],
           UNCHANGED sigFails,
           NEW n \in Names, n # c
    PROVE  /\ AtSignature(n)' <=> AtSignature(n)
           /\ AtSignature(n) => (TrustChain(n)' <=> TrustChain(n))
           /\ PreviousOf[n] # c => Examine(n)' = Examine(n)
  <1>1. dirs'[n] = dirs[n] /\ ManifestAt(n)' = ManifestAt(n)
    BY DEF ManifestAt
  <1>2. AtSignature(n)' <=> AtSignature(n)
    BY <1>1 DEF AtSignature, Valid, Passing
  <1>3. dirs[n].status = "parsed" => ManifestAt(n).id \in AppIds
    <2>1. dirs[n].status = "parsed" => dirs[n].hash \in DOMAIN ManifestOf
      BY DirTypes
    <2> QED
      BY <2>1, InstallAssumption DEF ManifestAt
  <1>4. n \in AppIds /\ ManifestAt(n).id = n => (TrustChain(n)' <=> TrustChain(n))
    BY <1>1 DEF TrustChain, Signed, Passing
  <1>5. ShouldAttemptSignature(n)' <=> ShouldAttemptSignature(n)
    BY <1>1 DEF ShouldAttemptSignature
  <1>6. ASSUME PreviousOf[n] # c, dirs[n].status = "parsed"
        PROVE  MisnamedNote(n, ManifestAt(n).id)' = MisnamedNote(n, ManifestAt(n).id)
    <2>1. ManifestAt(n).id \in Names
      BY <1>3, <1>6, InstallAssumption
    <2>2. PreviousOf[n] = ManifestAt(n).id => dirs'[ManifestAt(n).id] = dirs[ManifestAt(n).id]
      BY <1>6, <2>1
    <2> QED
      BY <1>1, <2>2 DEF MisnamedNote
  <1>7. PreviousOf[n] # c => Examine(n)' = Examine(n)
    <2> SUFFICES ASSUME PreviousOf[n] # c PROVE Examine(n)' = Examine(n)
      OBVIOUS
    <2>1. CASE dirs[n].status # "parsed"
      BY <1>1, <2>1 DEF Examine
    <2>2. CASE dirs[n].status = "parsed" /\ ManifestAt(n).id # n
      BY <1>1, <1>6, <2>2 DEF Examine, Valid, Passing
    <2>3. CASE dirs[n].status = "parsed" /\ ManifestAt(n).id = n
      <3>1. TrustChain(n)' <=> TrustChain(n)
        BY <1>3, <1>4, <2>3
      <3> QED
        BY <1>1, <1>5, <2>3, <3>1 DEF Examine, Valid, Sideloadable, Passing
    <2> QED
      BY <2>1, <2>2, <2>3
  <1> QED
    BY <1>2, <1>3, <1>4, <1>7 DEF AtSignature

LEMMA ChangeStep ==
    ASSUME ScanInv, NEW c \in Names, TypeOK', Touch(c),
           \A n \in Names : n # c => dirs'[n] = dirs[n],
           \A n \in AppIds : n # c => pin'[n] = pin[n]
    PROVE  /\ ScanInv'
           /\ QuietWhenUnchanged => QuietWhenUnchanged'
  <1> USE DEF Touch
  <1>1. TypeOK /\ BackoffInv /\ SettledInv /\ AdoptedInv
    BY DEF ScanInv
  <1>2. BackoffInv'
    BY <1>1 DEF BackoffInv, Spaced, Delays
  <1>3. SettledInv'
    <2> SUFFICES ASSUME NEW n \in Names, n \notin touched, n # c
                 PROVE  /\ AtSignature(n)' => (sigFails[n].hash = dirs'[n].hash <=> ~TrustChain(n)')
                        /\ PreviousOf[n] \notin touched /\ PreviousOf[n] # c /\ Skipped(Examine(n)')
                             => skipLogged[n] = Examine(n)'
      BY DEF SettledInv, Skipped
    <2>1. /\ AtSignature(n)' <=> AtSignature(n)
          /\ AtSignature(n) => (TrustChain(n)' <=> TrustChain(n))
          /\ PreviousOf[n] # c => Examine(n)' = Examine(n)
      BY <1>1, ChangeElsewhere
    <2>2. /\ AtSignature(n) => (sigFails[n].hash = dirs[n].hash <=> ~TrustChain(n))
          /\ PreviousOf[n] \notin touched /\ Skipped(Examine(n)) => skipLogged[n] = Examine(n)
      BY <1>1 DEF SettledInv
    <2> QED
      BY <2>1, <2>2
  <1>4. AdoptedInv'
    <2> SUFFICES ASSUME NEW n \in adopted, n \notin touched, n # c
                 PROVE  Healthy(n)'
      BY DEF AdoptedInv
    <2>1. n \in Names /\ Healthy(n)
      BY <1>1 DEF TypeOK, AdoptedInv
    <2>2. dirs'[n] = dirs[n] /\ ManifestAt(n)' = ManifestAt(n)
      BY <2>1 DEF ManifestAt
    <2>3. ~dirs[n].side => AtSignature(n)
      BY <2>1 DEF Healthy, AtSignature
    <2>4. AtSignature(n) => (TrustChain(n)' <=> TrustChain(n))
      BY <1>1, <2>1, ChangeElsewhere
    <2> QED
      BY <2>1, <2>2, <2>3, <2>4 DEF Healthy, Valid, Sideloadable, Passing
  <1>5. QuietWhenUnchanged => QuietWhenUnchanged'
    BY DEF QuietWhenUnchanged
  <1> QED
    BY <1>2, <1>3, <1>4, <1>5 DEF ScanInv

LEMMA ChangeDirStep ==
    ASSUME ScanInv, NEW c \in Names, ChangeDir(c)
    PROVE  ScanInv' /\ (QuietWhenUnchanged => QuietWhenUnchanged')
  <1>1. TypeOK
    BY DEF ScanInv
  <1>2. PICK d \in Dirs[c] : dirs' = [dirs EXCEPT ![c] = d]
    BY DEF ChangeDir
  <1>3. \A n \in Names : dirs'[n] = IF n = c THEN d ELSE dirs[n]
    BY <1>1, <1>2 DEF TypeOK, Installs
  <1>4. Touch(c) /\ pin' = pin
    BY DEF ChangeDir
  <1>5. dirs' \in Installs
    <2>1. \A n \in Names : dirs'[n] \in Dirs[n]
      BY <1>1, <1>3 DEF TypeOK, Installs
    <2>2. dirs' = [n \in Names |-> dirs'[n]]
      BY <1>1, <1>2 DEF TypeOK, Installs
    <2> QED
      BY <2>1, <2>2 DEF Installs
  <1>6. TypeOK'
    BY <1>1, <1>4, <1>5 DEF TypeOK, Touch
  <1> QED
    BY <1>3, <1>4, <1>6, ChangeStep

LEMMA ChangePinStep ==
    ASSUME ScanInv, NEW c \in AppIds, ChangePin(c)
    PROVE  ScanInv' /\ (QuietWhenUnchanged => QuietWhenUnchanged')
  <1>1. TypeOK /\ c \in Names
    BY InstallAssumption DEF ScanInv
  <1>2. PICK q \in Pins : pin' = [pin EXCEPT ![c] = q]
    BY DEF ChangePin
  <1>3. pin' \in [AppIds -> Pins] /\ \A n \in AppIds : n # c => pin'[n] = pin[n]
    BY <1>1, <1>2 DEF TypeOK
  <1>4. Touch(c) /\ dirs' = dirs
    BY DEF ChangePin
  <1>5. TypeOK'
    BY <1>1, <1>3, <1>4 DEF TypeOK, Touch
  <1> QED
    BY <1>1, <1>3, <1>4, <1>5, ChangeStep

-----------------------------------------------------------------------------
LEMMA ScanNext ==
    ASSUME ScanInv, [Next]_vars
    PROVE  ScanInv' /\ (QuietWhenUnchanged => QuietWhenUnchanged')
  <1>1. CASE UNCHANGED vars
    <2>1. dirs' = dirs /\ pin' = pin /\ sigFails' = sigFails /\ failed' = failed
      BY <1>1 DEF vars
    <2>2. skipLogged' = skipLogged /\ adopted' = adopted /\ logged' = logged
      BY <1>1 DEF vars
    <2>3. touched' = touched /\ retouched' = retouched
      BY <1>1 DEF vars
    <2>4. TypeOK' /\ BackoffInv'
      BY <2>1, <2>2, <2>3 DEF ScanInv, TypeOK, BackoffInv, Spaced, Delays
    <2>5. ASSUME NEW n \in Names
          PROVE  /\ AtSignature(n)' <=> AtSignature(n)
                 /\ TrustChain(n)' <=> TrustChain(n)
                 /\ Examine(n)' = Examine(n)
                 /\ Healthy(n)' <=> Healthy(n)
      <3>1. TrustChain(n)' <=> TrustChain(n)
        BY <2>1 DEF TrustChain, ManifestAt, Signed, Passing
      <3>2. ShouldAttemptSignature(n)' <=> ShouldAttemptSignature(n)
        BY <2>1 DEF ShouldAttemptSignature
      <3> QED
        BY <2>1, <3>1, <3>2
        DEF Examine, ManifestAt, MisnamedNote, AtSignature, Healthy, Valid, Sideloadable, Passing
    <2>6. SettledInv'
      BY <2>1, <2>2, <2>3, <2>5 DEF ScanInv, SettledInv, Skipped
    <2>7. AdoptedInv' /\ (QuietWhenUnchanged => QuietWhenUnchanged')
      BY <2>2, <2>3, <2>5 DEF ScanInv, AdoptedInv, TypeOK, QuietWhenUnchanged
    <2> QED
      BY <2>4, <2>6, <2>7 DEF ScanInv
  <1>2. CASE ScanInstalled
    BY <1>2, ScanTypes, ScanBackoff, ScanSettled, ScanAdopted, ScanQuiet DEF ScanInv
  <1>3. CASE Tick
    <2>1. QuietWhenUnchanged => QuietWhenUnchanged'
      BY <1>3 DEF Tick, QuietWhenUnchanged
    <2> QED
      BY <1>3, <2>1, TickStep
  <1>4. CASE \E n \in Names : ChangeDir(n)
    BY <1>4, ChangeDirStep
  <1>5. CASE \E id \in AppIds : ChangePin(id)
    BY <1>5, ChangePinStep
  <1> QED
    BY <1>1, <1>2, <1>3, <1>4, <1>5 DEF Next

(* Whatever is installed, swapped and pinned between two scans: the        *)
(* failures on record belong to the manifest they are kept for, a dir that *)
(* has not changed has its verdict on record, and what was adopted would   *)
(* be adopted again.                                                       *)
THEOREM ScanInvariant == Spec => []ScanInv
  <1>1. Init => ScanInv
    BY ScanInit
  <1>2. ScanInv /\ [Next]_vars => ScanInv'
    BY ScanNext
  <1> QED
    BY <1>1, <1>2, PTL DEF Spec

(* scanInstalled adopts only <root>/<id>, and what asks for anything       *)
(* outside its dir only when the pinned publisher signed its grants and    *)
(* its binary: for any manifests, pins and order of installs.              *)
THEOREM AdoptedTrustedHolds == Spec => []AdoptedTrusted
  <1>1. ScanInv => AdoptedTrusted
    <2> SUFFICES ASSUME ScanInv, NEW n \in adopted \ touched
                 PROVE  /\ ManifestAt(n).id = n
                        /\ Privileged(ManifestAt(n)) =>
                             /\ ManifestAt(n).signature.by = pin[n]
                             /\ ManifestAt(n).signature.over.grants = ManifestAt(n).grants
                             /\ ManifestAt(n).signature.over.sha256 = ManifestAt(n).sha256
      BY DEF AdoptedTrusted
    <2>1. TypeOK /\ n \in Names /\ Healthy(n)
      BY DEF ScanInv, TypeOK, AdoptedInv
    <2> QED
      BY <2>1, HealthyTrusted
  <1> QED
    BY <1>1, ScanInvariant, PTL

(* noteSkipped and noteSignatureFailure report a dir once per change: no   *)
(* number of rescans repeats a line about what stayed as it was.           *)
THEOREM QuietWhenUnchangedHolds == Spec => []QuietWhenUnchanged
  <1>1. Init => QuietWhenUnchanged
    BY ScanInit
  <1>2. ScanInv /\ QuietWhenUnchanged /\ [Next]_vars => QuietWhenUnchanged'
    BY ScanNext
  <1> QED
    BY <1>1, <1>2, ScanInvariant, PTL DEF Spec

(* shouldAttemptSignature and nextBackoff keep a failing manifest to the   *)
(* doubling delays, for any first and longest delay.                       *)
THEOREM AttemptsSpacedHolds == Spec => []AttemptsSpaced
  <1>1. ScanInv => AttemptsSpaced
    <2> SUFFICES ASSUME ScanInv, NEW n \in Names, Untrusted(Examine(n)), failed[n].hash = dirs[n].hash
                 PROVE  failed[n].run > 0 /\ Spaced(failed[n].run, failed[n].ago)
      BY DEF AttemptsSpaced
    <2>1. TypeOK
      BY DEF ScanInv
    <2>2. ShouldAttemptSignature(n) /\ dirs[n].hash # None
      BY <2>1, Verdict
    <2>3. sigFails[n].hash = dirs[n].hash /\ sigFails[n].wait = 0
      BY <2>2 DEF ScanInv, BackoffInv, ShouldAttemptSignature
    <2>4. /\ failed[n].run > 0 /\ Spaced(failed[n].run, sigFails[n].backoff)
          /\ failed[n].ago + sigFails[n].wait >= sigFails[n].backoff
      BY <2>2, <2>3 DEF ScanInv, BackoffInv
    <2>5. /\ sigFails[n].backoff \in Nat /\ failed[n].ago \in Nat /\ failed[n].run \in Nat
          /\ sigFails[n].backoff <= failed[n].ago
      BY <2>1, <2>3, <2>4, RecordTypes
    <2> QED
      BY <2>4, <2>5, SpacedLonger
  <1> QED
    BY <1>1, ScanInvariant, PTL
=============================================================================
