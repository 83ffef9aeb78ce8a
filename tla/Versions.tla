------------------------------ MODULE Versions ------------------------------
(***************************************************************************)
(* compareVersions of plugin/appstore/supervisor.go, by which a rescan     *)
(* refuses a downgrade.  A version is what splitSemver makes of it: three  *)
(* numbers and the prerelease, known by its place among all strings, with  *)
(* the empty one first.                                                    *)
(***************************************************************************)
EXTENDS Integers

CONSTANT MaxInt      \* the largest int

Versions == [parts : [0 .. 2 -> Nat], pre : Nat]

(* Digits that do not fit an int are an error for strconv.Atoi.            *)
AtoiOrZero(n) == IF n > MaxInt THEN 0 ELSE n

Sign(x, y) == IF x < y THEN -1 ELSE IF x > y THEN 1 ELSE 0

CompareNumericParts(p, q) ==
    LET At(i) == Sign(AtoiOrZero(p[i]), AtoiOrZero(q[i]))
    IN  IF At(0) # 0 THEN At(0) ELSE IF At(1) # 0 THEN At(1) ELSE At(2)

(* No prerelease is newer than any; two are compared as strings.           *)
CompareVersions(a, b) ==
    LET numeric == CompareNumericParts(a.parts, b.parts)
    IN  IF numeric # 0 THEN numeric
        ELSE IF a.pre = 0 /\ b.pre # 0 THEN 1
        ELSE IF a.pre # 0 /\ b.pre = 0 THEN -1
        ELSE Sign(a.pre, b.pre)

(* What rescanForNew and registerInstalled refuse to replace b with.       *)
Older(a, b) == CompareVersions(a, b) < 0
=============================================================================
