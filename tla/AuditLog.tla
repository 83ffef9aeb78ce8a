------------------------------ MODULE AuditLog ------------------------------
(***************************************************************************)
(* The audit log of one install dir: writeAuditLine, rotateAuditIfLarge    *)
(* and rotateGenerations of plugin/appstore/supervisor.go.  The log is     *)
(* supervisor.log (generation 0) and supervisor.log.1 .. .Keep.  Nothing   *)
(* locks it: every goroutine that supervises the app, and the rescan,      *)
(* writes it on its own, one file operation at a time, and the daemon can  *)
(* die between any two of them.                                            *)
(*                                                                         *)
(* A line is its number, sizes are counted in lines.  A file is known by   *)
(* the generation it has now, so an open file descriptor follows its file  *)
(* through the renames.  File operations fail only because a file or the   *)
(* dir is not there.                                                       *)
(***************************************************************************)
EXTENDS Naturals, FiniteSets

CONSTANTS
    Writers,     \* goroutines that may write the log of this dir
    Keep,        \* rotated generations kept (AuditLogMaxBackups)
    MaxSize,     \* AuditLogMaxBytes, in lines
    MaxLines     \* bound on the lines written

ASSUME KeepAssumption == Keep \in Nat \ {0}
ASSUME MaxSizeAssumption == MaxSize \in Nat \ {0}
ASSUME WritersAssumption == IsFiniteSet(Writers)

VARIABLES
    dirUp,      \* the install dir exists
    dirId,      \* which install dir it is: replacing it flips the bit
    present,    \* the generations that exist as files
    lines,      \* generation -> the lines in its file
    written,    \* lines written so far
    team,       \* the goroutines that have written so far
    pc,         \* writer -> the next file operation it makes
    gen,        \* writer -> the generation i its rotation is at
    fd          \* writer -> the generation of its open file, or Gone

diskVars == <<dirUp, dirId, present, lines, written>>
vars == <<dirUp, dirId, present, lines, written, team, pc, gen, fd>>

Gens == 0 .. Keep
Gone == Keep + 1     \* an open file that is no longer in the dir
Steps == {"idle", "size", "remove", "stat", "rename", "open", "write"}

TypeOK == /\ dirUp \in BOOLEAN
          /\ dirId \in {0, 1}
          /\ present \subseteq Gens
          /\ lines \in [Gens -> SUBSET Nat]
          /\ written \in Nat
          /\ team \subseteq Writers
          /\ pc \in [Writers -> Steps]
          /\ gen \in [Writers -> Gens]
          /\ fd \in [Writers -> 0 .. Gone]

Init == /\ dirUp = TRUE
        /\ dirId = 0
        /\ present = {}
        /\ lines = [i \in Gens |-> {}]
        /\ written = 0
        /\ team \in {{w} : w \in Writers}
        /\ pc = [w \in Writers |-> "idle"]
        /\ gen = [w \in Writers |-> 0]
        /\ fd = [w \in Writers |-> Gone]

Goto(w, from, to) == pc[w] = from /\ pc' = [pc EXCEPT ![w] = to]

(* A goroutine starts to write: from now on it is one of the log's writers.*)
WriteAuditLine(w) == /\ written < MaxLines
                     /\ Goto(w, "idle", "size")
                     /\ team' = team \cup {w}
                     /\ UNCHANGED <<diskVars, gen, fd>>

(* Faulty variant: a log exactly as large as the threshold is kept.        *)
TooLargeStrict == 0 \in present /\ Cardinality(lines[0]) > MaxSize

(* rotateAuditIfLarge: only a log that exists and is large is rotated.     *)
TooLarge == 0 \in present /\ Cardinality(lines[0]) >= MaxSize

RotateAuditIfLarge(w) == /\ Goto(w, "size", IF TooLarge THEN "remove" ELSE "open")
                         /\ UNCHANGED <<diskVars, team, gen, fd>>

(* What renaming generation i to j does: the file at j is replaced, and    *)
(* whoever has it open goes on writing to a file nobody can find.  Moving  *)
(* to Gone is removal.                                                     *)
Shift(i, j) ==
    /\ present' = (present \ {i, j}) \cup ({j} \cap Gens)
    /\ lines' = [g \in Gens |-> CASE g = j -> lines[i]
                                  [] g = i -> {}
                                  [] OTHER -> lines[g]]
    /\ fd' = [w \in Writers |-> CASE fd[w] = i -> j
                                  [] fd[w] = j -> Gone
                                  [] OTHER -> fd[w]]

(* Faulty variant: the loop starts one generation too low.                 *)
RemoveOldestOffByOne(w) == /\ Goto(w, "remove", "stat")
                           /\ Shift(Keep, Gone)
                           /\ gen' = [gen EXCEPT ![w] = Keep - 2]
                           /\ UNCHANGED <<dirUp, dirId, written, team>>

(* The generation that would fall off the end is discarded.                *)
RemoveOldest(w) == /\ Goto(w, "remove", "stat")
                   /\ Shift(Keep, Gone)
                   /\ gen' = [gen EXCEPT ![w] = Keep - 1]
                   /\ UNCHANGED <<dirUp, dirId, written, team>>

(* The loop over the generations, oldest first; os.Stat finds the gaps.    *)
NextGeneration(w) ==
    IF gen[w] = 0
    THEN pc' = [pc EXCEPT ![w] = "open"] /\ UNCHANGED gen
    ELSE /\ pc' = [pc EXCEPT ![w] = "stat"]
         /\ gen' = [gen EXCEPT ![w] = @ - 1]

StatGeneration(w) == /\ pc[w] = "stat"
                     /\ IF gen[w] \in present
                        THEN pc' = [pc EXCEPT ![w] = "rename"] /\ UNCHANGED gen
                        ELSE NextGeneration(w)
                     /\ UNCHANGED <<diskVars, team, fd>>

(* os.Rename fails, and is only logged, when the file is gone by now.      *)
RenameGeneration(w) == /\ pc[w] = "rename"
                       /\ IF gen[w] \in present
                          THEN Shift(gen[w], gen[w] + 1)
                          ELSE UNCHANGED <<present, lines, fd>>
                       /\ NextGeneration(w)
                       /\ UNCHANGED <<dirUp, dirId, written, team>>

(* Faulty variant: O_TRUNC for O_APPEND.                                   *)
OpenLogTruncates(w) == /\ Goto(w, "open", IF dirUp THEN "write" ELSE "idle")
                       /\ present' = IF dirUp THEN present \cup {0} ELSE present
                       /\ lines' = [lines EXCEPT ![0] = {}]
                       /\ fd' = IF dirUp THEN [fd EXCEPT ![w] = 0] ELSE fd
                       /\ UNCHANGED <<dirUp, dirId, written, team, gen>>

(* O_APPEND|O_CREATE; without the dir there is nothing to write to.        *)
OpenLog(w) == \/ /\ dirUp
                 /\ Goto(w, "open", "write")
                 /\ present' = present \cup {0}
                 /\ fd' = [fd EXCEPT ![w] = 0]
                 /\ UNCHANGED <<dirUp, dirId, lines, written, team, gen>>
              \/ /\ ~dirUp
                 /\ Goto(w, "open", "idle")
                 /\ UNCHANGED <<diskVars, team, gen, fd>>

AppendLine(w) == /\ Goto(w, "write", "idle")
                 /\ written' = written + 1
                 /\ lines' = [g \in Gens |-> IF g = fd[w] THEN lines[g] \cup {written + 1}
                                                          ELSE lines[g]]
                 /\ fd' = [fd EXCEPT ![w] = Gone]
                 /\ UNCHANGED <<dirUp, dirId, present, team, gen>>

(* The daemon dies: the goroutines and their open files are gone, the      *)
(* files stay as they are.                                                 *)
Crash == /\ pc' = [w \in Writers |-> "idle"]
         /\ fd' = [w \in Writers |-> Gone]
         /\ pc # pc'
         /\ UNCHANGED <<diskVars, team, gen>>

(* pilotctl removes the install dir, or puts a new one in its place.       *)
ReplaceDir(up) == /\ dirUp' = up
                  /\ dirId' = 1 - dirId
                  /\ present' = {}
                  /\ lines' = [i \in Gens |-> {}]
                  /\ fd' = [w \in Writers |-> Gone]
                  /\ UNCHANGED <<written, team, pc, gen>>

Uninstall == dirUp /\ ReplaceDir(FALSE)
Install == ReplaceDir(TRUE)

Next == \/ \E w \in Writers : \/ WriteAuditLine(w)
                              \/ RotateAuditIfLarge(w)
                              \/ RemoveOldest(w)
                              \/ StatGeneration(w)
                              \/ RenameGeneration(w)
                              \/ OpenLog(w)
                              \/ AppendLine(w)
        \/ Crash
        \/ Uninstall
        \/ Install

Spec == Init /\ [][Next]_vars

-----------------------------------------------------------------------------
OnDisk == UNION {lines[i] : i \in Gens}
Sole == \E w \in Writers : team = {w}

(* Refinement: whatever the rotation is in the middle of, and wherever the *)
(* daemon dies, a log with one writer loses its oldest lines first and     *)
(* never has fewer than MaxSize of them left after a rotation began.       *)
Retained == INSTANCE RetainedLog WITH MinKept <- MaxSize, kept <- OnDisk, sole <- Sole, dir <- dirId
RetainsNewest == Retained!Spec

(* Size bound, for any number of writers and whatever their operations     *)
(* interleave with: a file overshoots the threshold by the lines of the    *)
(* writers that had passed the size check, one each, and never more.  The  *)
(* footprint in the comment of supervisorLogRotated is exceeded by them.   *)
FileBound == \A i \in Gens :
    Cardinality(lines[i]) <= MaxSize - 1 + Cardinality(Writers)

-----------------------------------------------------------------------------
(* The inductive invariant.                                                *)

FilesInv ==
    /\ team # {}
    /\ \A i \in Gens : /\ IsFiniteSet(lines[i])
                       /\ i \notin present => lines[i] = {}
                       /\ \A l \in lines[i] : l <= written
    /\ \A w \in Writers : /\ pc[w] # "idle" => w \in team
                          /\ pc[w] \in {"stat", "rename"} => gen[w] < Keep
                          /\ fd[w] \in Gens => fd[w] \in present

(* The writers that may append to file i without another size check.       *)
Pending(i) == {w \in Writers : \/ pc[w] = "write" /\ fd[w] = i
                               \/ pc[w] = "open" /\ i = 0}

PendingInv == \A i \in Gens :
    Cardinality(lines[i]) + Cardinality(Pending(i)) <= MaxSize - 1 + Cardinality(Writers)

Empty == \A i \in Gens : lines[i] = {}

(* One writer: newer lines are in lower generations, a rotation moves a    *)
(* file only where nothing is, and it began with a full log.               *)
SoleInv == Sole =>
    /\ \A i, j \in Gens : i < j => \A new \in lines[i], old \in lines[j] : old < new
    /\ \A w \in Writers :
         /\ fd[w] # Gone => pc[w] = "write" /\ fd[w] = 0
         /\ pc[w] = "write" /\ fd[w] = Gone => Empty
         /\ pc[w] = "remove" => Cardinality(lines[0]) >= MaxSize \/ Empty
         /\ pc[w] \in {"stat", "rename"} => lines[gen[w] + 1] = {}

(* What the files are like between any two file operations; with it every  *)
(* step of the rotation is a step of RetainedLog.                          *)
LogInv == TypeOK /\ FilesInv /\ PendingInv /\ SoleInv
=============================================================================
