------------------------ MODULE FreeAndTotalMemory ------------------------
(***************************************************************************)
(* FreeAndTotalMemoryProvider.GetSamples on Linux: reads /proc/meminfo     *)
(* line by line until it has seen what it was asked for.  It runs inside   *)
(* MetricsCollector's spin lock, so a call that does not return stops the  *)
(* collection of every metric.                                             *)
(***************************************************************************)
EXTENDS Naturals, Sequences, FiniteSets

CONSTANT Files          \* what /proc/meminfo may be: sequences of lines

(* A line is about MemAvailable or MemTotal, with a value GetEntry accepts *)
(* or not, or about something else.                                        *)
Lines == [about: {"free", "total"}, ok: BOOLEAN] \cup {[about |-> "other", ok |-> TRUE]}

ASSUME FilesAssumption == Files \subseteq Seq(Lines)

VARIABLES
    file, at,       \* the file, and the line last read: null when at > Len(file)
    collect,        \* what the provider was asked for: "free", "total" or both
    seen,           \* hasMemFree, hasMemTotal
    retVal,
    odd,            \* whether ReadLine was called an odd number of times
    returned

vars == <<file, at, collect, seen, retVal, odd, returned>>

Init ==
    /\ file \in Files /\ at = 1
    /\ collect \in (SUBSET {"free", "total"}) \ {{}}
    /\ seen = {} /\ retVal = {}
    /\ odd = TRUE
    /\ returned = FALSE

LineIsNull == at > Len(file)
LoopCondition == ~LineIsNull \/ Cardinality(retVal) # 2
IsAbout(entry) == ~LineIsNull /\ file[at].about = entry /\ entry \in collect

ReadLineOkOnly ==                \* mutant: a line that does not parse was not seen
    /\ ~returned /\ LoopCondition
    /\ LET found == {e \in {"free", "total"} : IsAbout(e) /\ file[at].ok} IN
       /\ retVal' = retVal \cup found
       /\ seen' = seen \cup found
    /\ returned' = (collect \subseteq seen')
    /\ at' = IF returned' \/ LineIsNull THEN at ELSE at + 1
    /\ odd' = ~odd
    /\ UNCHANGED <<file, collect>>

(* One round of the loop: the line, the test that breaks, the next line;   *)
(* ReadLine keeps returning null at the end of the file.                   *)
ReadLine ==
    /\ ~returned /\ LoopCondition
    /\ LET found == {e \in {"free", "total"} : IsAbout(e)} IN
       /\ retVal' = retVal \cup {e \in found : file[at].ok}
       /\ seen' = seen \cup found
    /\ returned' = (collect \subseteq seen')
    /\ at' = IF returned' \/ LineIsNull THEN at ELSE at + 1
    /\ odd' = ~odd
    /\ UNCHANGED <<file, collect>>

Next == ReadLine
Spec == Init /\ [][Next]_vars /\ WF_vars(Next)

-----------------------------------------------------------------------------
(* "This is to avoid endlessly trying to read values without success": the *)
(* call returns, with samples or without.                                  *)
GetSamplesReturns == <>returned
=============================================================================
