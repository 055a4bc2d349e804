-------------------------- MODULE WildcardMatcher --------------------------
(***************************************************************************)
(* WildcardMatcher: the patterns of SanitizeFieldNames, TransactionIgnore- *)
(* Urls, DisableMetrics and others.  A pattern is given by its literals,   *)
(* what string.Split('*') makes of it: <<l1, ..., ln>> is l1*l2*...*ln.     *)
(* The (?-i) and (?i) prefixes are the flag ignoreCase.  Offsets count     *)
(* from 0, as in the code.                                                 *)
(***************************************************************************)
EXTENDS Integers, Sequences

CONSTANT ToLowerInvariant(_)    \* of a character

-----------------------------------------------------------------------------
CharAt(i, first, second) ==
    IF i < Len(first) THEN first[i + 1] ELSE second[i - Len(first) + 1]

SameChar(c, d, ignoreCase) ==
    IF ignoreCase THEN ToLowerInvariant(c) = ToLowerInvariant(d) ELSE c = d

FoundAt(first, second, needle, ignoreCase, i) ==
    /\ i + Len(needle) <= Len(first) + Len(second)
    /\ \A j \in 0 .. Len(needle) - 1 :
          SameChar(CharAt(i + j, first, second), needle[j + 1], ignoreCase)

(* An empty needle, or nothing to look in, falls back to string.IndexOf on *)
(* the first part, which finds an empty needle at 0 wherever it was to     *)
(* start.                                                                  *)
IndexOfIgnoreCase(first, second, needle, ignoreCase, start, end) ==
    LET Hits == {i \in start .. end - 1 : FoundAt(first, second, needle, ignoreCase, i)} IN
    CASE start < 0 -> -1
      [] start >= 0 /\ needle = <<>> -> 0
      [] start >= 0 /\ needle # <<>> ->
            IF Hits = {} THEN -1 ELSE CHOOSE i \in Hits : \A k \in Hits : i <= k

-----------------------------------------------------------------------------
(* SimpleWildcardMatcher.IndexOf. *)
IndexOfSkipsOne(m, first, second, ignoreCase, offset) ==  \* mutant: the next literal must not be adjacent
    LET total == Len(first) + Len(second)
        Index(start, end) == IndexOfIgnoreCase(first, second, m.matcher, ignoreCase, start, end)
    IN  CASE m.atBeginning /\ m.atEnd -> Index(offset + 1, total)
          [] ~m.atBeginning /\ m.atEnd -> Index(0, 1)
          [] m.atBeginning /\ ~m.atEnd -> Index(total - Len(m.matcher), total)
          [] OTHER -> IF total = Len(m.matcher) THEN Index(0, total) ELSE -1

IndexOfUnanchored(m, first, second, ignoreCase, offset) ==  \* mutant: x* also finds x later on
    LET total == Len(first) + Len(second)
        Index(start, end) == IndexOfIgnoreCase(first, second, m.matcher, ignoreCase, start, end)
    IN  CASE m.atEnd -> Index(offset, total)
          [] m.atBeginning /\ ~m.atEnd -> Index(total - Len(m.matcher), total)
          [] OTHER -> IF total = Len(m.matcher) THEN Index(0, total) ELSE -1

IndexOf(m, first, second, ignoreCase, offset) ==
    LET total == Len(first) + Len(second)
        Index(start, end) == IndexOfIgnoreCase(first, second, m.matcher, ignoreCase, start, end)
    IN  CASE m.atBeginning /\ m.atEnd -> Index(offset, total)
          [] ~m.atBeginning /\ m.atEnd -> Index(0, 1)
          [] m.atBeginning /\ ~m.atEnd -> Index(total - Len(m.matcher), total)
          [] OTHER -> IF total = Len(m.matcher) THEN Index(0, total) ELSE -1

(* ValueOf: the parts of a pattern that has a wildcard.                    *)
ValueOf(pattern) ==
    [i \in DOMAIN pattern |->
        [matcher |-> pattern[i],
         atBeginning |-> i # 1 \/ pattern[1] = <<>>,
         atEnd |-> i # Len(pattern) \/ pattern[Len(pattern)] = <<>>]]

VerbatimMatches(literal, first, second, ignoreCase) ==
    /\ Len(literal) = Len(first) + Len(second)
    /\ \A i \in DOMAIN literal : SameChar(literal[i], CharAt(i - 1, first, second), ignoreCase)

(* CompoundWildcardMatcher: one literal after the other, each from where   *)
(* the one before it ended.                                                *)
CompoundMatches(matchers, first, second, ignoreCase) ==
    LET offset[i \in 0 .. Len(matchers)] ==
            IF i = 0 THEN 0
            ELSE IF offset[i - 1] = -1 THEN -1
            ELSE LET at == IndexOf(matchers[i], first, second, ignoreCase, offset[i - 1])
                 IN  IF at = -1 THEN -1 ELSE at + Len(matchers[i].matcher)
    IN  offset[Len(matchers)] # -1

(* A string may come in two parts. *)
Matches(pattern, first, second, ignoreCase) ==
    IF Len(pattern) = 1 THEN VerbatimMatches(pattern[1], first, second, ignoreCase)
    ELSE CompoundMatches(ValueOf(pattern), first, second, ignoreCase)

-----------------------------------------------------------------------------
(* What a pattern means: the literals occur in this order, without         *)
(* overlapping, the first one at the start and the last one at the end.    *)
Describes(pattern, s, ignoreCase) ==
    LET n == Len(pattern) IN
    \E at \in [1 .. n -> 0 .. Len(s)] :
       /\ at[1] = 0 /\ at[n] + Len(pattern[n]) = Len(s)
       /\ \A i \in 1 .. n - 1 : at[i] + Len(pattern[i]) <= at[i + 1]
       /\ \A i \in 1 .. n, j \in 1 .. Len(s) :
             j > at[i] /\ j <= at[i] + Len(pattern[i])
                => SameChar(s[j], pattern[i][j - at[i]], ignoreCase)
=============================================================================
