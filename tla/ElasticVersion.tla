--------------------------- MODULE ElasticVersion ---------------------------
(***************************************************************************)
(* ElasticVersion: the order on versions of the APM Server.  A version is  *)
(* null or has three numbers and a prerelease, which is null, empty, a     *)
(* number or a word; words are given by their place in the ordinal order.  *)
(* The pattern of the constructor allows no dot in a prerelease, so        *)
(* splitting it at dots gives one part.                                    *)
(***************************************************************************)
EXTENDS Integers

CONSTANT NoVersion      \* null

PrereleaseType == [kind: {"null", "empty", "number", "word"}, rank: Nat]
VersionType == [major: Nat, minor: Nat, patch: Nat, prerelease: PrereleaseType]

ASSUME NoVersionIsNull == NoVersion \notin VersionType

CompareTo(m, n) == IF m < n THEN -1 ELSE IF m > n THEN 1 ELSE 0

IsEmpty(pre) == pre.kind \in {"null", "empty"}

CompareComponentUpper(a, b) ==   \* mutant: a release comes before its prereleases
    CASE IsEmpty(a) /\ IsEmpty(b) -> 0
      [] IsEmpty(a) /\ ~IsEmpty(b) -> -1
      [] ~IsEmpty(a) /\ IsEmpty(b) -> 1
      [] ~IsEmpty(a) /\ ~IsEmpty(b) ->
            IF a.kind = b.kind THEN CompareTo(a.rank, b.rank)
            ELSE IF a.kind = "number" THEN -1 ELSE 1

(* Of two prereleases; the release itself comes last. *)
CompareComponent(a, b) ==
    CASE IsEmpty(a) /\ IsEmpty(b) -> 0
      [] IsEmpty(a) /\ ~IsEmpty(b) -> 1
      [] ~IsEmpty(a) /\ IsEmpty(b) -> -1
      [] ~IsEmpty(a) /\ ~IsEmpty(b) ->
            IF a.kind = b.kind THEN CompareTo(a.rank, b.rank)
            ELSE IF a.kind = "number" THEN -1 ELSE 1

FirstNonZero(r, otherwise) == IF r # 0 THEN r ELSE otherwise

CompareByPrecedence(v, w) ==
    FirstNonZero(CompareTo(v.major, w.major),
    FirstNonZero(CompareTo(v.minor, w.minor),
    FirstNonZero(CompareTo(v.patch, w.patch),
                 CompareComponent(v.prerelease, w.prerelease))))

Compare(v, w) ==
    CASE v = NoVersion /\ w = NoVersion -> 0
      [] v = NoVersion /\ w # NoVersion -> -1
      [] v # NoVersion /\ w = NoVersion -> 1
      [] OTHER -> CompareByPrecedence(v, w)

Less(v, w) == Compare(v, w) < 0
=============================================================================
