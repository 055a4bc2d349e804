-------------------------- MODULE AlgorithmProofs --------------------------
(***************************************************************************)
(* The algorithms, for inputs of every size.  A question stays what it was *)
(* (QuestionStays); what is proved about its answer is a theorem about the *)
(* operators, for all rates, versions, patterns, lists of members and      *)
(* fields, and not only the ones of Questions.  Where a definition is      *)
(* recursive, the proof takes the least number for which it goes wrong     *)
(* (LeastNumber).  EventFilters and FreeAndTotalMemory, which take steps,  *)
(* have inductive invariants.                                              *)
(***************************************************************************)
EXTENDS MCAlgorithms, FiniteSetTheorems, SequenceTheorems, WellFoundedInduction, TLAPS

-----------------------------------------------------------------------------
(* Induction.                                                              *)

(* Every set of numbers that is not empty has a least one. *)
LEMMA LeastNumber ==
    ASSUME NEW T \in SUBSET Nat, T # {}
    PROVE  \E n \in T : \A m \in T : n <= m
<1>1. PICK n \in T : \A m \in T : ~(<<m, n>> \in OpToRel(<, Nat))
    BY NatLessThanWellFounded, WFMin
<1>2. \A m \in T : ~(m < n)
    BY <1>1 DEF OpToRel
<1> QED BY <1>2

-----------------------------------------------------------------------------
(* The question of a behaviour.                                            *)

QuestionInv == question.about \in {"meminfo", "filters"} \/ question \in Questions

(* A behaviour has the question it began with. *)
LEMMA QuestionStays == AlgorithmsSpec => []QuestionInv
<1>1. Ask => QuestionInv
    BY DEF Ask, QuestionInv
<1>2. QuestionInv /\ [Answer]_<<vars, filterVars, question>> => QuestionInv'
    BY DEF QuestionInv, Answer, Questions
<1> QED BY <1>1, <1>2, PTL DEF AlgorithmsSpec

-----------------------------------------------------------------------------
(* Sampler: the share of the random values that is sampled.                *)

(* The quotient of a division, by products. *)
LEMMA Quotient ==
    ASSUME NEW a \in Nat, NEW d \in Nat \ {0}
    PROVE  /\ a \div d \in Nat
           /\ (a \div d) * d <= a /\ a < (a \div d) * d + d
OBVIOUS

LEMMA Product ==
    ASSUME NEW a \in Nat, NEW b \in Nat
    PROVE  a * b \in Nat
OBVIOUS

LEMMA ProductMonotone ==
    ASSUME NEW a \in Nat, NEW b \in Nat, NEW c \in Nat, a <= b
    PROVE  a * c <= b * c
OBVIOUS

LEMMA ProductStrict ==
    ASSUME NEW a \in Nat, NEW b \in Nat, NEW c \in Nat \ {0}, a < b
    PROVE  a * c < b * c
OBVIOUS

LEMMA OneIsPositive == One \in Nat \ {0}
BY SamplerConstants DEF One

(* Of the values around zero, 2 * b - 1 are closer to it than b. *)
LEMMA ValuesAroundZero ==
    ASSUME NEW b \in Nat, b <= MaxLong
    PROVE  Cardinality({v \in Longs : v > -b /\ v < b}) = IF b = 0 THEN 0 ELSE 2 * b - 1
<1>1. {v \in Longs : v > -b /\ v < b} = (-b + 1) .. (b - 1)
    BY SamplerConstants DEF Longs
<1>2. Cardinality((-b + 1) .. (b - 1)) = IF -b + 1 > b - 1 THEN 0 ELSE (b - 1) - (-b + 1) + 1
    BY FS_Interval
<1>3. Cardinality((-b + 1) .. (b - 1)) = IF b = 0 THEN 0 ELSE 2 * b - 1
    BY <1>2
<1> QED BY <1>1, <1>3, Zenon

LEMMA NumberOfLongs == Cardinality(Longs) = 2 * MaxLong + 2
<1>1. Cardinality(Longs) = IF -MaxLong - 1 > MaxLong THEN 0 ELSE MaxLong - (-MaxLong - 1) + 1
    BY FS_Interval, SamplerConstants DEF Longs
<1> QED BY <1>1, SamplerConstants

(* The reported rate is a whole number of steps, and off by half a step at *)
(* most; only below one step it is a whole step whatever the rate is.      *)
LEMMA RoundedRate ==
    ASSUME NEW rate \in 0 .. One
    PROVE  /\ RoundToPrecision(rate) \in Nat
           /\ RoundToPrecision(rate) = 0 <=> rate = 0
           /\ rate < Fine => RoundToPrecision(rate) \in {0, 1}
           /\ rate >= Fine =>
                 /\ 2 * (RoundToPrecision(rate) * Fine) <= 2 * rate + Fine
                 /\ 2 * rate < 2 * (RoundToPrecision(rate) * Fine) + Fine
<1>1. rate \in Nat /\ Fine \in Nat \ {0}
    BY OneIsPositive, SamplerConstants
<1>2. CASE rate > 0 /\ rate < Fine
    BY <1>1, <1>2 DEF RoundToPrecision
<1>3. CASE ~(rate > 0 /\ rate < Fine)
    <2>1. PICK r \in Nat : r = (2 * rate + Fine) \div (2 * Fine)
        BY <1>1, Quotient
    <2>2. RoundToPrecision(rate) = r
        BY <1>3, <2>1 DEF RoundToPrecision
    <2>3. r * (2 * Fine) <= 2 * rate + Fine /\ 2 * rate + Fine < r * (2 * Fine) + 2 * Fine
        <3>1. 2 * rate + Fine \in Nat /\ 2 * Fine \in Nat \ {0}
            BY <1>1
        <3> QED BY <2>1, <3>1, Quotient
    <2>4. r * (2 * Fine) = 2 * (r * Fine) /\ r * Fine \in Nat
        BY <1>1
    <2>5. r = 0 => r * Fine = 0
        BY <1>1
    <2>6. r # 0 => r * Fine >= Fine
        BY <1>1
    <2>7. r = 0 => rate < Fine
        BY <1>1, <2>3, <2>4, <2>5
    <2>8. rate = 0 => r = 0
        BY <1>1, <2>3, <2>4, <2>6
    <2> QED BY <1>1, <1>3, <2>2, <2>3, <2>4, <2>7, <2>8
<1> QED BY <1>2, <1>3

(* How many of the values are sampled: all, none, or those nearer to zero  *)
(* than the bound.                                                         *)
LEMMA NumberSampled ==
    ASSUME NEW rate \in 0 .. One, NEW sampled,
           sampled = Cardinality({v \in Longs : DecideIfToSample(rate, v)})
    PROVE  /\ RoundToPrecision(rate) = Precision => sampled = 2 * MaxLong + 2
           /\ RoundToPrecision(rate) = 0 => sampled = 0
           /\ ~Constant(rate) =>
                 sampled = IF HigherBound(rate) = 0 THEN 0 ELSE 2 * HigherBound(rate) - 1
<1>1. CASE RoundToPrecision(rate) = Precision
    <2>1. {v \in Longs : DecideIfToSample(rate, v)} = Longs
        BY <1>1 DEF DecideIfToSample, Constant
    <2>2. RoundToPrecision(rate) # 0 /\ Constant(rate)
        BY <1>1, SamplerConstants DEF Constant
    <2> QED BY <1>1, <2>1, <2>2, NumberOfLongs
<1>2. CASE RoundToPrecision(rate) = 0
    <2>1. RoundToPrecision(rate) # Precision /\ Constant(rate)
        BY <1>2, SamplerConstants DEF Constant
    <2>2. {v \in Longs : DecideIfToSample(rate, v)} = {}
        BY <2>1 DEF DecideIfToSample
    <2> QED BY <2>1, <2>2, FS_EmptySet
<1>3. CASE ~Constant(rate)
    <2>1. {v \in Longs : DecideIfToSample(rate, v)}
             = {v \in Longs : v > -HigherBound(rate) /\ v < HigherBound(rate)}
        BY <1>3 DEF DecideIfToSample
    <2>2. rate \in Nat /\ rate <= One /\ One \in Nat \ {0} /\ MaxLong \in Nat
        BY OneIsPositive, SamplerConstants
    <2>3. MaxLong * rate \in Nat /\ MaxLong * rate <= MaxLong * One
        BY <2>2, Product, ProductMonotone
    <2>4. HigherBound(rate) \in Nat /\ HigherBound(rate) * One <= MaxLong * rate
        BY <2>2, <2>3, Quotient DEF HigherBound
    <2>5. HigherBound(rate) <= MaxLong
        <3>1. SUFFICES ASSUME MaxLong < HigherBound(rate) PROVE FALSE
            BY <2>2, <2>4
        <3>2. MaxLong * One < HigherBound(rate) * One
            BY <2>2, <2>4, <3>1, ProductStrict
        <3> QED BY <2>2, <2>3, <2>4, <3>2, Product
    <2>6. Cardinality({v \in Longs : v > -HigherBound(rate) /\ v < HigherBound(rate)})
             = IF HigherBound(rate) = 0 THEN 0 ELSE 2 * HigherBound(rate) - 1
        BY <2>4, <2>5, ValuesAroundZero
    <2>7. RoundToPrecision(rate) \notin {0, Precision}
        BY <1>3 DEF Constant
    <2> QED BY <1>3, <2>1, <2>6, <2>7, Zenon
<1> QED BY <1>1, <1>2, <1>3 DEF Constant

(* The arithmetic of the bound, its products named: r * width is the share *)
(* of the rate as it was given, s the one sampled, t the reported one.     *)
LEMMA ShareBound ==
    ASSUME NEW one \in Nat, NEW r \in Nat, r <= one, NEW mr \in Nat,
           NEW b \in Nat, NEW bo \in Nat, bo <= mr, mr < bo + one, b = 0 => bo = 0,
           NEW s \in Int, s = IF b = 0 THEN 0 ELSE 2 * bo - one,
           NEW step \in Nat, NEW t \in Nat,
           2 * t <= 2 * (2 * mr + 2 * r) + step, 2 * (2 * mr + 2 * r) <= 2 * t + step
    PROVE  2 * Distance(s, t) <= step + 10 * one
BY DEF Distance

(* For every rate, every precision and every width of the random number:   *)
(* the share of the values that is sampled is the rate that a transaction  *)
(* reports, up to half a step (below one step: a step) and 5 values.       *)
THEOREM SampledShareOfEveryRate ==
    ASSUME NEW rate \in 0 .. One
    PROVE  2 * Distance(Cardinality({v \in Longs : DecideIfToSample(rate, v)}) * One,
                        RoundToPrecision(rate) * Fine * (2 * MaxLong + 2))
              <= (IF rate < Fine THEN 2 ELSE 1) * (Fine * (2 * MaxLong + 2)) + 2 * 5 * One
<1>1. rate \in Nat /\ rate <= One /\ One \in Nat \ {0} /\ MaxLong \in Nat /\ Fine \in Nat \ {0}
    BY OneIsPositive, SamplerConstants
<1>2. PICK width \in Nat \ {0} : width = 2 * MaxLong + 2
    BY <1>1
<1>3. PICK step \in Nat : step = Fine * width
    BY <1>1, Product
<1>4. PICK sampled : sampled = Cardinality({v \in Longs : DecideIfToSample(rate, v)})
    OBVIOUS
<1>5. PICK rounded \in Nat : rounded = RoundToPrecision(rate)
    BY RoundedRate
<1>6. SUFFICES 2 * Distance(sampled * One, rounded * Fine * width)
                  <= (IF rate < Fine THEN 2 ELSE 1) * step + 10 * One
    BY <1>1, <1>2, <1>3, <1>4, <1>5
<1>7. PICK reported \in Nat : reported = rounded * Fine * width
    BY <1>1, Product
<1>8. CASE rounded = Precision
    <2>1. sampled = width
        BY <1>2, <1>4, <1>5, <1>8, NumberSampled
    <2>2. rounded * Fine * width = width * One
        BY <1>1, <1>8, <2>1, SamplerConstants DEF One
    <2>3. Distance(width * One, width * One) = 0
        BY <1>1, <1>2, Product DEF Distance
    <2> QED BY <1>1, <1>3, <2>1, <2>2, <2>3
<1>9. CASE rounded = 0
    <2>1. sampled = 0
        BY <1>4, <1>5, <1>9, NumberSampled
    <2>2. rounded * Fine * width = 0 /\ sampled * One = 0
        BY <1>1, <1>9, <2>1
    <2> QED BY <1>1, <1>3, <2>2 DEF Distance
<1>10. CASE rounded \notin {0, Precision}
    <2>1. ~Constant(rate)
        BY <1>5, <1>10 DEF Constant
    <2>2. PICK mr \in Nat : mr = MaxLong * rate
        BY <1>1, Product
    <2>3. PICK b \in Nat : b = HigherBound(rate) /\ b * One <= mr /\ mr < b * One + One
        BY <1>1, <2>2, Quotient DEF HigherBound
    <2>4. PICK bo \in Nat : bo = b * One
        BY <1>1, Product
    <2>5. sampled = IF b = 0 THEN 0 ELSE 2 * b - 1
        BY <1>4, <2>1, <2>3, NumberSampled
    <2>6. PICK s \in Int : s = sampled * One
        BY <1>1, <2>5
    <2>7. s = IF b = 0 THEN 0 ELSE 2 * bo - One
        <3>1. (2 * b - 1) * One = 2 * (b * One) - One
            BY <1>1
        <3> QED BY <1>1, <2>4, <2>5, <2>6, <3>1
    <2>8. s \in Nat /\ s <= 2 * mr
        <3>1. b # 0 => b * One >= One
            BY <1>1
        <3> QED BY <1>1, <2>3, <2>4, <2>7, <3>1
    <2>9. CASE rate < Fine
        <3>1. rounded = 1
            BY <1>5, <1>10, <2>9, RoundedRate
        <3>2. reported = step
            BY <1>1, <1>3, <1>7, <3>1
        <3>3. mr <= MaxLong * Fine
            BY <1>1, <2>2, <2>9
        <3>4. step = 2 * (MaxLong * Fine) + 2 * Fine
            BY <1>1, <1>2, <1>3
        <3>5. s <= step
            BY <1>1, <2>2, <2>8, <3>3, <3>4, Product
        <3> QED BY <1>1, <1>7, <2>6, <2>8, <2>9, <3>2, <3>5 DEF Distance
    <2>10. CASE rate >= Fine
        <3>1. PICK rf \in Nat : rf = rounded * Fine /\ 2 * rf <= 2 * rate + Fine /\ 2 * rate < 2 * rf + Fine
            BY <1>1, <1>5, <2>10, RoundedRate, Product
        <3>2. rf * width = reported
            BY <1>7, <3>1
        <3>3. rate * width = 2 * mr + 2 * rate
            BY <1>1, <1>2, <2>2
        <3>4. (2 * rf) * width <= (2 * rate + Fine) * width
            BY <1>1, <1>2, <3>1, ProductMonotone
        <3>5. (2 * rate) * width <= (2 * rf + Fine) * width
            BY <1>1, <1>2, <3>1, ProductMonotone
        <3>6. /\ (2 * rf) * width = 2 * (rf * width)
              /\ (2 * rate + Fine) * width = 2 * (rate * width) + Fine * width
              /\ (2 * rate) * width = 2 * (rate * width)
              /\ (2 * rf + Fine) * width = 2 * (rf * width) + Fine * width
            BY <1>1, <1>2, <3>1
        <3>7. /\ 2 * reported <= 2 * (2 * mr + 2 * rate) + step
              /\ 2 * (2 * mr + 2 * rate) <= 2 * reported + step
            BY <1>3, <3>2, <3>3, <3>4, <3>5, <3>6
        <3>8. b = 0 => bo = 0
            BY <1>1, <2>4
        <3>9. 2 * Distance(s, reported) <= step + 10 * One
            BY <1>1, <2>3, <2>4, <2>7, <3>7, <3>8, ShareBound
        <3> QED BY <1>1, <1>3, <1>7, <2>6, <2>10, <3>9
    <2> QED BY <1>1, <2>9, <2>10
<1> QED BY <1>8, <1>9, <1>10

(* Transaction: the sampling of every rate that may be asked about.        *)
THEOREM SamplingKeepsTheRate == AlgorithmsSpec => []SampledShare
<1>1. QuestionInv => SampledShare
    <2> SUFFICES ASSUME QuestionInv, Asked("sampler") PROVE SampledShare
        BY DEF SampledShare
    <2>1. question.rate \in 0 .. One
        BY DEF QuestionInv, Asked, Questions, WildcardQuestions, SamplerQuestions,
               TraceparentQuestions, TracestateQuestions, VersionQuestions
    <2> QED BY <2>1, SampledShareOfEveryRate DEF SampledShare
<1> QED BY <1>1, QuestionStays, PTL

-----------------------------------------------------------------------------
(* ElasticVersion: the order on all versions.                              *)

AnyVersion == VersionType \cup {NoVersion}

LEMMA ComponentCases ==
    ASSUME NEW a, NEW b
    PROVE  /\ IsEmpty(a) /\ IsEmpty(b) => CompareComponent(a, b) = 0
           /\ IsEmpty(a) /\ ~IsEmpty(b) => CompareComponent(a, b) = 1
           /\ ~IsEmpty(a) /\ IsEmpty(b) => CompareComponent(a, b) = -1
           /\ ~IsEmpty(a) /\ ~IsEmpty(b) =>
                 CompareComponent(a, b) = IF a.kind = b.kind THEN CompareTo(a.rank, b.rank)
                                          ELSE IF a.kind = "number" THEN -1 ELSE 1
<1>1. ASSUME IsEmpty(a), IsEmpty(b) PROVE CompareComponent(a, b) = 0
    BY <1>1, Zenon DEF CompareComponent
<1>2. ASSUME IsEmpty(a), ~IsEmpty(b) PROVE CompareComponent(a, b) = 1
    BY <1>2, Zenon DEF CompareComponent
<1>3. ASSUME ~IsEmpty(a), IsEmpty(b) PROVE CompareComponent(a, b) = -1
    BY <1>3, Zenon DEF CompareComponent
<1>4. ASSUME ~IsEmpty(a), ~IsEmpty(b)
      PROVE  CompareComponent(a, b) = IF a.kind = b.kind THEN CompareTo(a.rank, b.rank)
                                      ELSE IF a.kind = "number" THEN -1 ELSE 1
    BY <1>4, Zenon DEF CompareComponent
<1> QED BY <1>1, <1>2, <1>3, <1>4

LEMMA CompareCases ==
    ASSUME NEW v, NEW w
    PROVE  /\ v = NoVersion /\ w = NoVersion => Compare(v, w) = 0
           /\ v = NoVersion /\ w # NoVersion => Compare(v, w) = -1
           /\ v # NoVersion /\ w = NoVersion => Compare(v, w) = 1
           /\ v # NoVersion /\ w # NoVersion => Compare(v, w) = CompareByPrecedence(v, w)
<1>1. ASSUME v = NoVersion, w = NoVersion PROVE Compare(v, w) = 0
    BY <1>1, Zenon DEF Compare
<1>2. ASSUME v = NoVersion, w # NoVersion PROVE Compare(v, w) = -1
    BY <1>2, Zenon DEF Compare
<1>3. ASSUME v # NoVersion, w = NoVersion PROVE Compare(v, w) = 1
    BY <1>3, Zenon DEF Compare
<1>4. ASSUME v # NoVersion, w # NoVersion PROVE Compare(v, w) = CompareByPrecedence(v, w)
    BY <1>4, Zenon DEF Compare
<1> QED BY <1>1, <1>2, <1>3, <1>4

(* Numbers, and prereleases, are ordered: comparing the other way round    *)
(* gives the opposite, and what is below something is below all above it.  *)
LEMMA NumbersOrdered ==
    ASSUME NEW m \in Nat, NEW n \in Nat, NEW p \in Nat
    PROVE  /\ CompareTo(m, n) \in {-1, 0, 1} /\ CompareTo(m, n) = -CompareTo(n, m)
           /\ CompareTo(m, n) = 0 <=> m = n
           /\ CompareTo(m, n) < 0 /\ CompareTo(n, p) <= 0 => CompareTo(m, p) < 0
BY DEF CompareTo

LEMMA PrereleasesOrdered ==
    ASSUME NEW a \in PrereleaseType, NEW b \in PrereleaseType, NEW c \in PrereleaseType
    PROVE  /\ CompareComponent(a, b) \in {-1, 0, 1}
           /\ CompareComponent(a, b) = -CompareComponent(b, a)
           /\ CompareComponent(a, b) < 0 /\ CompareComponent(b, c) <= 0 => CompareComponent(a, c) < 0
           /\ CompareComponent(a, b) <= 0 /\ CompareComponent(b, c) < 0 => CompareComponent(a, c) < 0
<1>1. /\ a.rank \in Nat /\ b.rank \in Nat /\ c.rank \in Nat
      /\ \A p \in {a, b, c} : ~IsEmpty(p) => p.kind \in {"number", "word"}
    BY DEF PrereleaseType, IsEmpty
<1> QED BY <1>1, ComponentCases DEF CompareTo

LEMMA PrecedenceOrdered ==
    ASSUME NEW v \in VersionType, NEW w \in VersionType, NEW x \in VersionType
    PROVE  /\ CompareByPrecedence(v, w) \in Int
           /\ CompareByPrecedence(v, w) = -CompareByPrecedence(w, v)
           /\ CompareByPrecedence(v, w) < 0 /\ CompareByPrecedence(w, x) <= 0
                 => CompareByPrecedence(v, x) < 0
<1>1. \A u \in {v, w, x} : /\ u.major \in Nat /\ u.minor \in Nat /\ u.patch \in Nat
                           /\ u.prerelease \in PrereleaseType
    BY DEF VersionType
<1>20. /\ CompareTo(v.major, w.major) \in Int /\ CompareTo(w.major, v.major) = -CompareTo(v.major, w.major)
       /\ CompareTo(v.minor, w.minor) \in Int /\ CompareTo(w.minor, v.minor) = -CompareTo(v.minor, w.minor)
       /\ CompareTo(v.patch, w.patch) \in Int /\ CompareTo(w.patch, v.patch) = -CompareTo(v.patch, w.patch)
    BY <1>1 DEF CompareTo
<1>21. /\ CompareComponent(v.prerelease, w.prerelease) \in Int
       /\ CompareComponent(w.prerelease, v.prerelease) = -CompareComponent(v.prerelease, w.prerelease)
    BY <1>1, PrereleasesOrdered
<1>2. PICK a1 \in Int, a2 \in Int, a3 \in Int, a4 \in Int :
         /\ a1 = CompareTo(v.major, w.major) /\ -a1 = CompareTo(w.major, v.major)
         /\ a2 = CompareTo(v.minor, w.minor) /\ -a2 = CompareTo(w.minor, v.minor)
         /\ a3 = CompareTo(v.patch, w.patch) /\ -a3 = CompareTo(w.patch, v.patch)
         /\ a4 = CompareComponent(v.prerelease, w.prerelease)
         /\ -a4 = CompareComponent(w.prerelease, v.prerelease)
    BY <1>20, <1>21
<1>3. PICK b1 \in Int, b2 \in Int, b3 \in Int, b4 \in Int :
         /\ b1 = CompareTo(w.major, x.major) /\ b2 = CompareTo(w.minor, x.minor)
         /\ b3 = CompareTo(w.patch, x.patch)
         /\ b4 = CompareComponent(w.prerelease, x.prerelease)
    BY <1>1, NumbersOrdered, PrereleasesOrdered
<1>4. PICK c1 \in Int, c2 \in Int, c3 \in Int, c4 \in Int :
         /\ c1 = CompareTo(v.major, x.major) /\ c2 = CompareTo(v.minor, x.minor)
         /\ c3 = CompareTo(v.patch, x.patch)
         /\ c4 = CompareComponent(v.prerelease, x.prerelease)
    BY <1>1, NumbersOrdered, PrereleasesOrdered
<1>5. /\ CompareByPrecedence(v, w) = FirstNonZero(a1, FirstNonZero(a2, FirstNonZero(a3, a4)))
      /\ CompareByPrecedence(w, x) = FirstNonZero(b1, FirstNonZero(b2, FirstNonZero(b3, b4)))
      /\ CompareByPrecedence(v, x) = FirstNonZero(c1, FirstNonZero(c2, FirstNonZero(c3, c4)))
    BY <1>2, <1>3, <1>4 DEF CompareByPrecedence
<1>6. CompareByPrecedence(w, v) = FirstNonZero(-a1, FirstNonZero(-a2, FirstNonZero(-a3, -a4)))
    <2>1. /\ CompareTo(w.major, v.major) = -a1 /\ CompareTo(w.minor, v.minor) = -a2
          /\ CompareTo(w.patch, v.patch) = -a3
          /\ CompareComponent(w.prerelease, v.prerelease) = -a4
        BY <1>2, <1>20, <1>21
    <2> QED BY <2>1 DEF CompareByPrecedence
<1>7. /\ a1 <= 0 /\ b1 <= 0 => c1 <= 0
      /\ a2 <= 0 /\ b2 <= 0 => c2 <= 0
      /\ a3 <= 0 /\ b3 <= 0 => c3 <= 0
      /\ a1 <= 0 /\ b1 <= 0 /\ c1 = 0 => a1 = 0 /\ b1 = 0
      /\ a2 <= 0 /\ b2 <= 0 /\ c2 = 0 => a2 = 0 /\ b2 = 0
      /\ a3 <= 0 /\ b3 <= 0 /\ c3 = 0 => a3 = 0 /\ b3 = 0
    BY <1>1, <1>2, <1>3, <1>4 DEF CompareTo
<1>8. a4 < 0 /\ b4 <= 0 => c4 < 0
    BY <1>1, <1>2, <1>3, <1>4, PrereleasesOrdered
<1>9. CompareByPrecedence(v, w) \in Int
    BY <1>2, <1>5 DEF FirstNonZero
<1>10. CompareByPrecedence(v, w) = -CompareByPrecedence(w, v)
    BY <1>2, <1>5, <1>6 DEF FirstNonZero
<1>11. ASSUME CompareByPrecedence(v, w) < 0, CompareByPrecedence(w, x) <= 0
       PROVE  CompareByPrecedence(v, x) < 0
    <2>1. \/ a1 < 0
          \/ a1 = 0 /\ a2 < 0
          \/ a1 = 0 /\ a2 = 0 /\ a3 < 0
          \/ a1 = 0 /\ a2 = 0 /\ a3 = 0 /\ a4 < 0
        BY <1>5, <1>11 DEF FirstNonZero
    <2>2. \/ b1 < 0
          \/ b1 = 0 /\ b2 < 0
          \/ b1 = 0 /\ b2 = 0 /\ b3 < 0
          \/ b1 = 0 /\ b2 = 0 /\ b3 = 0 /\ b4 <= 0
        BY <1>5, <1>11 DEF FirstNonZero
    <2>3. \/ c1 < 0
          \/ c1 = 0 /\ c2 < 0
          \/ c1 = 0 /\ c2 = 0 /\ c3 < 0
          \/ c1 = 0 /\ c2 = 0 /\ c3 = 0 /\ c4 < 0
        BY <1>7, <1>8, <2>1, <2>2
    <2> QED BY <1>5, <2>3 DEF FirstNonZero
<1> QED BY <1>9, <1>10, <1>11

(* Null comes before every version, and equals itself only. *)
LEMMA VersionsOrdered ==
    ASSUME NEW v \in AnyVersion, NEW w \in AnyVersion, NEW x \in AnyVersion
    PROVE  /\ Compare(v, w) \in Int
           /\ Compare(v, w) = -Compare(w, v)
           /\ Compare(v, w) < 0 /\ Compare(w, x) <= 0 => Compare(v, x) < 0
<1>1. \A y \in {v, w, x} : y # NoVersion => y \in VersionType
    BY DEF AnyVersion
<1>2. CASE v # NoVersion /\ w # NoVersion /\ x # NoVersion
    <2>1. /\ Compare(v, w) = CompareByPrecedence(v, w) /\ Compare(w, v) = CompareByPrecedence(w, v)
          /\ Compare(w, x) = CompareByPrecedence(w, x) /\ Compare(v, x) = CompareByPrecedence(v, x)
        BY <1>2, CompareCases
    <2> QED BY <1>1, <1>2, <2>1, PrecedenceOrdered
<1>3. CASE v # NoVersion /\ w # NoVersion /\ x = NoVersion
    <2>1. /\ Compare(v, w) = CompareByPrecedence(v, w) /\ Compare(w, v) = CompareByPrecedence(w, v)
          /\ Compare(w, x) = 1
        BY <1>3, CompareCases
    <2> QED BY <1>1, <1>3, <2>1, PrecedenceOrdered
<1>4. CASE v = NoVersion \/ w = NoVersion
    BY <1>4, CompareCases
<1> QED BY <1>2, <1>3, <1>4

(* For all versions, whatever their numbers: comparing the other way round *)
(* gives the opposite, the order is transitive, and a prerelease comes     *)
(* before its release and after every earlier release.                     *)
THEOREM OrderOfEveryVersion ==
    ASSUME NEW v \in AnyVersion, NEW w \in AnyVersion, NEW x \in AnyVersion
    PROVE  /\ Compare(v, w) = -Compare(w, v)
           /\ Less(v, w) /\ ~Less(x, w) => Less(v, x)
           /\ v # NoVersion /\ ~IsEmpty(v.prerelease) =>
                 LET release == [v EXCEPT !.prerelease = [kind |-> "empty", rank |-> 0]] IN
                 /\ Less(v, release)
                 /\ \A p \in 0 .. release.patch - 1 : Less([release EXCEPT !.patch = p], v)
<1>1. Compare(v, w) = -Compare(w, v)
    BY VersionsOrdered
<1>2. ASSUME Less(v, w), ~Less(x, w) PROVE Less(v, x)
    <2>1. /\ Compare(x, w) \in Int /\ Compare(w, x) \in Int
          /\ Compare(w, x) = -Compare(x, w)
        BY VersionsOrdered
    <2>2. Compare(w, x) <= 0
        BY <1>2, <2>1 DEF Less
    <2> QED BY <1>2, <2>2, VersionsOrdered DEF Less
<1>3. ASSUME v # NoVersion, ~IsEmpty(v.prerelease),
             NEW release, release = [v EXCEPT !.prerelease = [kind |-> "empty", rank |-> 0]]
      PROVE  /\ Less(v, release)
             /\ \A p \in 0 .. release.patch - 1 : Less([release EXCEPT !.patch = p], v)
    <2>1. v \in VersionType
        BY <1>3 DEF AnyVersion
    <2>2. /\ release \in VersionType /\ release.patch = v.patch
          /\ release.major = v.major /\ release.minor = v.minor /\ IsEmpty(release.prerelease)
        BY <1>3, <2>1 DEF VersionType, PrereleaseType, IsEmpty
    <2>3. v.major \in Nat /\ v.minor \in Nat /\ v.patch \in Nat /\ v.prerelease \in PrereleaseType
        BY <2>1 DEF VersionType
    <2>4. Less(v, release)
        <3>1. CompareComponent(v.prerelease, release.prerelease) = -1
            BY <1>3, <2>2, ComponentCases
        <3>2. CompareByPrecedence(v, release) = -1
            BY <2>2, <2>3, <3>1 DEF CompareByPrecedence, FirstNonZero, CompareTo
        <3>3. Compare(v, release) = -1
            BY <1>3, <2>2, <3>2, CompareCases, NoVersionIsNull
        <3> QED BY <3>3 DEF Less
    <2>5. ASSUME NEW p \in 0 .. release.patch - 1
          PROVE  Less([release EXCEPT !.patch = p], v)
        <3>1. PICK earlier : earlier = [release EXCEPT !.patch = p]
            OBVIOUS
        <3>2. /\ earlier \in VersionType /\ earlier.patch = p
              /\ earlier.major = v.major /\ earlier.minor = v.minor /\ p < v.patch
            BY <2>2, <2>3, <3>1 DEF VersionType
        <3>3. CompareByPrecedence(earlier, v) = -1
            BY <2>3, <3>2 DEF CompareByPrecedence, FirstNonZero, CompareTo
        <3>4. Compare(earlier, v) = -1
            BY <1>3, <3>2, <3>3, CompareCases, NoVersionIsNull
        <3> QED BY <3>1, <3>4 DEF Less
    <2> QED BY <2>4, <2>5
<1> QED BY <1>1, <1>2, <1>3

(* ApmServerInfo: the choice of an intake API, for every version asked     *)
(* about.                                                                  *)
THEOREM VersionsAreOrdered == AlgorithmsSpec => []VersionOrder
<1>1. QuestionInv => VersionOrder
    <2> SUFFICES ASSUME QuestionInv, Asked("version") PROVE VersionOrder
        BY DEF VersionOrder
    <2>1. question \in VersionQuestions
        BY DEF QuestionInv, Asked, Questions, WildcardQuestions, SamplerQuestions,
               TraceparentQuestions, TracestateQuestions
    <2>2. question.v \in Versions /\ question.w \in Versions /\ question.x \in Versions
        BY <2>1 DEF VersionQuestions
    <2>3. Versions \subseteq AnyVersion
        BY DEF Versions, AnyVersion, VersionType, PrereleaseType, Prereleases
    <2>4. question.v \in AnyVersion /\ question.w \in AnyVersion /\ question.x \in AnyVersion
        BY <2>2, <2>3
    <2> QED BY <2>4, OrderOfEveryVersion DEF VersionOrder
<1> QED BY <1>1, QuestionStays, PTL

-----------------------------------------------------------------------------
(* EventFilters: a batch is filtered while an application adds filters.    *)

FilterType ==
    /\ slots \in Seq(Filters \cup {NoFilter}) /\ added \in Seq(Filters)
    /\ adding \in Filters \cup {NoFilter}
    /\ count \in Nat \cup {-1} /\ current \in FilteredEvents
    /\ outcome \in [FilteredEvents -> {"queued", "serialized", "dropped", "lost", "posted"}]
    /\ called = [e \in FilteredEvents |-> called[e]]
    /\ expected \in [FilteredEvents -> Seq(Filters)]

(* The List holds what was added, in this order, and last a slot without a *)
(* filter while one is being added.                                        *)
SlotsInv ==
    /\ Len(slots) = Len(added) + (IF adding = NoFilter THEN 0 ELSE 1)
    /\ \A i \in 1 .. Len(added) : slots[i] = added[i]
    /\ adding # NoFilter => slots[Len(slots)] = NoFilter

(* The copy has room for every filter the event must pass. *)
CountInv ==
    count # -1 =>
       /\ outcome[current] = "queued"
       /\ Len(expected[current]) <= count /\ count <= Len(slots)

ExpectedInv ==
    \A e \in FilteredEvents :
       /\ Len(expected[e]) <= Len(added)
       /\ \A i \in 1 .. Len(expected[e]) : expected[e][i] = added[i]

CalledInv ==
    \A e \in FilteredEvents :
       /\ DOMAIN called[e] \subseteq 1 .. Len(added)
       /\ \A i \in DOMAIN called[e] :
             /\ called[e][i] = added[i]
             /\ \A j \in DOMAIN called[e] : j < i => ~Rejects(called[e][j], e)

SentInv ==
    \A e \in FilteredEvents :
       outcome[e] \in {"serialized", "posted"} =>
          \A i \in 1 .. Len(expected[e]) : i \in DOMAIN called[e] /\ ~Rejects(expected[e][i], e)

FilterInv == FilterType /\ SlotsInv /\ CountInv /\ ExpectedInv /\ CalledInv /\ SentInv

LEMMA FilterInitial ==
    ASSUME FiltersInit
    PROVE  FilterInv
<1>1. slots = <<>> /\ added = <<>> /\ Len(slots) = 0 /\ Len(added) = 0
    BY DEF FiltersInit
<1>2. /\ called = [e \in FilteredEvents |-> <<>>]
      /\ \A e \in FilteredEvents : DOMAIN called[e] = {} /\ Len(expected[e]) = 0 /\ outcome[e] = "queued"
    BY DEF FiltersInit
<1>3. FilterType
    <2>1. called = [e \in FilteredEvents |-> called[e]]
        BY <1>2
    <2> QED BY <1>1, <2>1 DEF FilterType, FiltersInit
<1>4. SlotsInv /\ CountInv
    BY <1>1 DEF SlotsInv, CountInv, FiltersInit
<1>5. ExpectedInv /\ CalledInv /\ SentInv
    BY <1>1, <1>2 DEF ExpectedInv, CalledInv, SentInv
<1> QED BY <1>3, <1>4, <1>5 DEF FilterInv

LEMMA FilterLengths ==
    ASSUME FilterInv
    PROVE  /\ Len(added) \in Nat /\ Len(slots) \in Nat
           /\ \A e \in FilteredEvents : Len(expected[e]) \in Nat
<1>1. added \in Seq(Filters) /\ slots \in Seq(Filters \cup {NoFilter})
    BY DEF FilterInv, FilterType
<1>2. \A e \in FilteredEvents : expected[e] \in Seq(Filters)
    BY DEF FilterInv, FilterType
<1> QED BY <1>1, <1>2

LEMMA GrowListStep ==
    ASSUME FilterInv, NEW f \in Filters, GrowList(f)
    PROVE  FilterInv'
<1>1. PICK n \in Nat : n = Len(added)
    BY FilterLengths
<1>2. Len(slots) = n /\ \A i \in 1 .. n : slots[i] = added[i]
    BY <1>1 DEF FilterInv, SlotsInv, GrowList
<1>3. /\ slots' \in Seq(Filters \cup {NoFilter}) /\ Len(slots') = n + 1 /\ slots'[n + 1] = NoFilter
      /\ \A i \in 1 .. n : slots'[i] = slots[i]
    BY <1>1, <1>2 DEF FilterInv, FilterType, GrowList
<1>4. FilterType'
    BY <1>3 DEF FilterInv, FilterType, GrowList
<1>5. SlotsInv'
    BY <1>1, <1>2, <1>3, FilterConstants DEF SlotsInv, GrowList
<1>6. CountInv'
    <2>1. count \in Nat \cup {-1}
        BY DEF FilterInv, FilterType
    <2> QED BY <1>1, <1>2, <1>3, <2>1 DEF FilterInv, CountInv, GrowList
<1>7. ExpectedInv' /\ CalledInv' /\ SentInv'
    BY DEF FilterInv, ExpectedInv, CalledInv, SentInv, GrowList
<1> QED BY <1>4, <1>5, <1>6, <1>7 DEF FilterInv

LEMMA StoreFilterStep ==
    ASSUME FilterInv, StoreFilter
    PROVE  FilterInv'
<1>1. PICK n \in Nat : n = Len(added)
    BY FilterLengths
<1>2. Len(slots) = n + 1 /\ \A i \in 1 .. n : slots[i] = added[i]
    BY <1>1 DEF FilterInv, SlotsInv, StoreFilter
<1>3. adding \in Filters
    BY DEF FilterInv, FilterType, StoreFilter
<1>4. /\ slots' \in Seq(Filters \cup {NoFilter}) /\ Len(slots') = n + 1 /\ slots'[n + 1] = adding
      /\ \A i \in 1 .. n : slots'[i] = slots[i]
    BY <1>1, <1>2, <1>3 DEF FilterInv, FilterType, StoreFilter
<1>5. /\ added' \in Seq(Filters) /\ Len(added') = n + 1 /\ added'[n + 1] = adding
      /\ \A i \in 1 .. n : added'[i] = added[i]
    BY <1>1, <1>3 DEF FilterInv, FilterType, StoreFilter
<1>6. FilterType'
    BY <1>4, <1>5 DEF FilterInv, FilterType, StoreFilter
<1>7. SlotsInv'
    <2>1. adding' = NoFilter
        BY DEF StoreFilter
    <2>2. \A i \in 1 .. n + 1 : slots'[i] = added'[i]
        BY <1>2, <1>4, <1>5
    <2> QED BY <1>4, <1>5, <2>1, <2>2 DEF SlotsInv
<1>8. CountInv'
    <2>1. count \in Nat \cup {-1}
        BY DEF FilterInv, FilterType
    <2> QED BY <1>2, <1>4, <2>1 DEF FilterInv, CountInv, StoreFilter
<1>9. ExpectedInv'
    <2> SUFFICES ASSUME NEW e \in FilteredEvents
                 PROVE  /\ Len(expected[e]) <= n + 1
                        /\ \A i \in 1 .. Len(expected[e]) : expected[e][i] = added'[i]
        BY <1>5 DEF ExpectedInv, StoreFilter
    <2>1. PICK k \in Nat : k = Len(expected[e])
        BY FilterLengths
    <2>2. k <= n /\ \A i \in 1 .. k : expected[e][i] = added[i]
        BY <1>1, <2>1 DEF FilterInv, ExpectedInv
    <2> QED BY <1>5, <2>1, <2>2
<1>10. CalledInv'
    <2> SUFFICES ASSUME NEW e \in FilteredEvents
                 PROVE  /\ DOMAIN called[e] \subseteq 1 .. n + 1
                        /\ \A i \in DOMAIN called[e] :
                              /\ called[e][i] = added'[i]
                              /\ \A j \in DOMAIN called[e] : j < i => ~Rejects(called[e][j], e)
        BY <1>5 DEF CalledInv, StoreFilter
    <2>1. DOMAIN called[e] \subseteq 1 .. n
        BY <1>1 DEF FilterInv, CalledInv
    <2>2. \A i \in DOMAIN called[e] :
             /\ called[e][i] = added[i]
             /\ \A j \in DOMAIN called[e] : j < i => ~Rejects(called[e][j], e)
        BY DEF FilterInv, CalledInv
    <2> QED BY <1>5, <2>1, <2>2
<1>11. SentInv'
    BY DEF FilterInv, SentInv, StoreFilter
<1> QED BY <1>6, <1>7, <1>8, <1>9, <1>10, <1>11 DEF FilterInv

LEMMA CountFiltersStep ==
    ASSUME FilterInv, CountFilters
    PROVE  FilterInv'
<1>1. PICK n \in Nat : n = Len(added)
    BY FilterLengths
<1>2. PICK m \in Nat : m = Len(slots)
    BY FilterLengths
<1>3. n <= m
    BY <1>1, <1>2 DEF FilterInv, SlotsInv
<1>4. /\ \A e \in FilteredEvents : expected'[e] = IF e = current THEN added ELSE expected[e]
      /\ expected' \in [FilteredEvents -> Seq(Filters)]
    BY DEF FilterInv, FilterType, CountFilters
<1>5. current \in FilteredEvents /\ outcome[current] = "queued"
    BY DEF FilterInv, FilterType, CountFilters
<1>6. FilterType'
    BY <1>2, <1>4 DEF FilterInv, FilterType, CountFilters
<1>7. SlotsInv'
    BY DEF FilterInv, SlotsInv, CountFilters
<1>8. CountInv'
    BY <1>1, <1>2, <1>3, <1>4, <1>5 DEF CountInv, CountFilters
<1>9. ExpectedInv'
    <2>1. added' = added
        BY DEF CountFilters
    <2> QED BY <1>1, <1>4, <2>1 DEF FilterInv, ExpectedInv
<1>10. CalledInv'
    BY DEF FilterInv, CalledInv, CountFilters
<1>11. SentInv'
    <2>1. outcome' = outcome /\ called' = called
        BY DEF CountFilters
    <2> QED BY <1>4, <1>5, <2>1 DEF FilterInv, SentInv
<1> QED BY <1>6, <1>7, <1>8, <1>9, <1>10, <1>11 DEF FilterInv

(* The filters that a copy without rejecters is passed to are all of it. *)
LEMMA AllCalled ==
    ASSUME NEW n \in Nat, NEW copy, DOMAIN copy = 1 .. n, NEW e,
           \A i \in Called(copy, e) : ~Rejects(copy[i], e)
    PROVE  \A i \in 1 .. n : i \in Called(copy, e) /\ ~Rejects(copy[i], e)
<1>1. SUFFICES ASSUME {i \in 1 .. n : Rejects(copy[i], e)} # {} PROVE FALSE
    BY DEF Called
<1>2. PICK i \in {k \in 1 .. n : Rejects(copy[k], e)} :
         \A j \in {k \in 1 .. n : Rejects(copy[k], e)} : i <= j
    <2>1. {k \in 1 .. n : Rejects(copy[k], e)} \in SUBSET Nat
        OBVIOUS
    <2> QED BY <1>1, <2>1, LeastNumber
<1>3. i \in Called(copy, e)
    BY <1>2 DEF Called
<1> QED BY <1>2, <1>3

LEMMA TryExecuteFilterStep ==
    ASSUME FilterInv, TryExecuteFilter
    PROVE  FilterInv'
<1>1. PICK n \in Nat, m \in Nat : n = Len(added) /\ m = Len(slots)
    BY FilterLengths
<1>2. count \in Nat /\ count <= m /\ current \in FilteredEvents
    BY <1>1 DEF FilterInv, FilterType, TryExecuteFilter, CountInv
<1>3. slots \in Seq(Filters \cup {NoFilter}) /\ added \in Seq(Filters)
    BY DEF FilterInv, FilterType
<1>4. PICK copy : copy = SubSeq(slots, 1, count)
    OBVIOUS
<1>5. DOMAIN copy = 1 .. count /\ \A i \in 1 .. count : copy[i] = slots[i]
    BY <1>1, <1>2, <1>3, <1>4
<1>6. PICK calls : calls = Called(copy, current)
    OBVIOUS
<1>7. calls \subseteq 1 .. count /\ \A i \in calls : \A j \in 1 .. i - 1 : ~Rejects(copy[j], current)
    BY <1>5, <1>6 DEF Called
<1>8. \A i \in 1 .. count : copy[i] # NoFilter => i <= n /\ copy[i] = added[i]
    <2>1. \A i \in 1 .. n : slots[i] = added[i]
        BY <1>1 DEF FilterInv, SlotsInv
    <2>2. \A i \in 1 .. m : i <= n \/ slots[i] = NoFilter
        BY <1>1 DEF FilterInv, SlotsInv
    <2> QED BY <1>1, <1>2, <1>5, <2>1, <2>2
<1>9. \A i \in 1 .. n : added[i] \in Filters /\ slots[i] = added[i] /\ added[i] # NoFilter
    BY <1>1, <1>3, FilterConstants DEF FilterInv, SlotsInv
<1>10. PICK new : new = [i \in {j \in calls : copy[j] # NoFilter} |-> copy[i]]
    OBVIOUS
<1>11. called' = [called EXCEPT ![current] = new]
    BY <1>4, <1>6, <1>10 DEF TryExecuteFilter
<1>12. \A e \in FilteredEvents : called'[e] = IF e = current THEN new ELSE called[e]
    <2>1. called = [e \in FilteredEvents |-> called[e]]
        BY DEF FilterInv, FilterType
    <2> QED BY <1>11, <2>1
<1>13. called' = [e \in FilteredEvents |-> called'[e]]
    <2>1. called = [e \in FilteredEvents |-> called[e]]
        BY DEF FilterInv, FilterType
    <2> QED BY <1>11, <2>1
<1>14. PICK o \in {"dropped", "serialized"} :
          /\ outcome' = [outcome EXCEPT ![current] = o]
          /\ o = "serialized" => \A i \in calls : ~Rejects(copy[i], current)
    BY <1>4, <1>6 DEF TryExecuteFilter
<1>15. \A e \in FilteredEvents : outcome'[e] = IF e = current THEN o ELSE outcome[e]
    BY <1>14 DEF FilterInv, FilterType
<1>16. /\ count' = -1 /\ slots' = slots /\ adding' = adding /\ added' = added
       /\ current' = current /\ expected' = expected
    BY DEF TryExecuteFilter
<1>17. FilterType'
    <2>1. outcome' \in [FilteredEvents -> {"queued", "serialized", "dropped", "lost", "posted"}]
        BY <1>14 DEF FilterInv, FilterType
    <2>2. adding \in Filters \cup {NoFilter} /\ expected \in [FilteredEvents -> Seq(Filters)]
        BY DEF FilterInv, FilterType
    <2> QED BY <1>2, <1>3, <1>13, <1>16, <2>1, <2>2 DEF FilterType
<1>18. SlotsInv' /\ CountInv' /\ ExpectedInv'
    BY <1>16 DEF FilterInv, SlotsInv, CountInv, ExpectedInv
<1>19. CalledInv'
    <2> SUFFICES ASSUME NEW e \in FilteredEvents
                 PROVE  /\ DOMAIN called'[e] \subseteq 1 .. n
                        /\ \A i \in DOMAIN called'[e] :
                              /\ called'[e][i] = added[i]
                              /\ \A j \in DOMAIN called'[e] : j < i => ~Rejects(called'[e][j], e)
        BY <1>1, <1>16 DEF CalledInv
    <2>1. CASE e # current
        <3>1. called'[e] = called[e]
            BY <1>12, <2>1
        <3> QED BY <1>1, <3>1 DEF FilterInv, CalledInv
    <2>2. CASE e = current
        <3>1. called'[e] = new
            BY <1>12, <2>2
        <3>2. \A i \in DOMAIN new : i \in calls /\ copy[i] # NoFilter /\ new[i] = copy[i]
            BY <1>10
        <3>3. \A i \in DOMAIN new : i \in 1 .. n /\ i \in 1 .. count /\ new[i] = added[i]
            <4> SUFFICES ASSUME NEW i \in DOMAIN new
                         PROVE  i \in 1 .. n /\ i \in 1 .. count /\ new[i] = added[i]
                OBVIOUS
            <4>1. i \in 1 .. count /\ copy[i] # NoFilter /\ new[i] = copy[i]
                BY <1>7, <3>2
            <4>2. i <= n /\ copy[i] = added[i]
                BY <1>8, <4>1
            <4> QED BY <1>2, <4>1, <4>2
        <3>4. \A i \in DOMAIN new : \A j \in DOMAIN new : j < i => ~Rejects(new[j], current)
            <4> SUFFICES ASSUME NEW i \in DOMAIN new, NEW j \in DOMAIN new, j < i
                         PROVE  ~Rejects(new[j], current)
                OBVIOUS
            <4>1. j \in 1 .. i - 1
                BY <1>2, <3>3
            <4> QED BY <1>7, <3>2, <4>1
        <3> QED BY <2>2, <3>1, <3>3, <3>4
    <2> QED BY <2>1, <2>2
<1>20. SentInv'
    <2> SUFFICES ASSUME NEW e \in FilteredEvents, outcome'[e] \in {"serialized", "posted"},
                        NEW i \in 1 .. Len(expected[e])
                 PROVE  i \in DOMAIN called'[e] /\ ~Rejects(expected[e][i], e)
        BY <1>16 DEF SentInv
    <2>1. CASE e # current
        <3>1. called'[e] = called[e] /\ outcome'[e] = outcome[e]
            BY <1>12, <1>15, <2>1
        <3> QED BY <3>1 DEF FilterInv, SentInv
    <2>2. CASE e = current
        <3>1. called'[e] = new /\ o = "serialized"
            BY <1>12, <1>14, <1>15, <2>2
        <3>2. \A k \in 1 .. count : k \in calls /\ ~Rejects(copy[k], current)
            BY <1>2, <1>5, <1>6, <1>14, <3>1, AllCalled
        <3>3. PICK k \in Nat : k = Len(expected[e]) /\ k <= count /\ k <= n
            BY <1>1, <1>2, <2>2, FilterLengths DEF FilterInv, CountInv, ExpectedInv
        <3>4. expected[e][i] = added[i]
            BY DEF FilterInv, ExpectedInv
        <3>5. i \in 1 .. count /\ i \in 1 .. n
            BY <1>1, <1>2, <3>3
        <3>6. copy[i] = added[i] /\ added[i] # NoFilter
            BY <1>5, <1>9, <3>5
        <3> QED BY <1>10, <2>2, <3>1, <3>2, <3>4, <3>5, <3>6
    <2> QED BY <2>1, <2>2
<1> QED BY <1>17, <1>18, <1>19, <1>20 DEF FilterInv

LEMMA LaterFilterSteps ==
    ASSUME FilterInv, CopyFails \/ PostBatch \/ \E e \in FilteredEvents : NextItem(e)
    PROVE  FilterInv'
<1>1. /\ slots' = slots /\ adding' = adding /\ added' = added /\ called' = called
      /\ expected' = expected /\ current' \in FilteredEvents /\ count' \in Nat \cup {-1}
    BY DEF CopyFails, PostBatch, NextItem, FilterInv, FilterType
<1>2. outcome' \in [FilteredEvents -> {"queued", "serialized", "dropped", "lost", "posted"}]
    BY DEF CopyFails, PostBatch, NextItem, FilterInv, FilterType
<1>3. FilterType'
    <2>1. /\ slots \in Seq(Filters \cup {NoFilter}) /\ added \in Seq(Filters)
          /\ adding \in Filters \cup {NoFilter} /\ expected \in [FilteredEvents -> Seq(Filters)]
        BY DEF FilterInv, FilterType
    <2>2. called = [e \in FilteredEvents |-> called[e]]
        BY DEF FilterInv, FilterType
    <2> QED BY <1>1, <1>2, <2>1, <2>2 DEF FilterType
<1>4. SlotsInv' /\ ExpectedInv' /\ CalledInv'
    BY <1>1 DEF FilterInv, SlotsInv, ExpectedInv, CalledInv
<1>5. CountInv'
    <2>1. CASE CopyFails
        BY <2>1 DEF CopyFails, CountInv
    <2>2. CASE PostBatch
        <3>1. count = -1 /\ count' = -1
            BY <2>2 DEF PostBatch, FilterInv, CountInv, FilterType
        <3> QED BY <3>1 DEF CountInv
    <2>3. CASE \E e \in FilteredEvents : NextItem(e)
        BY <2>3 DEF NextItem, CountInv
    <2> QED BY <2>1, <2>2, <2>3
<1>6. \A e \in FilteredEvents : outcome'[e] \in {"serialized", "posted"}
                                   => outcome[e] \in {"serialized", "posted"}
    BY DEF CopyFails, PostBatch, NextItem
<1>7. SentInv'
    BY <1>1, <1>6 DEF FilterInv, SentInv
<1> QED BY <1>3, <1>4, <1>5, <1>7 DEF FilterInv

LEMMA FilterStep ==
    ASSUME FilterInv, [FiltersNext]_filterVars
    PROVE  FilterInv'
<1>1. CASE UNCHANGED filterVars
    BY <1>1 DEF filterVars, FilterInv, FilterType, SlotsInv, CountInv, ExpectedInv, CalledInv, SentInv
<1>2. CASE FiltersNext
    BY <1>2, GrowListStep, StoreFilterStep, CountFiltersStep, TryExecuteFilterStep, LaterFilterSteps
        DEF FiltersNext
<1> QED BY <1>1, <1>2

(* Agent.AddFilter, for any filters, events and verdicts: what is sent has *)
(* passed every filter that was there when the loop came to it, in the     *)
(* order they were added, and none after the one that rejected it.         *)
THEOREM FiltersAreHonoured == AlgorithmsSpec => []FiltersHonoured
<1>1. Ask => FilterInv
    BY FilterInitial DEF Ask, NotFiltering
<1>2. FilterInv /\ [Answer]_<<vars, filterVars, question>> => FilterInv'
    <2> SUFFICES ASSUME FilterInv, [Answer]_<<vars, filterVars, question>> PROVE FilterInv'
        OBVIOUS
    <2>1. [FiltersNext]_filterVars
        BY DEF Answer, filterVars
    <2> QED BY <2>1, FilterStep
<1>3. FilterInv => FiltersHonoured
    <2> SUFFICES ASSUME FilterInv, NEW e \in FilteredEvents
                 PROVE  /\ outcome[e] \in {"serialized", "posted"} =>
                              \A i \in DOMAIN expected[e] :
                                 /\ ~Rejects(expected[e][i], e)
                                 /\ i \in DOMAIN called[e] /\ called[e][i] = expected[e][i]
                        /\ \A i \in DOMAIN called[e] :
                              /\ \A j \in DOMAIN called[e] : j < i => ~Rejects(called[e][j], e)
                              /\ i \in DOMAIN added => called[e][i] = added[i]
        BY DEF FiltersHonoured
    <2>1. DOMAIN expected[e] = 1 .. Len(expected[e])
        BY DEF FilterInv, FilterType
    <2>2. \A i \in 1 .. Len(expected[e]) : expected[e][i] = added[i]
        BY DEF FilterInv, ExpectedInv
    <2>3. \A i \in DOMAIN called[e] :
             /\ called[e][i] = added[i]
             /\ \A j \in DOMAIN called[e] : j < i => ~Rejects(called[e][j], e)
        BY DEF FilterInv, CalledInv
    <2>4. outcome[e] \in {"serialized", "posted"} =>
             \A i \in 1 .. Len(expected[e]) : i \in DOMAIN called[e] /\ ~Rejects(expected[e][i], e)
        BY DEF FilterInv, SentInv
    <2> QED BY <2>1, <2>2, <2>3, <2>4
<1> QED BY <1>1, <1>2, <1>3, PTL DEF AlgorithmsSpec

-----------------------------------------------------------------------------
(* Recursion: a function that is defined from 0 up to n, each value by the *)
(* one before it, exists.                                                  *)
StepByStep(g, n, V, start, F) ==
    /\ g \in [0 .. n -> V] /\ g[0] = start
    /\ \A i \in 1 .. n : g[i] = F[<<g[i - 1], i>>]

LEMMA DefinedStepByStep ==
    ASSUME NEW n \in Nat, NEW V, NEW start \in V, NEW F \in [V \X (1 .. n) -> V]
    PROVE  \E g : StepByStep(g, n, V, start, F)
<1> DEFINE UpTo(k) == \E g \in [0 .. k -> V] :
                         g[0] = start /\ \A i \in 1 .. k : g[i] = F[<<g[i - 1], i>>]
           Wrong == {k \in 0 .. n : ~UpTo(k)}
<1> SUFFICES UpTo(n)
    BY DEF StepByStep
<1>1. UpTo(0)
    <2>1. PICK g : g = [i \in 0 .. 0 |-> start]
        OBVIOUS
    <2>2. g \in [0 .. 0 -> V] /\ g[0] = start
        BY <2>1
    <2> QED BY <2>2
<1>2. ASSUME NEW k \in 0 .. n, k # n, UpTo(k) PROVE UpTo(k + 1)
    <2>1. PICK g \in [0 .. k -> V] : g[0] = start /\ \A i \in 1 .. k : g[i] = F[<<g[i - 1], i>>]
        BY <1>2
    <2>2. PICK next \in V : next = F[<<g[k], k + 1>>]
        <3>1. g[k] \in V /\ k + 1 \in 1 .. n
            BY <1>2
        <3> QED BY <3>1
    <2>3. PICK h : h = [i \in 0 .. k + 1 |-> IF i = k + 1 THEN next ELSE g[i]]
        OBVIOUS
    <2>4. h \in [0 .. k + 1 -> V]
        BY <1>2, <2>3
    <2>5. h[k + 1] = next /\ \A i \in 0 .. k : h[i] = g[i]
        BY <1>2, <2>3
    <2>6. h[0] = start /\ h[k] = g[k]
        BY <1>2, <2>1, <2>5
    <2>7. ASSUME NEW i \in 1 .. k + 1 PROVE h[i] = F[<<h[i - 1], i>>]
        <3>1. CASE i = k + 1
            <4>1. i - 1 = k
                BY <1>2, <3>1
            <4> QED BY <2>2, <2>5, <2>6, <3>1, <4>1
        <3>2. CASE i # k + 1
            <4>1. i \in 1 .. k /\ i \in 0 .. k /\ i - 1 \in 0 .. k
                BY <1>2, <3>2
            <4> QED BY <2>1, <2>5, <4>1
        <3> QED BY <3>1, <3>2
    <2> QED BY <2>4, <2>6, <2>7
<1>3. SUFFICES ASSUME Wrong # {} PROVE FALSE
    <2>1. n \in 0 .. n
        OBVIOUS
    <2> QED BY <2>1
<1> HIDE DEF UpTo
<1>4. PICK k \in Wrong : \A j \in Wrong : k <= j
    <2>1. Wrong \in SUBSET Nat
        OBVIOUS
    <2> QED BY <1>3, <2>1, LeastNumber
<1>5. k \in 0 .. n /\ ~UpTo(k)
    OBVIOUS
<1>6. k # 0
    BY <1>1, <1>5
<1>7. k - 1 \in 0 .. n /\ k - 1 # n /\ ~(k <= k - 1) /\ (k - 1) + 1 = k
    BY <1>5, <1>6
<1>8. UpTo(k - 1)
    BY <1>4, <1>7
<1>9. UpTo((k - 1) + 1)
    BY <1>2, <1>7, <1>8
<1> QED BY <1>5, <1>7, <1>9

-----------------------------------------------------------------------------
(* WildcardMatcher: a pattern finds every string that it describes.        *)

HitsOf(first, second, needle, ignoreCase, start, end) ==
    {i \in start .. end - 1 : FoundAt(first, second, needle, ignoreCase, i)}

LEMMA SearchCases ==
    ASSUME NEW first, NEW second, NEW needle, NEW ignoreCase, NEW start \in Int, NEW end \in Int
    PROVE  LET found == IndexOfIgnoreCase(first, second, needle, ignoreCase, start, end)
               Hits == HitsOf(first, second, needle, ignoreCase, start, end)
           IN  /\ start < 0 => found = -1
               /\ start >= 0 /\ needle = <<>> => found = 0
               /\ start >= 0 /\ needle # <<>> =>
                     found = IF Hits = {} THEN -1 ELSE CHOOSE i \in Hits : \A k \in Hits : i <= k
<1>1. ASSUME start < 0
      PROVE  IndexOfIgnoreCase(first, second, needle, ignoreCase, start, end) = -1
    <2>1. ~(start >= 0)
        BY <1>1
    <2> QED BY <1>1, <2>1, Zenon DEF IndexOfIgnoreCase
<1>2. ASSUME start >= 0, needle = <<>>
      PROVE  IndexOfIgnoreCase(first, second, needle, ignoreCase, start, end) = 0
    <2>1. ~(start < 0)
        BY <1>2
    <2> QED BY <1>2, <2>1, Zenon DEF IndexOfIgnoreCase
<1>3. ASSUME start >= 0, needle # <<>>
      PROVE  IndexOfIgnoreCase(first, second, needle, ignoreCase, start, end)
                = IF HitsOf(first, second, needle, ignoreCase, start, end) = {} THEN -1
                  ELSE CHOOSE i \in HitsOf(first, second, needle, ignoreCase, start, end) :
                          \A k \in HitsOf(first, second, needle, ignoreCase, start, end) : i <= k
    <2>1. ~(start < 0)
        BY <1>3
    <2> QED BY <1>3, <2>1, Zenon DEF IndexOfIgnoreCase, HitsOf
<1> QED BY <1>1, <1>2, <1>3

(* A search that does not start before the string finds the first place    *)
(* that fits, or nothing.                                                  *)
LEMMA SearchFindsFirst ==
    ASSUME NEW first, NEW second, NEW needle, NEW ignoreCase, NEW start \in Nat, NEW end \in Int,
           needle # <<>>, HitsOf(first, second, needle, ignoreCase, start, end) # {}
    PROVE  LET found == IndexOfIgnoreCase(first, second, needle, ignoreCase, start, end)
               Hits == HitsOf(first, second, needle, ignoreCase, start, end)
           IN  found \in Hits /\ \A i \in Hits : found <= i
<1>1. PICK Hits : Hits = HitsOf(first, second, needle, ignoreCase, start, end)
    OBVIOUS
<1>2. \E i \in Hits : \A k \in Hits : i <= k
    <2>1. Hits \in SUBSET Nat
        BY <1>1 DEF HitsOf
    <2> QED BY <1>1, <2>1, LeastNumber
<1>3. IndexOfIgnoreCase(first, second, needle, ignoreCase, start, end)
         = CHOOSE i \in Hits : \A k \in Hits : i <= k
    BY <1>1, SearchCases
<1> QED BY <1>1, <1>2, <1>3, Zenon

LEMMA SearchIsNumber ==
    ASSUME NEW first, NEW second, NEW needle, NEW ignoreCase, NEW start \in Int, NEW end \in Int
    PROVE  IndexOfIgnoreCase(first, second, needle, ignoreCase, start, end) \in Int
<1>1. CASE start < 0 \/ needle = <<>>
    BY <1>1, SearchCases
<1>2. CASE start >= 0 /\ needle # <<>> /\ HitsOf(first, second, needle, ignoreCase, start, end) = {}
    BY <1>2, SearchCases
<1>3. CASE start >= 0 /\ needle # <<>> /\ HitsOf(first, second, needle, ignoreCase, start, end) # {}
    <2>1. IndexOfIgnoreCase(first, second, needle, ignoreCase, start, end)
             \in HitsOf(first, second, needle, ignoreCase, start, end)
        <3>1. start \in Nat
            BY <1>3
        <3> QED BY <1>3, <3>1, SearchFindsFirst
    <2> QED BY <2>1 DEF HitsOf
<1> QED BY <1>1, <1>2, <1>3

(* The four kinds of literal, by where wildcards stand. *)
LEMMA LiteralCases ==
    ASSUME NEW m, NEW first, NEW second, NEW ignoreCase, NEW offset,
           NEW total, total = Len(first) + Len(second)
    PROVE  LET found == IndexOf(m, first, second, ignoreCase, offset)
               Index(start, end) == IndexOfIgnoreCase(first, second, m.matcher, ignoreCase, start, end)
           IN  /\ m.atBeginning /\ m.atEnd => found = Index(offset, total)
               /\ ~m.atBeginning /\ m.atEnd => found = Index(0, 1)
               /\ m.atBeginning /\ ~m.atEnd => found = Index(total - Len(m.matcher), total)
               /\ ~m.atBeginning /\ ~m.atEnd =>
                     found = IF total = Len(m.matcher) THEN Index(0, total) ELSE -1
<1> DEFINE Index(start, end) == IndexOfIgnoreCase(first, second, m.matcher, ignoreCase, start, end)
<1>1. ASSUME m.atBeginning, m.atEnd
      PROVE  IndexOf(m, first, second, ignoreCase, offset) = Index(offset, total)
    BY <1>1, Zenon DEF IndexOf
<1>2. ASSUME ~m.atBeginning, m.atEnd
      PROVE  IndexOf(m, first, second, ignoreCase, offset) = Index(0, 1)
    BY <1>2, Zenon DEF IndexOf
<1>3. ASSUME m.atBeginning, ~m.atEnd
      PROVE  IndexOf(m, first, second, ignoreCase, offset) = Index(total - Len(m.matcher), total)
    BY <1>3, Zenon DEF IndexOf
<1>4. ASSUME ~m.atBeginning, ~m.atEnd
      PROVE  IndexOf(m, first, second, ignoreCase, offset)
                = IF total = Len(m.matcher) THEN Index(0, total) ELSE -1
    BY <1>4, Zenon DEF IndexOf
<1> QED BY <1>1, <1>2, <1>3, <1>4, Zenon

LEMMA LiteralIsNumber ==
    ASSUME NEW m, NEW first, NEW second, NEW ignoreCase, NEW offset \in Int,
           Len(first) + Len(second) \in Nat, Len(m.matcher) \in Nat
    PROVE  IndexOf(m, first, second, ignoreCase, offset) \in Int
<1>1. PICK total \in Nat : total = Len(first) + Len(second)
    OBVIOUS
<1>2. total - Len(m.matcher) \in Int
    BY <1>1
<1>3. /\ IndexOfIgnoreCase(first, second, m.matcher, ignoreCase, offset, total) \in Int
      /\ IndexOfIgnoreCase(first, second, m.matcher, ignoreCase, 0, 1) \in Int
      /\ IndexOfIgnoreCase(first, second, m.matcher, ignoreCase, 0, total) \in Int
      /\ IndexOfIgnoreCase(first, second, m.matcher, ignoreCase, total - Len(m.matcher), total) \in Int
    BY <1>2, SearchIsNumber
<1>4. CASE m.atBeginning
    <2>1. CASE m.atEnd
        BY <1>1, <1>3, <1>4, <2>1, LiteralCases
    <2>2. CASE ~m.atEnd
        BY <1>1, <1>3, <1>4, <2>2, LiteralCases
    <2> QED BY <2>1, <2>2
<1>5. CASE ~m.atBeginning
    <2>1. CASE m.atEnd
        BY <1>1, <1>3, <1>5, <2>1, LiteralCases
    <2>2. CASE ~m.atEnd
        <3>1. -1 \in Int
            OBVIOUS
        <3> QED BY <1>1, <1>3, <1>5, <2>2, <3>1, LiteralCases
    <2> QED BY <2>1, <2>2
<1> QED BY <1>4, <1>5

(* Where the search for a literal goes on, given where the one before it   *)
(* ended; -1 is that a literal was not found.                              *)
Continue(m, first, second, ignoreCase, from) ==
    IF from = -1 THEN -1
    ELSE LET found == IndexOf(m, first, second, ignoreCase, from)
         IN  IF found = -1 THEN -1 ELSE found + Len(m.matcher)

(* The offsets of CompoundMatches are those of a function that exists.     *)
IsOffset(offset, matchers, n, first, second, ignoreCase) ==
    /\ offset \in [0 .. n -> Int] /\ offset[0] = 0
    /\ \A i \in 1 .. n : offset[i] = Continue(matchers[i], first, second, ignoreCase, offset[i - 1])
    /\ CompoundMatches(matchers, first, second, ignoreCase) <=> offset[n] # -1

LEMMA CompoundOffsets ==
    ASSUME NEW matchers, NEW n \in Nat, Len(matchers) = n, NEW first, NEW second, NEW ignoreCase,
           Len(first) + Len(second) \in Nat, \A i \in 1 .. n : Len(matchers[i].matcher) \in Nat
    PROVE  \E offset : IsOffset(offset, matchers, n, first, second, ignoreCase)
<1> DEFINE Body(f, i) == IF i = 0 THEN 0
                         ELSE IF f[i - 1] = -1 THEN -1
                         ELSE LET found == IndexOf(matchers[i], first, second, ignoreCase, f[i - 1])
                              IN  IF found = -1 THEN -1 ELSE found + Len(matchers[i].matcher)
           Offsets(f) == f = [i \in 0 .. Len(matchers) |-> Body(f, i)]
           F == [p \in Int \X (1 .. n) |-> Continue(matchers[p[2]], first, second, ignoreCase, p[1])]
<1>1. F \in [Int \X (1 .. n) -> Int]
    <2> SUFFICES ASSUME NEW x \in Int, NEW i \in 1 .. n
                 PROVE  Continue(matchers[i], first, second, ignoreCase, x) \in Int
        OBVIOUS
    <2>1. IndexOf(matchers[i], first, second, ignoreCase, x) \in Int
        BY LiteralIsNumber
    <2>2. Len(matchers[i].matcher) \in Nat
        OBVIOUS
    <2> QED BY <2>1, <2>2 DEF Continue
<1>2. PICK g \in [0 .. n -> Int] : g[0] = 0 /\ \A i \in 1 .. n : g[i] = F[<<g[i - 1], i>>]
    <2> HIDE DEF F
    <2>1. 0 \in Int
        OBVIOUS
    <2>2. \E g : StepByStep(g, n, Int, 0, F)
        BY <1>1, <2>1, DefinedStepByStep, Zenon
    <2> QED BY <2>2 DEF StepByStep
<1>3. \A i \in 1 .. n : g[i] = Continue(matchers[i], first, second, ignoreCase, g[i - 1])
    <2> TAKE i \in 1 .. n
    <2>1. i - 1 \in 0 .. n
        OBVIOUS
    <2>2. <<g[i - 1], i>> \in Int \X (1 .. n)
        BY <1>2, <2>1
    <2> QED BY <1>2, <2>2
<1>4. Offsets(g)
    <2>1. \A i \in 0 .. n : g[i] = Body(g, i)
        <3> TAKE i \in 0 .. n
        <3>1. CASE i = 0
            BY <1>2, <3>1
        <3>2. CASE i # 0
            <4>1. i \in 1 .. n
                BY <3>2
            <4> QED BY <1>3, <3>2, <4>1 DEF Continue
        <3> QED BY <3>1, <3>2
    <2> HIDE DEF Body
    <2> QED BY <1>2, <2>1
<1>5. PICK offset : /\ offset = CHOOSE f : Offsets(f)
                    /\ CompoundMatches(matchers, first, second, ignoreCase) <=> offset[Len(matchers)] # -1
    BY Zenon DEF CompoundMatches
<1>6. Offsets(offset)
    <2> HIDE DEF Offsets
    <2> QED BY <1>4, <1>5
<1>7. \A i \in 0 .. n : offset[i] = Body(offset, i)
    <2> HIDE DEF Body
    <2> QED BY <1>6
<1>8. offset[0] = 0
    BY <1>7
<1>9. \A i \in 1 .. n : offset[i] = Continue(matchers[i], first, second, ignoreCase, offset[i - 1])
    <2> TAKE i \in 1 .. n
    <2>1. i \in 0 .. n /\ i # 0
        OBVIOUS
    <2> QED BY <1>7, <2>1 DEF Continue
<1>10. offset \in [0 .. n -> Int]
    <2>1. DOMAIN offset = 0 .. n /\ offset = [i \in 0 .. n |-> offset[i]]
        BY <1>6
    <2>2. SUFFICES ASSUME {i \in 0 .. n : offset[i] \notin Int} # {} PROVE FALSE
        BY <2>1
    <2>3. PICK k \in {i \in 0 .. n : offset[i] \notin Int} :
             \A j \in {i \in 0 .. n : offset[i] \notin Int} : k <= j
        <3>1. {i \in 0 .. n : offset[i] \notin Int} \in SUBSET Nat
            OBVIOUS
        <3> QED BY <2>2, <3>1, LeastNumber
    <2>4. k # 0 /\ k \in 1 .. n /\ k - 1 \in 0 .. n /\ ~(k <= k - 1)
        BY <1>8, <2>3
    <2>5. offset[k - 1] \in Int
        BY <2>3, <2>4
    <2>6. F[<<offset[k - 1], k>>] = Continue(matchers[k], first, second, ignoreCase, offset[k - 1])
        BY <2>4, <2>5
    <2>7. F[<<offset[k - 1], k>>] \in Int
        <3> HIDE DEF F
        <3> QED BY <1>1, <2>4, <2>5
    <2>8. offset[k] \in Int
        BY <1>9, <2>4, <2>6, <2>7
    <2> QED BY <2>3, <2>8
<1> QED BY <1>5, <1>8, <1>9, <1>10 DEF IsOffset

LEMMA CharOfText ==
    ASSUME NEW Char, NEW first \in Seq(Char), NEW second \in Seq(Char),
           NEW i \in 0 .. Len(first) + Len(second) - 1
    PROVE  CharAt(i, first, second) = (first \o second)[i + 1]
<1>1. PICK m \in Nat, n \in Nat : m = Len(first) /\ n = Len(second)
    OBVIOUS
<1>2. CASE i < m
    BY <1>1, <1>2 DEF CharAt
<1>3. CASE ~(i < m)
    BY <1>1, <1>3 DEF CharAt
<1> QED BY <1>2, <1>3

(* A string that a pattern describes has the literals at these places.     *)
Places(pattern, first, second, ignoreCase, place) ==
    LET n == Len(pattern)
        total == Len(first) + Len(second)
    IN  /\ place[1] = 0 /\ place[n] + Len(pattern[n]) = total
        /\ \A i \in 1 .. n - 1 : place[i] + Len(pattern[i]) <= place[i + 1]
        /\ \A i \in 1 .. n : /\ place[i] \in Nat
                             /\ FoundAt(first, second, pattern[i], ignoreCase, place[i])

LEMMA DescribedHasPlaces ==
    ASSUME NEW Char, NEW pattern \in Seq(Seq(Char)), NEW first \in Seq(Char), NEW second \in Seq(Char),
           NEW ignoreCase, Describes(pattern, first \o second, ignoreCase)
    PROVE  \E place : Places(pattern, first, second, ignoreCase, place)
<1>1. PICK n \in Nat, total \in Nat :
         n = Len(pattern) /\ total = Len(first) + Len(second) /\ total = Len(first \o second)
    OBVIOUS
<1>2. PICK s : s = first \o second
    OBVIOUS
<1>3. \A i \in 1 .. n : Len(pattern[i]) \in Nat
    BY <1>1
<1>4. PICK place \in [1 .. n -> 0 .. total] :
         /\ place[1] = 0 /\ place[n] + Len(pattern[n]) = total
         /\ \A i \in 1 .. n - 1 : place[i] + Len(pattern[i]) <= place[i + 1]
         /\ \A i \in 1 .. n, j \in 1 .. total :
               j > place[i] /\ j <= place[i] + Len(pattern[i])
                  => SameChar(s[j], pattern[i][j - place[i]], ignoreCase)
    BY <1>1, <1>2 DEF Describes
<1>5. ASSUME NEW i \in 1 .. n
      PROVE  place[i] \in Nat /\ FoundAt(first, second, pattern[i], ignoreCase, place[i])
    <2>1. PICK a \in Nat, l \in Nat : a = place[i] /\ a <= total /\ l = Len(pattern[i])
        <3>1. place[i] \in 0 .. total
            BY <1>4
        <3>2. place[i] \in Nat /\ place[i] <= total
            BY <3>1
        <3> QED BY <1>3, <3>2
    <2>2. a + l <= total
        <3>1. CASE i = n
            BY <1>4, <2>1, <3>1
        <3>2. CASE i # n
            <4>1. i \in 1 .. n - 1 /\ i + 1 \in 1 .. n
                BY <1>1, <3>2
            <4>2. PICK b \in Nat : b = place[i + 1] /\ b <= total
                BY <1>4, <4>1
            <4> QED BY <1>4, <2>1, <4>1, <4>2
        <3> QED BY <3>1, <3>2
    <2>3. ASSUME NEW j \in 0 .. l - 1
          PROVE  SameChar(CharAt(a + j, first, second), pattern[i][j + 1], ignoreCase)
        <3>1. a + j \in 0 .. total - 1 /\ (a + j) + 1 \in 1 .. total
            BY <2>2
        <3>2. PICK k \in 1 .. total : k = (a + j) + 1 /\ k > a /\ k <= a + l /\ k - a = j + 1
            BY <3>1
        <3>3. CharAt(a + j, first, second) = s[k]
            BY <1>1, <1>2, <3>1, <3>2, CharOfText
        <3>4. SameChar(s[k], pattern[i][k - a], ignoreCase)
            BY <1>4, <2>1, <3>2
        <3> QED BY <3>2, <3>3, <3>4
    <2> QED BY <1>1, <2>1, <2>2, <2>3 DEF FoundAt
<1> QED BY <1>1, <1>4, <1>5 DEF Places

(* The search for a literal that is somewhere finds it there or before. *)
LEMMA LiteralIsFound ==
    ASSUME NEW m, NEW first, NEW second, NEW ignoreCase,
           NEW total \in Nat, total = Len(first) + Len(second),
           NEW length \in Nat, length = Len(m.matcher), length = 0 <=> m.matcher = <<>>,
           NEW place \in Nat, FoundAt(first, second, m.matcher, ignoreCase, place),
           NEW from \in Nat, from <= place,
           ~m.atBeginning => place = 0 /\ length # 0 /\ m.atEnd,
           ~m.atEnd => place + length = total /\ length # 0
    PROVE  IndexOf(m, first, second, ignoreCase, from) \in 0 .. place
<1>1. place + length <= total
    BY DEF FoundAt
<1>2. ASSUME NEW start \in Nat, NEW end \in Int, length # 0, place \in start .. end - 1
      PROVE  IndexOfIgnoreCase(first, second, m.matcher, ignoreCase, start, end) \in 0 .. place
    <2>1. PICK Hits : Hits = HitsOf(first, second, m.matcher, ignoreCase, start, end)
        OBVIOUS
    <2>2. place \in Hits /\ m.matcher # <<>>
        BY <1>2, <2>1 DEF HitsOf
    <2>3. PICK r : r = IndexOfIgnoreCase(first, second, m.matcher, ignoreCase, start, end)
        OBVIOUS
    <2>4. r \in Hits /\ \A i \in Hits : r <= i
        BY <2>1, <2>2, <2>3, SearchFindsFirst
    <2>5. r \in Nat
        BY <2>1, <2>4 DEF HitsOf
    <2> QED BY <2>2, <2>3, <2>4, <2>5
<1>3. CASE m.atBeginning /\ m.atEnd
    <2>1. IndexOf(m, first, second, ignoreCase, from)
             = IndexOfIgnoreCase(first, second, m.matcher, ignoreCase, from, total)
        BY <1>3, LiteralCases
    <2>2. CASE length = 0
        <3>1. m.matcher = <<>> /\ from \in Int /\ total \in Int /\ from >= 0
            BY <2>2
        <3>2. IndexOfIgnoreCase(first, second, m.matcher, ignoreCase, from, total) = 0
            BY <3>1, SearchCases
        <3> QED BY <2>1, <3>2
    <2>3. CASE length # 0
        <3>1. place \in from .. total - 1
            BY <1>1, <2>3
        <3> QED BY <1>2, <2>1, <2>3, <3>1
    <2> QED BY <2>2, <2>3
<1>4. CASE ~m.atBeginning
    <2>1. m.atEnd /\ place = 0 /\ length # 0
        BY <1>4
    <2>2. IndexOf(m, first, second, ignoreCase, from)
             = IndexOfIgnoreCase(first, second, m.matcher, ignoreCase, 0, 1)
        BY <1>4, <2>1, LiteralCases
    <2>3. 0 \in Nat /\ 1 \in Int /\ place \in 0 .. 1 - 1
        BY <2>1
    <2> QED BY <1>2, <2>1, <2>2, <2>3
<1>5. CASE m.atBeginning /\ ~m.atEnd
    <2>1. place + length = total /\ length # 0
        BY <1>5
    <2>2. total - Len(m.matcher) = place /\ place \in place .. total - 1 /\ total \in Int
        BY <2>1
    <2>3. IndexOf(m, first, second, ignoreCase, from)
             = IndexOfIgnoreCase(first, second, m.matcher, ignoreCase, total - Len(m.matcher), total)
        BY <1>5, LiteralCases
    <2>4. IndexOfIgnoreCase(first, second, m.matcher, ignoreCase, place, total) \in 0 .. place
        BY <1>2, <2>1, <2>2
    <2> QED BY <2>2, <2>3, <2>4, Zenon
<1> QED BY <1>3, <1>4, <1>5

(* The parts of a pattern, and where wildcards stand. *)
LEMMA ValueOfParts ==
    ASSUME NEW Char, NEW pattern \in Seq(Seq(Char)), NEW n \in Nat, n = Len(pattern),
           NEW matchers, matchers = ValueOf(pattern)
    PROVE  /\ Len(matchers) = n
           /\ \A i \in 1 .. n :
                 /\ matchers[i].matcher = pattern[i]
                 /\ matchers[i].atBeginning <=> i # 1 \/ pattern[1] = <<>>
                 /\ matchers[i].atEnd <=> i # n \/ pattern[n] = <<>>
<1>1. matchers = [i \in 1 .. n |->
                    [matcher |-> pattern[i],
                     atBeginning |-> i # 1 \/ pattern[1] = <<>>,
                     atEnd |-> i # n \/ pattern[n] = <<>>]]
    BY DEF ValueOf
<1>2. PICK S : S = {matchers[i] : i \in 1 .. n}
    OBVIOUS
<1>3. Len(matchers) = n
    <2>1. matchers = [i \in 1 .. n |-> matchers[i]]
        BY <1>1, Zenon
    <2>2. \A i \in 1 .. n : matchers[i] \in S
        BY <1>2
    <2>3. matchers \in [1 .. n -> S]
        BY <2>1, <2>2
    <2>4. matchers \in Seq(S) /\ DOMAIN matchers = 1 .. n
        BY <2>3
    <2> QED BY <2>4
<1>4. ASSUME NEW i \in 1 .. n
      PROVE  /\ matchers[i].matcher = pattern[i]
             /\ matchers[i].atBeginning <=> i # 1 \/ pattern[1] = <<>>
             /\ matchers[i].atEnd <=> i # n \/ pattern[n] = <<>>
    <2>1. PICK b \in BOOLEAN, e \in BOOLEAN :
             /\ b = (i # 1 \/ pattern[1] = <<>>) /\ e = (i # n \/ pattern[n] = <<>>)
             /\ matchers[i] = [matcher |-> pattern[i], atBeginning |-> b, atEnd |-> e]
        <3>1. PICK b, e : b = (i # 1 \/ pattern[1] = <<>>) /\ e = (i # n \/ pattern[n] = <<>>)
            OBVIOUS
        <3>2. b \in BOOLEAN /\ e \in BOOLEAN
            BY <3>1
        <3> QED BY <1>1, <3>1, <3>2, Zenon
    <2>2. matchers[i].matcher = pattern[i] /\ matchers[i].atBeginning = b /\ matchers[i].atEnd = e
        BY <2>1
    <2>3. matchers[i].atBeginning <=> i # 1 \/ pattern[1] = <<>>
        BY <2>1, <2>2, Zenon
    <2>4. matchers[i].atEnd <=> i # n \/ pattern[n] = <<>>
        BY <2>1, <2>2, Zenon
    <2> QED BY <2>2, <2>3, <2>4
<1> QED BY <1>3, <1>4

(* A pattern with a wildcard: every literal is found no later than where   *)
(* it is, so the next one is still ahead.                                  *)
LEMMA CompoundFindsAll ==
    ASSUME NEW Char, NEW pattern \in Seq(Seq(Char)), NEW first \in Seq(Char), NEW second \in Seq(Char),
           NEW ignoreCase, Len(pattern) > 1, NEW place, Places(pattern, first, second, ignoreCase, place)
    PROVE  CompoundMatches(ValueOf(pattern), first, second, ignoreCase)
<1>1. PICK n \in Nat, total \in Nat :
         n = Len(pattern) /\ n > 1 /\ n # 1 /\ total = Len(first) + Len(second)
    OBVIOUS
<1>2. \A i \in 1 .. n : Len(pattern[i]) \in Nat /\ (Len(pattern[i]) = 0 <=> pattern[i] = <<>>)
    BY <1>1
<1>3. PICK matchers : matchers = ValueOf(pattern)
    OBVIOUS
<1>4. /\ Len(matchers) = n
      /\ \A i \in 1 .. n :
            /\ matchers[i].matcher = pattern[i]
            /\ matchers[i].atBeginning <=> i # 1 \/ pattern[1] = <<>>
            /\ matchers[i].atEnd <=> i # n \/ pattern[n] = <<>>
    BY <1>1, <1>3, ValueOfParts
<1>5. PICK offset \in [0 .. n -> Int] :
         /\ offset[0] = 0
         /\ \A i \in 1 .. n :
               offset[i] = Continue(matchers[i], first, second, ignoreCase, offset[i - 1])
         /\ CompoundMatches(matchers, first, second, ignoreCase) <=> offset[n] # -1
    <2>1. Len(first) + Len(second) \in Nat
        OBVIOUS
    <2>2. \A i \in 1 .. n : Len(matchers[i].matcher) \in Nat
        BY <1>2, <1>4
    <2>3. \E offset : IsOffset(offset, matchers, n, first, second, ignoreCase)
        BY <1>4, <2>1, <2>2, CompoundOffsets, Zenon
    <2> QED BY <2>3 DEF IsOffset
<1> DEFINE Ahead(i) == offset[i] \in Nat /\ (i # 0 => offset[i] <= place[i] + Len(pattern[i]))
           Wrong == {i \in 0 .. n : ~Ahead(i)}
<1>6. Ahead(0)
    BY <1>5
<1>7. ASSUME NEW i \in 1 .. n, Ahead(i - 1) PROVE Ahead(i)
    <2>1. PICK m : m = matchers[i]
        OBVIOUS
    <2>2. PICK length \in Nat : length = Len(pattern[i]) /\ (length = 0 <=> pattern[i] = <<>>)
        BY <1>2
    <2>3. m.matcher = pattern[i] /\ place[i] \in Nat
          /\ FoundAt(first, second, pattern[i], ignoreCase, place[i])
        BY <1>1, <1>4, <2>1 DEF Places
    <2>4. PICK from : from = offset[i - 1]
        OBVIOUS
    <2>5. PICK p \in Nat : p = place[i]
        BY <2>3
    <2>6. from \in Nat /\ from <= p
        <3>1. CASE i = 1
            BY <1>5, <2>4, <2>5, <3>1
        <3>2. CASE i # 1
            <4>1. PICK k \in 1 .. n - 1 : k = i - 1 /\ i = k + 1
                BY <1>1, <3>2
            <4>2. offset[k] \in Nat /\ offset[k] <= place[k] + Len(pattern[k])
                BY <1>7, <4>1
            <4>3. k \in 1 .. n /\ place[k] \in Nat /\ place[k] + Len(pattern[k]) <= place[k + 1]
                BY <1>1, <4>1 DEF Places
            <4>4. PICK q \in Nat, l \in Nat : q = place[k] /\ l = Len(pattern[k])
                BY <1>2, <4>3
            <4>5. from \in Nat /\ from <= q + l
                BY <2>4, <4>1, <4>2, <4>4
            <4>6. q + l <= p
                BY <2>5, <4>1, <4>3, <4>4
            <4> QED BY <4>5, <4>6
        <3> QED BY <3>1, <3>2
    <2>7. ~m.atBeginning => p = 0 /\ length # 0 /\ m.atEnd
        <3>1. ~m.atBeginning => i = 1 /\ pattern[1] # <<>>
            BY <1>4, <2>1, Zenon
        <3>2. i # n => m.atEnd
            BY <1>4, <2>1, Zenon
        <3>3. i = 1 => i # n /\ p = 0
            <4>1. place[1] = 0
                BY DEF Places
            <4>2. i = 1 => p = 0
                BY <2>5, <4>1, Zenon
            <4>3. i = 1 => i # n
                BY <1>1, Zenon
            <4> QED BY <4>2, <4>3
        <3> QED BY <2>2, <3>1, <3>2, <3>3, Zenon
    <2>8. ~m.atEnd => p + length = total /\ length # 0
        BY <1>1, <1>4, <2>1, <2>2, <2>5 DEF Places
    <2>9. PICK found \in Nat : found = IndexOf(m, first, second, ignoreCase, from) /\ found <= p
        <3>1. length = Len(m.matcher) /\ (length = 0 <=> m.matcher = <<>>)
            BY <2>2, <2>3
        <3>2. FoundAt(first, second, m.matcher, ignoreCase, p)
            BY <2>3, <2>5
        <3>3. from \in Nat /\ from <= p /\ total = Len(first) + Len(second)
            BY <1>1, <2>6
        <3>4. IndexOf(m, first, second, ignoreCase, from) \in 0 .. p
            BY <2>7, <2>8, <3>1, <3>2, <3>3, LiteralIsFound, Zenon
        <3> QED BY <3>4
    <2>10. offset[i] = found + length
        <3>1. offset[i] = Continue(m, first, second, ignoreCase, from)
            BY <1>5, <2>1, <2>4
        <3>2. from # -1 /\ found # -1 /\ Len(m.matcher) = length
            BY <2>2, <2>3, <2>6
        <3> QED BY <2>9, <3>1, <3>2, Zenon DEF Continue
    <2>11. found + length \in Nat /\ found + length <= p + length
        BY <2>9
    <2> QED BY <2>2, <2>5, <2>10, <2>11, Zenon
<1> HIDE DEF Ahead
<1>8. Wrong = {}
    <2> SUFFICES ASSUME Wrong # {} PROVE FALSE
        OBVIOUS
    <2>1. PICK k \in Wrong : \A j \in Wrong : k <= j
        <3>1. Wrong \in SUBSET Nat
            OBVIOUS
        <3> QED BY <3>1, LeastNumber
    <2>2. k \in 0 .. n /\ ~Ahead(k)
        OBVIOUS
    <2>3. k \in 1 .. n /\ k - 1 \in 0 .. n /\ ~(k <= k - 1)
        BY <1>6, <2>2
    <2>4. Ahead(k - 1)
        BY <2>1, <2>3
    <2> QED BY <1>7, <2>2, <2>3, <2>4
<1>9. Ahead(n)
    <2>1. n \in 0 .. n
        BY <1>1
    <2> QED BY <1>8, <2>1
<1>10. offset[n] # -1
    BY <1>9 DEF Ahead
<1> QED BY <1>3, <1>5, <1>10

LEMMA VerbatimFinds ==
    ASSUME NEW Char, NEW literal \in Seq(Char), NEW first \in Seq(Char), NEW second \in Seq(Char),
           NEW ignoreCase, FoundAt(first, second, literal, ignoreCase, 0),
           Len(literal) = Len(first) + Len(second)
    PROVE  VerbatimMatches(literal, first, second, ignoreCase)
<1>1. ASSUME NEW i \in DOMAIN literal
      PROVE  SameChar(literal[i], CharAt(i - 1, first, second), ignoreCase)
    <2>1. PICK n \in Nat : n = Len(literal)
        OBVIOUS
    <2>2. PICK j \in 0 .. n - 1 : j = i - 1 /\ 0 + j = j /\ j + 1 = i
        BY <2>1
    <2>3. SameChar(CharAt(0 + j, first, second), literal[j + 1], ignoreCase)
        BY <2>1, <2>2 DEF FoundAt
    <2>4. SameChar(CharAt(i - 1, first, second), literal[i], ignoreCase)
        BY <2>2, <2>3
    <2> QED BY <2>4 DEF SameChar
<1> QED BY <1>1 DEF VerbatimMatches

(* Whatever the characters, the literals, the number of wildcards, the     *)
(* case and the point where the string is split: no string that a pattern  *)
(* describes escapes it.                                                   *)
THEOREM DescribedIsMatched ==
    ASSUME NEW Char, NEW pattern \in Seq(Seq(Char)), pattern # <<>>,
           NEW first \in Seq(Char), NEW second \in Seq(Char), NEW ignoreCase,
           Describes(pattern, first \o second, ignoreCase)
    PROVE  Matches(pattern, first, second, ignoreCase)
<1>1. PICK place : Places(pattern, first, second, ignoreCase, place)
    BY DescribedHasPlaces
<1>2. PICK n \in Nat : n = Len(pattern) /\ n # 0
    OBVIOUS
<1>3. CASE n = 1
    <2>1. 1 \in 1 .. n /\ pattern[1] \in Seq(Char) /\ Len(pattern[1]) \in Nat
        BY <1>2, <1>3
    <2>2. FoundAt(first, second, pattern[1], ignoreCase, 0)
        BY <1>1, <1>2, <1>3, <2>1 DEF Places
    <2>3. Len(pattern[1]) = Len(first) + Len(second)
        <3>1. 0 + Len(pattern[1]) = Len(first) + Len(second)
            BY <1>1, <1>2, <1>3 DEF Places
        <3> QED BY <2>1, <3>1
    <2>4. VerbatimMatches(pattern[1], first, second, ignoreCase)
        BY <2>1, <2>2, <2>3, VerbatimFinds
    <2> QED BY <1>2, <1>3, <2>4 DEF Matches
<1>4. CASE n # 1
    <2>1. Len(pattern) > 1
        BY <1>2, <1>4
    <2>2. CompoundMatches(ValueOf(pattern), first, second, ignoreCase)
        BY <1>1, <2>1, CompoundFindsAll
    <2> QED BY <1>2, <1>4, <2>2 DEF Matches
<1> QED BY <1>3, <1>4

LEMMA AskedIsString ==
    ASSUME NEW chars, NEW n \in Nat, NEW s \in Strings(chars, n)
    PROVE  s \in Seq(chars)
<1>1. PICK k \in 0 .. n : s \in [1 .. k -> chars]
    BY DEF Strings
<1> QED BY <1>1

LEMMA AskedPatterns ==
    ASSUME question \in WildcardQuestions
    PROVE  /\ question.pattern \in Seq(Seq({"a", "A", "b"})) /\ question.pattern # <<>>
           /\ question.first \in Seq({"a", "A", "b"}) /\ question.second \in Seq({"a", "A", "b"})
<1>1. question.first \in Strings({"a", "b"}, 2) /\ question.second \in Strings({"a", "A", "b"}, 1)
    BY DEF WildcardQuestions
<1>2. question.first \in Seq({"a", "b"}) /\ question.second \in Seq({"a", "A", "b"})
    BY <1>1, AskedIsString
<1>3. question.first \in Seq({"a", "A", "b"})
    BY <1>2
<1>4. question.pattern \in Patterns
    BY DEF WildcardQuestions
<1>5. PICK k, literals : /\ k \in Nat /\ k # 0 /\ question.pattern \in [1 .. k -> literals]
                        /\ literals \in {Strings({"a", "b"}, 1), Strings({"a", "A"}, 2)}
    <2>1. CASE question.pattern \in UNION {[1 .. k -> Strings({"a", "b"}, 1)] : k \in 1 .. 4}
        <3>1. PICK k \in 1 .. 4 : question.pattern \in [1 .. k -> Strings({"a", "b"}, 1)]
            BY <2>1
        <3>2. k \in Nat /\ k # 0
            OBVIOUS
        <3> QED BY <3>1, <3>2, Zenon
    <2>2. CASE question.pattern \in [1 .. 2 -> Strings({"a", "A"}, 2)]
        <3>1. 2 \in Nat /\ 2 # 0
            OBVIOUS
        <3> QED BY <2>2, <3>1, Zenon
    <2>3. \/ question.pattern \in UNION {[1 .. k -> Strings({"a", "b"}, 1)] : k \in 1 .. 4}
          \/ question.pattern \in [1 .. 2 -> Strings({"a", "A"}, 2)]
        BY <1>4, Zenon DEF Patterns
    <2> QED BY <2>1, <2>2, <2>3, Zenon
<1>6. literals \subseteq Seq({"a", "A", "b"})
    <2> SUFFICES ASSUME NEW l \in literals PROVE l \in Seq({"a", "A", "b"})
        OBVIOUS
    <2>1. CASE l \in Strings({"a", "b"}, 1)
        <3>1. l \in Seq({"a", "b"})
            BY <2>1, AskedIsString
        <3> QED BY <3>1
    <2>2. CASE l \in Strings({"a", "A"}, 2)
        <3>1. l \in Seq({"a", "A"})
            BY <2>2, AskedIsString
        <3> QED BY <3>1
    <2> QED BY <1>5, <2>1, <2>2
<1>7. question.pattern \in Seq(literals) /\ Len(question.pattern) = k
    BY <1>5
<1>8. question.pattern \in Seq(Seq({"a", "A", "b"}))
    BY <1>6, <1>7
<1> QED BY <1>2, <1>3, <1>5, <1>7, <1>8

(* SanitizeFieldNames, TransactionIgnoreUrls, ...: of every pattern that   *)
(* is asked about.                                                         *)
THEOREM WildcardsMissNothing == AlgorithmsSpec => []WildcardMissesNothing
<1>1. QuestionInv => WildcardMissesNothing
    <2> SUFFICES ASSUME QuestionInv, Asked("wildcard"),
                        Describes(question.pattern, Text, question.ignoreCase)
                 PROVE  Matches(question.pattern, question.first, question.second, question.ignoreCase)
        BY DEF WildcardMissesNothing
    <2>1. question \in WildcardQuestions
        BY DEF QuestionInv, Asked, Questions, SamplerQuestions, VersionQuestions,
               TraceparentQuestions, TracestateQuestions
    <2> QED BY <2>1, AskedPatterns, DescribedIsMatched DEF Text
<1> QED BY <1>1, QuestionStays, PTL

(* And the other way round, for a pattern of one literal at most.          *)

(* Places that lie in the string describe it. *)
LEMMA PlacesDescribe ==
    ASSUME NEW Char, NEW pattern \in Seq(Seq(Char)), NEW first \in Seq(Char), NEW second \in Seq(Char),
           NEW ignoreCase, NEW n \in Nat, n = Len(pattern),
           NEW total \in Nat, total = Len(first) + Len(second),
           NEW place \in [1 .. n -> 0 .. total], Places(pattern, first, second, ignoreCase, place)
    PROVE  Describes(pattern, first \o second, ignoreCase)
<1>1. PICK s : s = first \o second
    OBVIOUS
<1>2. Len(s) = total
    BY <1>1
<1>3. /\ place[1] = 0 /\ place[n] + Len(pattern[n]) = total
      /\ \A i \in 1 .. n - 1 : place[i] + Len(pattern[i]) <= place[i + 1]
    BY DEF Places
<1>4. ASSUME NEW i \in 1 .. n, NEW j \in 1 .. total, j > place[i], j <= place[i] + Len(pattern[i])
      PROVE  SameChar(s[j], pattern[i][j - place[i]], ignoreCase)
    <2>1. PICK p \in Nat : p = place[i]
        BY DEF Places
    <2>2. PICK l \in Nat : l = Len(pattern[i])
        OBVIOUS
    <2>3. j > p /\ j <= p + l
        BY <1>4, <2>1, <2>2
    <2>4. PICK d \in 0 .. l - 1 : d = j - p - 1 /\ d + 1 = j - p /\ p + d \in 0 .. total - 1
                                  /\ (p + d) + 1 = j
        BY <2>3
    <2>5. FoundAt(first, second, pattern[i], ignoreCase, p)
        BY <2>1 DEF Places
    <2>6. SameChar(CharAt(p + d, first, second), pattern[i][d + 1], ignoreCase)
        BY <2>2, <2>4, <2>5 DEF FoundAt
    <2>7. CharAt(p + d, first, second) = s[j]
        <3>1. p + d \in 0 .. Len(first) + Len(second) - 1
            BY <2>4
        <3>2. CharAt(p + d, first, second) = s[(p + d) + 1]
            BY <1>1, <3>1, CharOfText
        <3> QED BY <2>4, <3>2
    <2> QED BY <2>1, <2>4, <2>6, <2>7
<1>5. \E at0 \in [1 .. n -> 0 .. total] :
         /\ at0[1] = 0 /\ at0[n] + Len(pattern[n]) = total
         /\ \A i \in 1 .. n - 1 : at0[i] + Len(pattern[i]) <= at0[i + 1]
         /\ \A i \in 1 .. n, j \in 1 .. total :
               j > at0[i] /\ j <= at0[i] + Len(pattern[i])
                  => SameChar(s[j], pattern[i][j - at0[i]], ignoreCase)
    BY <1>3, <1>4
<1> QED BY <1>1, <1>2, <1>5 DEF Describes

LEMMA PlacesInOrder ==
    ASSUME NEW i \in Nat, NEW k \in Nat, NEW l \in Nat, NEW r \in Nat, NEW total \in Nat, r + l <= total,
           NEW a \in Nat, NEW b \in Nat, NEW m \in Nat,
           i < k => a = 0 /\ m = 0,
           i = k => a = r /\ m = l /\ b = total,
           i > k => m = 0 /\ a = total /\ b = total
    PROVE  a + m <= b
OBVIOUS

(* One literal at the place k, and the string matched: the literal is at r. *)
LEMMA OnePlace ==
    ASSUME NEW Char, NEW pattern \in Seq(Seq(Char)), NEW first \in Seq(Char), NEW second \in Seq(Char),
           NEW ignoreCase, NEW n \in Nat, n = Len(pattern), NEW k \in 1 .. n,
           \A i \in 1 .. n : i # k => pattern[i] = <<>>,
           NEW total \in Nat, total = Len(first) + Len(second),
           NEW r \in 0 .. total, FoundAt(first, second, pattern[k], ignoreCase, r),
           k = 1 => r = 0, k = n => r + Len(pattern[k]) = total
    PROVE  Describes(pattern, first \o second, ignoreCase)
<1>1. PICK place : place = [i \in 1 .. n |-> IF i < k THEN 0 ELSE IF i = k THEN r ELSE total]
    OBVIOUS
<1>2. place \in [1 .. n -> 0 .. total]
    BY <1>1
<1>3. PICK l \in Nat : l = Len(pattern[k]) /\ r + l <= total
    <2>1. PICK l \in Nat : l = Len(pattern[k])
        OBVIOUS
    <2> QED BY <2>1 DEF FoundAt
<1>4. \A i \in 1 .. n : Len(pattern[i]) = IF i = k THEN l ELSE 0
    BY <1>3
<1>5. place[1] = 0
    BY <1>1
<1>6. place[n] + Len(pattern[n]) = total
    <2>1. n \in 1 .. n /\ place[n] = IF n = k THEN r ELSE total
        BY <1>1
    <2>2. Len(pattern[n]) = IF n = k THEN l ELSE 0
        BY <1>4, <2>1
    <2>3. n = k => r + l = total
        BY <1>3
    <2>4. CASE n = k
        BY <2>1, <2>2, <2>3, <2>4
    <2>5. CASE n # k
        BY <2>1, <2>2, <2>5
    <2> QED BY <2>4, <2>5
<1>7. ASSUME NEW i \in 1 .. n - 1
      PROVE  place[i] + Len(pattern[i]) <= place[i + 1]
    <2>1. i \in 1 .. n /\ i + 1 \in 1 .. n
        OBVIOUS
    <2>2. /\ place[i] = IF i < k THEN 0 ELSE IF i = k THEN r ELSE total
          /\ place[i + 1] = IF i + 1 < k THEN 0 ELSE IF i + 1 = k THEN r ELSE total
          /\ Len(pattern[i]) = IF i = k THEN l ELSE 0
        BY <1>1, <1>4, <2>1
    <2>3. PICK a \in Nat, b \in Nat, m \in Nat :
             a = place[i] /\ b = place[i + 1] /\ m = Len(pattern[i])
        <3>1. place[i] \in Nat /\ place[i + 1] \in Nat
            <4>1. place[i] \in 0 .. total /\ place[i + 1] \in 0 .. total
                BY <1>2, <2>1, Zenon
            <4> QED BY <4>1
        <3>2. Len(pattern[i]) \in Nat
            BY <1>3, <2>2
        <3> QED BY <3>1, <3>2, Zenon
    <2>4. /\ a = IF i < k THEN 0 ELSE IF i = k THEN r ELSE total
          /\ b = IF i + 1 < k THEN 0 ELSE IF i + 1 = k THEN r ELSE total
          /\ m = IF i = k THEN l ELSE 0
        BY <2>2, <2>3, Zenon
    <2>5. a + m <= b
        <3>1. r \in Nat /\ r + l <= total /\ i \in Nat /\ k \in Nat
            BY <1>3
        <3>2. i < k => a = 0 /\ m = 0
            BY <2>4, <3>1
        <3>3. i = k => a = r /\ m = l /\ b = total
            BY <2>4, <3>1
        <3>4. i > k => m = 0 /\ a = total /\ b = total
            BY <2>4, <3>1
        <3> QED BY <3>1, <3>2, <3>3, <3>4, PlacesInOrder
    <2> QED BY <2>3, <2>5
<1>8. ASSUME NEW i \in 1 .. n
      PROVE  place[i] \in Nat /\ FoundAt(first, second, pattern[i], ignoreCase, place[i])
    <2>1. PICK p \in 0 .. total : p = place[i]
        BY <1>2
    <2>2. CASE i = k
        <3>1. place[i] = r
            BY <1>1, <2>2
        <3> QED BY <2>2, <3>1
    <2>3. CASE i # k
        <3>1. pattern[i] = <<>> /\ Len(pattern[i]) = 0
            BY <2>3
        <3>2. FoundAt(first, second, pattern[i], ignoreCase, p)
            BY <3>1 DEF FoundAt
        <3> QED BY <2>1, <3>2
    <2> QED BY <2>2, <2>3
<1>9. Places(pattern, first, second, ignoreCase, place)
    BY <1>5, <1>6, <1>7, <1>8 DEF Places
<1> QED BY <1>2, <1>9, PlacesDescribe

LEMMA Difference ==
    ASSUME NEW a \in Nat, NEW b \in Nat
    PROVE  a - b \in Int
OBVIOUS

LEMMA EndsThere ==
    ASSUME NEW r \in Nat, NEW length \in Nat, NEW total \in Nat, NEW start,
           start = total - length, start <= r, r + length <= total
    PROVE  r + length = total
OBVIOUS

(* What a search finds is there. *)
IsThere(m, first, second, ignoreCase, length, r) ==
    /\ r \in 0 .. Len(first) + Len(second)
    /\ FoundAt(first, second, m.matcher, ignoreCase, r)
    /\ ~m.atBeginning => r = 0
    /\ ~m.atEnd => r + length = Len(first) + Len(second)

LEMMA LiteralIsThere ==
    ASSUME NEW m, NEW first, NEW second, NEW ignoreCase,
           NEW total \in Nat, total = Len(first) + Len(second),
           NEW length \in Nat, length = Len(m.matcher), length # 0, m.matcher # <<>>,
           NEW from \in Int, m.atBeginning \/ m.atEnd,
           NEW r, r = IndexOf(m, first, second, ignoreCase, from), r # -1
    PROVE  IsThere(m, first, second, ignoreCase, length, r)
<1> SUFFICES /\ r \in 0 .. total /\ FoundAt(first, second, m.matcher, ignoreCase, r)
             /\ ~m.atBeginning => r = 0
             /\ ~m.atEnd => r + length = total
    BY DEF IsThere
<1>1. ASSUME NEW start \in Int, NEW end \in Int,
             r = IndexOfIgnoreCase(first, second, m.matcher, ignoreCase, start, end)
      PROVE  /\ r \in 0 .. total /\ FoundAt(first, second, m.matcher, ignoreCase, r)
             /\ start <= r /\ r < end
    <2>1. start >= 0
        BY <1>1, SearchCases
    <2>2. HitsOf(first, second, m.matcher, ignoreCase, start, end) # {}
        BY <1>1, <2>1, SearchCases
    <2>3. start \in Nat
        BY <2>1
    <2>4. r \in HitsOf(first, second, m.matcher, ignoreCase, start, end)
        BY <1>1, <2>2, <2>3, SearchFindsFirst
    <2>5. r \in start .. end - 1 /\ FoundAt(first, second, m.matcher, ignoreCase, r)
        BY <2>4 DEF HitsOf
    <2>6. r + length <= total
        BY <2>5 DEF FoundAt
    <2> QED BY <2>3, <2>5, <2>6
<1>2. CASE m.atBeginning /\ m.atEnd
    <2>1. r = IndexOfIgnoreCase(first, second, m.matcher, ignoreCase, from, total) /\ total \in Int
        BY <1>2, LiteralCases
    <2> QED BY <1>1, <1>2, <2>1
<1>3. CASE ~m.atBeginning
    <2>1. m.atEnd
        BY <1>3
    <2>2. r = IndexOfIgnoreCase(first, second, m.matcher, ignoreCase, 0, 1) /\ 0 \in Int /\ 1 \in Int
        BY <1>3, <2>1, LiteralCases
    <2>3. /\ r \in 0 .. total /\ FoundAt(first, second, m.matcher, ignoreCase, r)
          /\ 0 <= r /\ r < 1
        BY <1>1, <2>2
    <2> QED BY <2>1, <2>3
<1>4. CASE m.atBeginning /\ ~m.atEnd
    <2>1. PICK start \in Int : start = total - length
        BY Difference, Zenon
    <2>2. r = IndexOfIgnoreCase(first, second, m.matcher, ignoreCase, total - Len(m.matcher), total)
        BY <1>4, LiteralCases
    <2>3. r = IndexOfIgnoreCase(first, second, m.matcher, ignoreCase, start, total) /\ total \in Int
        BY <2>1, <2>2
    <2>4. /\ r \in 0 .. total /\ FoundAt(first, second, m.matcher, ignoreCase, r)
          /\ start <= r /\ r < total
        BY <1>1, <2>3
    <2>5. r + length <= total
        BY <2>4 DEF FoundAt
    <2>6. r + length = total
        <3>1. r \in Nat
            BY <2>4
        <3> QED BY <2>1, <2>4, <2>5, <3>1, EndsThere, Zenon
    <2> QED BY <1>4, <2>4, <2>6
<1> QED BY <1>2, <1>3, <1>4

(* Offsets that end at a number were numbers all along.                    *)
LEMMA OffsetsFound ==
    ASSUME NEW offset, NEW matchers, NEW n \in Nat, NEW first, NEW second, NEW ignoreCase,
           IsOffset(offset, matchers, n, first, second, ignoreCase),
           offset[n] # -1, NEW k \in 0 .. n
    PROVE  offset[k] # -1
<1> SUFFICES ASSUME offset[k] = -1 PROVE FALSE
    OBVIOUS
<1> DEFINE Later == {j \in k .. n : offset[j] # -1}
<1>1. Later # {}
    <2>1. n \in k .. n
        OBVIOUS
    <2> QED BY <2>1
<1>2. PICK j \in Later : \A i \in Later : j <= i
    <2>1. Later \in SUBSET Nat
        OBVIOUS
    <2> QED BY <1>1, <2>1, LeastNumber
<1>3. j # k /\ j \in k .. n /\ offset[j] # -1
    OBVIOUS
<1>4. j \in 1 .. n /\ j - 1 \in k .. n /\ ~(j <= j - 1)
    BY <1>3
<1>5. offset[j - 1] = -1
    BY <1>2, <1>4
<1>6. offset[j] = Continue(matchers[j], first, second, ignoreCase, offset[j - 1])
    BY <1>4 DEF IsOffset
<1> QED BY <1>3, <1>5, <1>6 DEF Continue

LEMMA VerbatimDescribes ==
    ASSUME NEW Char, NEW pattern \in Seq(Seq(Char)), NEW first \in Seq(Char), NEW second \in Seq(Char),
           NEW ignoreCase, NEW n \in Nat, n = Len(pattern), n = 1,
           VerbatimMatches(pattern[1], first, second, ignoreCase)
    PROVE  Describes(pattern, first \o second, ignoreCase)
<1>1. PICK total \in Nat : total = Len(first) + Len(second)
    OBVIOUS
<1>2. 1 \in 1 .. n /\ pattern[1] \in Seq(Char)
    <2>1. 1 \in 1 .. 1 /\ Len(pattern) = 1
        OBVIOUS
    <2>2. 1 \in 1 .. Len(pattern) /\ 1 \in 1 .. n
        BY <2>1, Zenon
    <2> QED BY <2>2, ElementOfSeq
<1>3. Len(pattern[1]) = total
    BY <1>1 DEF VerbatimMatches
<1>4. ASSUME NEW j \in 0 .. total - 1
      PROVE  SameChar(CharAt(0 + j, first, second), pattern[1][j + 1], ignoreCase)
    <2>1. PICK i \in DOMAIN pattern[1] : i = j + 1 /\ i - 1 = j /\ 0 + j = j
        BY <1>2, <1>3
    <2>2. SameChar(pattern[1][i], CharAt(i - 1, first, second), ignoreCase)
        BY DEF VerbatimMatches
    <2> QED BY <2>1, <2>2 DEF SameChar
<1>5. FoundAt(first, second, pattern[1], ignoreCase, 0)
    BY <1>1, <1>3, <1>4 DEF FoundAt
<1>6. /\ 0 \in 0 .. total /\ 0 + Len(pattern[1]) = total
      /\ \A i \in 1 .. n : i # 1 => pattern[i] = <<>>
    BY <1>1, <1>3
<1> QED BY <1>1, <1>2, <1>5, <1>6, OnePlace

(* The literal of a pattern that has one and a wildcard. *)
LEMMA CompoundDescribes ==
    ASSUME NEW Char, NEW pattern \in Seq(Seq(Char)), NEW first \in Seq(Char), NEW second \in Seq(Char),
           NEW ignoreCase, NEW n \in Nat, n = Len(pattern), n > 1, NEW k \in 1 .. n,
           \A i \in 1 .. n : i # k => pattern[i] = <<>>,
           CompoundMatches(ValueOf(pattern), first, second, ignoreCase)
    PROVE  Describes(pattern, first \o second, ignoreCase)
<1>1. PICK total \in Nat : total = Len(first) + Len(second)
    OBVIOUS
<1>2. PICK length \in Nat : length = Len(pattern[k]) /\ (length = 0 <=> pattern[k] = <<>>)
    OBVIOUS
<1>3. CASE length = 0
    <2>1. PICK r \in 0 .. total : r = IF k = n THEN total ELSE 0
        OBVIOUS
    <2>2. FoundAt(first, second, pattern[k], ignoreCase, r)
        BY <1>1, <1>2, <1>3 DEF FoundAt
    <2>3. (k = 1 => r = 0) /\ (k = n => r + Len(pattern[k]) = total)
        <3>1. k = 1 => k # n
            OBVIOUS
        <3>2. k = n => r = total
            BY <2>1
        <3>3. k # n => r = 0
            BY <2>1
        <3>4. total + Len(pattern[k]) = total
            BY <1>2, <1>3
        <3> QED BY <3>1, <3>2, <3>3, <3>4, Zenon
    <2> QED BY <1>1, <2>2, <2>3, OnePlace
<1>4. CASE length # 0
    <2>1. PICK matchers : matchers = ValueOf(pattern)
        OBVIOUS
    <2>2. PICK m : m = matchers[k]
        OBVIOUS
    <2>3. /\ m.matcher = pattern[k]
          /\ m.atBeginning <=> k # 1 \/ pattern[1] = <<>>
          /\ m.atEnd <=> k # n \/ pattern[n] = <<>>
        BY <2>1, <2>2, ValueOfParts
    <2>4. /\ Len(matchers) = n
          /\ \A i \in 1 .. n : matchers[i].matcher = pattern[i]
        BY <2>1, ValueOfParts
    <2>5. PICK offset : IsOffset(offset, matchers, n, first, second, ignoreCase)
        <3>1. Len(first) + Len(second) \in Nat
            OBVIOUS
        <3>2. \A i \in 1 .. n : Len(matchers[i].matcher) \in Nat
            BY <2>4
        <3> QED BY <2>4, <3>1, <3>2, CompoundOffsets, Zenon
    <2>6. offset[n] # -1
        BY <2>1, <2>5 DEF IsOffset
    <2>7. PICK from \in Int : from = offset[k - 1]
        <3>1. k - 1 \in 0 .. n
            OBVIOUS
        <3> QED BY <2>5, <3>1 DEF IsOffset
    <2>8. offset[k] # -1
        <3>1. k \in 0 .. n
            OBVIOUS
        <3> QED BY <2>5, <2>6, <3>1, OffsetsFound
    <2>9. offset[k] = Continue(m, first, second, ignoreCase, from)
        BY <2>2, <2>5, <2>7 DEF IsOffset
    <2>10. PICK r : r = IndexOf(m, first, second, ignoreCase, from) /\ r # -1
        BY <2>8, <2>9, Zenon DEF Continue
    <2>11. m.matcher # <<>> /\ length = Len(m.matcher)
        BY <1>2, <1>4, <2>3
    <2>12. k = 1 => ~m.atBeginning
        BY <1>2, <1>4, <2>3, Zenon
    <2>13. k = n => ~m.atEnd
        BY <1>2, <1>4, <2>3, Zenon
    <2>14. m.atBeginning \/ m.atEnd
        <3>1. k # 1 \/ k # n
            OBVIOUS
        <3> QED BY <2>3, <3>1, Zenon
    <2>15. /\ r \in 0 .. total /\ FoundAt(first, second, m.matcher, ignoreCase, r)
           /\ ~m.atBeginning => r = 0
           /\ ~m.atEnd => r + length = total
        <3>1. IsThere(m, first, second, ignoreCase, length, r)
            BY <1>1, <1>4, <2>10, <2>11, <2>14, LiteralIsThere
        <3> QED BY <1>1, <3>1 DEF IsThere
    <2>16. FoundAt(first, second, pattern[k], ignoreCase, r)
        BY <2>3, <2>15
    <2>17. (k = 1 => r = 0) /\ (k = n => r + Len(pattern[k]) = total)
        BY <1>2, <2>12, <2>13, <2>15, Zenon
    <2> QED BY <1>1, <2>15, <2>16, <2>17, OnePlace
<1> QED BY <1>3, <1>4

(* A pattern of one literal at most, whatever its characters and wildcards *)
(* are, matches only what it describes: x, *x, x* and *x* mean themselves. *)
THEOREM MatchedIsDescribed ==
    ASSUME NEW Char, NEW pattern \in Seq(Seq(Char)), pattern # <<>>,
           NEW first \in Seq(Char), NEW second \in Seq(Char), NEW ignoreCase,
           Cardinality({i \in DOMAIN pattern : pattern[i] # <<>>}) <= 1,
           Matches(pattern, first, second, ignoreCase)
    PROVE  Describes(pattern, first \o second, ignoreCase)
<1>1. PICK n \in Nat : n = Len(pattern) /\ n # 0 /\ DOMAIN pattern = 1 .. n
    OBVIOUS
<1>2. PICK Literals : Literals = {i \in 1 .. n : pattern[i] # <<>>}
    OBVIOUS
<1>3. IsFiniteSet(Literals) /\ Cardinality(Literals) \in Nat /\ Cardinality(Literals) <= 1
    <2>1. IsFiniteSet(1 .. n)
        BY FS_Interval
    <2>2. Literals \in SUBSET (1 .. n)
        BY <1>2
    <2>3. IsFiniteSet(Literals)
        BY <2>1, <2>2, FS_Subset
    <2>4. Cardinality(Literals) <= 1
        BY <1>1, <1>2
    <2> QED BY <2>3, <2>4, FS_CardinalityType
<1>4. PICK k \in 1 .. n : Literals \subseteq {k}
    <2>1. Cardinality(Literals) = 0 \/ Cardinality(Literals) = 1
        BY <1>3
    <2>2. CASE Cardinality(Literals) = 0
        <3>1. Literals = {}
            BY <1>3, <2>2, FS_EmptySet
        <3>2. 1 \in 1 .. n
            BY <1>1
        <3> QED BY <3>1, <3>2
    <2>3. CASE Cardinality(Literals) = 1
        <3>1. PICK k : Literals = {k}
            BY <1>3, <2>3, FS_Singleton
        <3>2. k \in 1 .. n
            BY <1>2, <3>1
        <3> QED BY <3>1, <3>2
    <2> QED BY <2>1, <2>2, <2>3
<1>5. \A i \in 1 .. n : i # k => pattern[i] = <<>>
    BY <1>2, <1>4
<1>6. CASE n = 1
    <2>1. VerbatimMatches(pattern[1], first, second, ignoreCase)
        BY <1>1, <1>6, Zenon DEF Matches
    <2> QED BY <1>1, <1>6, <2>1, VerbatimDescribes
<1>7. CASE n # 1
    <2>1. n > 1
        BY <1>1, <1>7
    <2>2. CompoundMatches(ValueOf(pattern), first, second, ignoreCase)
        BY <1>1, <1>7, Zenon DEF Matches
    <2> QED BY <1>1, <1>5, <2>1, <2>2, CompoundDescribes
<1> QED BY <1>6, <1>7

(* Of every pattern that is asked about. *)
THEOREM OneLiteralMeansItself == AlgorithmsSpec => []OneLiteralExact
<1>1. QuestionInv => OneLiteralExact
    <2> SUFFICES ASSUME QuestionInv, Asked("wildcard"),
                        Cardinality({i \in DOMAIN question.pattern : question.pattern[i] # <<>>}) <= 1,
                        Matches(question.pattern, question.first, question.second, question.ignoreCase)
                 PROVE  Describes(question.pattern, Text, question.ignoreCase)
        BY DEF OneLiteralExact
    <2>1. question \in WildcardQuestions
        BY DEF QuestionInv, Asked, Questions, SamplerQuestions, VersionQuestions,
               TraceparentQuestions, TracestateQuestions
    <2> QED BY <2>1, AskedPatterns, MatchedIsDescribed DEF Text
<1> QED BY <1>1, QuestionStays, PTL


-----------------------------------------------------------------------------
(* TraceContext: the tracestate that is sent on.                           *)

PairsUpTo(members, i) == {j \in 1 .. i : IsPair(members[j])}

(* What has been kept of the first i members: their pairs, each at the     *)
(* place that its number among the pairs says, and nothing else.           *)
IsKept(kept, members, i) ==
    /\ Len(kept) = Cardinality(PairsUpTo(members, i))
    /\ \A j \in PairsUpTo(members, i) :
          /\ Cardinality(PairsUpTo(members, j)) \in 1 .. Len(kept)
          /\ kept[Cardinality(PairsUpTo(members, j))] = members[j]
    /\ \A place \in 1 .. Len(kept) :
          \E j \in PairsUpTo(members, i) : Cardinality(PairsUpTo(members, j)) = place

LEMMA PairsAreFinite ==
    ASSUME NEW members, NEW i \in Nat
    PROVE  /\ IsFiniteSet(PairsUpTo(members, i)) /\ Cardinality(PairsUpTo(members, i)) \in Nat
           /\ Cardinality(PairsUpTo(members, i)) <= i
<1>1. IsFiniteSet(1 .. i) /\ Cardinality(1 .. i) = i
    BY FS_Interval
<1>2. PairsUpTo(members, i) \subseteq 1 .. i
    BY DEF PairsUpTo
<1>3. IsFiniteSet(PairsUpTo(members, i)) /\ Cardinality(PairsUpTo(members, i)) <= i
    BY <1>1, <1>2, FS_Subset
<1> QED BY <1>3, FS_CardinalityType

LEMMA PairsOfOneMore ==
    ASSUME NEW members, NEW i \in Nat \ {0}
    PROVE  IF IsPair(members[i])
           THEN /\ i \in PairsUpTo(members, i)
                /\ PairsUpTo(members, i) = PairsUpTo(members, i - 1) \cup {i}
                /\ Cardinality(PairsUpTo(members, i)) = Cardinality(PairsUpTo(members, i - 1)) + 1
           ELSE PairsUpTo(members, i) = PairsUpTo(members, i - 1)
<1>1. CASE IsPair(members[i])
    <2>1. i \in PairsUpTo(members, i) /\ i \notin PairsUpTo(members, i - 1)
          /\ PairsUpTo(members, i) = PairsUpTo(members, i - 1) \cup {i}
        BY <1>1 DEF PairsUpTo
    <2>2. IsFiniteSet(PairsUpTo(members, i - 1))
        BY PairsAreFinite
    <2>3. Cardinality(PairsUpTo(members, i - 1) \cup {i}) = Cardinality(PairsUpTo(members, i - 1)) + 1
        BY <2>1, <2>2, FS_AddElement
    <2> QED BY <1>1, <2>1, <2>3
<1>2. CASE ~IsPair(members[i])
    <2>1. PairsUpTo(members, i) = PairsUpTo(members, i - 1)
        BY <1>2 DEF PairsUpTo
    <2> QED BY <1>2, <2>1
<1> QED BY <1>1, <1>2

LEMMA OneMoreKept ==
    ASSUME NEW M, NEW members, NEW i \in Nat \ {0}, members[i] \in M,
           NEW before \in Seq(M), IsKept(before, members, i - 1)
    PROVE  LET kept == IF IsPair(members[i]) THEN Append(before, members[i]) ELSE before
           IN  kept \in Seq(M) /\ IsKept(kept, members, i)
<1> DEFINE Number(j) == Cardinality(PairsUpTo(members, j))
<1>1. CASE IsPair(members[i])
    <2>1. PICK kept : kept = Append(before, members[i])
        OBVIOUS
    <2>2. /\ kept \in Seq(M) /\ Len(kept) = Len(before) + 1 /\ kept[Len(before) + 1] = members[i]
          /\ \A j \in 1 .. Len(before) : kept[j] = before[j]
        BY <2>1, AppendProperties
    <2>3. /\ i \in PairsUpTo(members, i)
          /\ PairsUpTo(members, i) = PairsUpTo(members, i - 1) \cup {i}
          /\ Number(i) = Number(i - 1) + 1
        BY <1>1, PairsOfOneMore
    <2>4. Len(before) \in Nat /\ Number(i - 1) = Len(before)
        BY DEF IsKept
    <2>5. Number(i) = Len(kept)
        BY <2>2, <2>3, <2>4
    <2>6. ASSUME NEW j \in PairsUpTo(members, i)
          PROVE  Number(j) \in 1 .. Len(kept) /\ kept[Number(j)] = members[j]
        <3>1. CASE j = i
            <4>1. Number(j) = Len(before) + 1
                BY <2>3, <2>4, <3>1
            <4> HIDE DEF Number
            <4> QED BY <2>2, <2>4, <3>1, <4>1
        <3>2. CASE j \in PairsUpTo(members, i - 1)
            <4>1. Number(j) \in 1 .. Len(before) /\ before[Number(j)] = members[j]
                BY <3>2 DEF IsKept
            <4> HIDE DEF Number
            <4> QED BY <2>2, <2>4, <4>1
        <3> QED BY <2>3, <3>1, <3>2
    <2>7. ASSUME NEW place \in 1 .. Len(kept)
          PROVE  \E j \in PairsUpTo(members, i) : Number(j) = place
        <3>1. CASE place = Len(kept)
            BY <2>3, <2>5, <3>1
        <3>2. CASE place # Len(kept)
            <4>1. place \in 1 .. Len(before)
                BY <2>2, <2>4, <3>2
            <4> QED BY <2>3, <4>1 DEF IsKept
        <3> QED BY <3>1, <3>2
    <2> QED BY <1>1, <2>1, <2>2, <2>5, <2>6, <2>7 DEF IsKept
<1>2. CASE ~IsPair(members[i])
    <2>1. PairsUpTo(members, i) = PairsUpTo(members, i - 1)
        BY <1>2, PairsOfOneMore
    <2> QED BY <1>2, <2>1 DEF IsKept
<1> QED BY <1>1, <1>2

(* KeptMembers ends with what is kept of all members. *)
LEMMA KeptOfAll ==
    ASSUME NEW M, NEW members \in Seq(M)
    PROVE  KeptMembers(members) \in Seq(M) /\ IsKept(KeptMembers(members), members, Len(members))
<1> DEFINE n == Len(members)
           Body(f, i) == IF i = 0 THEN <<>>
                         ELSE IF IsPair(members[i]) THEN Append(f[i - 1], members[i]) ELSE f[i - 1]
           Loop(f) == f = [i \in 0 .. Len(members) |-> Body(f, i)]
           F == [p \in Seq(M) \X (1 .. n) |->
                   IF IsPair(members[p[2]]) THEN Append(p[1], members[p[2]]) ELSE p[1]]
<1>1. n \in Nat
    OBVIOUS
<1>2. ASSUME NEW i \in 1 .. n PROVE members[i] \in M
    BY ElementOfSeq
<1>3. F \in [Seq(M) \X (1 .. n) -> Seq(M)]
    <2> SUFFICES ASSUME NEW s \in Seq(M), NEW i \in 1 .. n
                 PROVE  (IF IsPair(members[i]) THEN Append(s, members[i]) ELSE s) \in Seq(M)
        OBVIOUS
    <2> QED BY <1>2, AppendProperties
<1>4. PICK g \in [0 .. n -> Seq(M)] : g[0] = <<>> /\ \A i \in 1 .. n : g[i] = F[<<g[i - 1], i>>]
    <2> HIDE DEF F, n
    <2>1. <<>> \in Seq(M)
        BY EmptySeq
    <2>2. \E g : StepByStep(g, n, Seq(M), <<>>, F)
        BY <1>1, <1>3, <2>1, DefinedStepByStep, Zenon
    <2> QED BY <2>2 DEF StepByStep
<1>5. Loop(g)
    <2>1. \A i \in 0 .. n : g[i] = Body(g, i)
        <3> TAKE i \in 0 .. n
        <3>1. CASE i = 0
            BY <1>4, <3>1
        <3>2. CASE i # 0
            <4>1. i \in 1 .. n /\ i - 1 \in 0 .. n
                BY <3>2
            <4>2. g[i - 1] \in Seq(M)
                BY <1>4, <4>1
            <4>3. <<g[i - 1], i>> \in Seq(M) \X (1 .. n)
                BY <4>1, <4>2
            <4>4. F[<<g[i - 1], i>>] = IF IsPair(members[i]) THEN Append(g[i - 1], members[i])
                                       ELSE g[i - 1]
                BY <4>3
            <4> QED BY <1>4, <3>2, <4>1, <4>4
        <3> QED BY <3>1, <3>2
    <2> HIDE DEF Body
    <2> QED BY <1>4, <2>1
<1>6. PICK kept : kept = (CHOOSE f : Loop(f)) /\ KeptMembers(members) = kept[Len(members)]
    BY Zenon DEF KeptMembers
<1>7. Loop(kept)
    <2> HIDE DEF Loop
    <2> QED BY <1>5, <1>6
<1>8. \A i \in 0 .. n : kept[i] = Body(kept, i)
    <2> HIDE DEF Body
    <2> QED BY <1>7
<1> DEFINE Good(i) == kept[i] \in Seq(M) /\ IsKept(kept[i], members, i)
<1>9. Good(0)
    <2>1. kept[0] = <<>>
        BY <1>8
    <2>2. PairsUpTo(members, 0) = {}
        BY DEF PairsUpTo
    <2>3. Cardinality(PairsUpTo(members, 0)) = 0
        BY <2>2, FS_EmptySet
    <2> QED BY <2>1, <2>2, <2>3, EmptySeq DEF IsKept
<1>10. ASSUME NEW i \in 1 .. n, Good(i - 1) PROVE Good(i)
    <2>1. kept[i] = IF IsPair(members[i]) THEN Append(kept[i - 1], members[i]) ELSE kept[i - 1]
        BY <1>8
    <2>2. i \in Nat \ {0}
        OBVIOUS
    <2> HIDE DEF n
    <2> QED BY <1>2, <1>10, <2>1, <2>2, OneMoreKept
<1>11. SUFFICES ASSUME {i \in 0 .. n : ~Good(i)} # {} PROVE FALSE
    <2>1. n \in 0 .. n
        OBVIOUS
    <2>2. Good(n)
        BY <1>11, <2>1
    <2> QED BY <1>6, <2>2
<1>12. PICK k \in {i \in 0 .. n : ~Good(i)} : \A j \in {i \in 0 .. n : ~Good(i)} : k <= j
    <2>1. {i \in 0 .. n : ~Good(i)} \in SUBSET Nat
        OBVIOUS
    <2> QED BY <1>11, <2>1, LeastNumber
<1> HIDE DEF Good
<1>13. k # 0 /\ k \in 1 .. n /\ k - 1 \in 0 .. n /\ ~(k <= k - 1)
    BY <1>9, <1>12
<1>14. Good(k - 1)
    BY <1>12, <1>13
<1> QED BY <1>10, <1>12, <1>13, <1>14

(* Of nothing but pairs all is kept. *)
LEMMA AllPairsAreKept ==
    ASSUME NEW M, NEW members \in Seq(M), \A i \in 1 .. Len(members) : IsPair(members[i])
    PROVE  KeptMembers(members) = members
<1> PICK kept : kept = KeptMembers(members)
    OBVIOUS
<1>1. kept \in Seq(M) /\ IsKept(kept, members, Len(members))
    BY KeptOfAll
<1>2. ASSUME NEW i \in 0 .. Len(members)
      PROVE  PairsUpTo(members, i) = 1 .. i /\ Cardinality(PairsUpTo(members, i)) = i
    <2>1. PairsUpTo(members, i) = 1 .. i
        BY DEF PairsUpTo
    <2>2. Cardinality(1 .. i) = i
        BY FS_Interval
    <2> QED BY <2>1, <2>2
<1>3. Len(members) \in 0 .. Len(members)
    OBVIOUS
<1>4. Len(kept) = Len(members)
    BY <1>1, <1>2, <1>3 DEF IsKept
<1>5. ASSUME NEW i \in 1 .. Len(kept) PROVE kept[i] = members[i]
    <2>1. i \in PairsUpTo(members, Len(members)) /\ Cardinality(PairsUpTo(members, i)) = i
        BY <1>2, <1>3, <1>4
    <2> QED BY <1>1, <2>1 DEF IsKept
<1> QED BY <1>1, <1>4, <1>5, SeqEqual

(* A tracestate that is sent on is accepted by the next agent. *)
LEMMA SentIsAccepted ==
    ASSUME NEW M, NEW members \in Seq(M), Accepts(members),
           NEW sent \in Seq(M), IsKept(sent, members, Len(members))
    PROVE  /\ \A i, j \in 1 .. Len(sent) : sent[i].key = sent[j].key => i = j
           /\ \A i \in 1 .. Len(sent) : IsPair(sent[i])
           /\ Accepts(sent)
<1>1. ASSUME NEW place \in 1 .. Len(sent)
      PROVE  \E i \in 1 .. Len(members) :
                /\ IsPair(members[i]) /\ sent[place] = members[i]
                /\ Cardinality(PairsUpTo(members, i)) = place
    <2>1. PICK i \in PairsUpTo(members, Len(members)) : Cardinality(PairsUpTo(members, i)) = place
        BY DEF IsKept
    <2>2. i \in 1 .. Len(members) /\ IsPair(members[i])
        BY DEF PairsUpTo
    <2>3. sent[Cardinality(PairsUpTo(members, i))] = members[i]
        BY DEF IsKept
    <2> QED BY <2>1, <2>2, <2>3
<1>2. \A i \in 1 .. Len(members) : IsPair(members[i]) =>
         /\ members[i].keyOk /\ members[i].valueOk
         /\ \A j \in 1 .. i - 1 : IsPair(members[j]) => members[j].key # members[i].key
    BY DEF Accepts
<1>3. ASSUME NEW a \in 1 .. Len(sent), NEW b \in 1 .. Len(sent), sent[a].key = sent[b].key
      PROVE  a = b
    <2>1. PICK i \in 1 .. Len(members) :
             /\ IsPair(members[i]) /\ sent[a] = members[i]
             /\ Cardinality(PairsUpTo(members, i)) = a
        BY <1>1
    <2>2. PICK j \in 1 .. Len(members) :
             /\ IsPair(members[j]) /\ sent[b] = members[j]
             /\ Cardinality(PairsUpTo(members, j)) = b
        BY <1>1
    <2>3. members[i].key = members[j].key
        BY <1>3, <2>1, <2>2
    <2>4. ~(i < j)
        <3> SUFFICES ASSUME i < j PROVE FALSE
            OBVIOUS
        <3>1. i \in 1 .. j - 1
            OBVIOUS
        <3> QED BY <1>2, <2>1, <2>2, <2>3, <3>1
    <2>5. ~(j < i)
        <3> SUFFICES ASSUME j < i PROVE FALSE
            OBVIOUS
        <3>1. j \in 1 .. i - 1
            OBVIOUS
        <3> QED BY <1>2, <2>1, <2>2, <2>3, <3>1
    <2>6. i = j
        BY <2>4, <2>5
    <2> QED BY <2>1, <2>2, <2>6
<1>4. ASSUME NEW place \in 1 .. Len(sent)
      PROVE  IsPair(sent[place]) /\ sent[place].keyOk /\ sent[place].valueOk
    <2>1. PICK i \in 1 .. Len(members) : IsPair(members[i]) /\ sent[place] = members[i]
        BY <1>1
    <2> QED BY <1>2, <2>1
<1>5. Len(sent) <= MaxListMembers
    <2>1. Len(sent) = Cardinality(PairsUpTo(members, Len(members)))
        BY DEF IsKept
    <2>2. Len(sent) \in Nat /\ Len(members) \in Nat /\ Len(sent) <= Len(members)
        BY <2>1, PairsAreFinite
    <2>3. Len(members) <= MaxListMembers
        BY DEF Accepts
    <2> QED BY <2>2, <2>3, LengthConstants
<1>6. Accepts(sent)
    <2>1. ASSUME NEW i \in 1 .. Len(sent), NEW j \in 1 .. i - 1 PROVE sent[j].key # sent[i].key
        <3>1. j \in 1 .. Len(sent) /\ i # j
            OBVIOUS
        <3> QED BY <1>3, <3>1
    <2> QED BY <1>4, <1>5, <2>1 DEF Accepts
<1> QED BY <1>3, <1>4, <1>6

(* Whatever the members are: a tracestate that is sent on has no key       *)
(* twice, all its pairs in their order, and the next agent sends it on as  *)
(* it is.                                                                  *)
THEOREM TracestateOfAnyMembers ==
    ASSUME NEW M, NEW members \in Seq(M), ValidateTracestate(members) # NoData
    PROVE  LET sent == ValidateTracestate(members)
               pairs == {i \in DOMAIN members : IsPair(members[i])}
           IN  /\ \A i, j \in DOMAIN sent : sent[i].key = sent[j].key => i = j
               /\ Len(sent) = Cardinality(pairs)
               /\ \A i \in pairs : sent[Cardinality({j \in pairs : j <= i})] = members[i]
               /\ ValidateTracestate(sent) = IF sent = <<>> THEN NoData ELSE sent
<1> DEFINE pairs == {i \in DOMAIN members : IsPair(members[i])}
<1>1. members # <<>> /\ Accepts(members) /\ ValidateTracestate(members) = KeptMembers(members)
    BY DEF ValidateTracestate
<1>2. PICK sent \in Seq(M) : sent = KeptMembers(members) /\ IsKept(sent, members, Len(members))
    BY KeptOfAll
<1>3. /\ \A i, j \in 1 .. Len(sent) : sent[i].key = sent[j].key => i = j
      /\ \A i \in 1 .. Len(sent) : IsPair(sent[i])
      /\ Accepts(sent)
    BY <1>1, <1>2, SentIsAccepted
<1>4. KeptMembers(sent) = sent
    BY <1>3, AllPairsAreKept
<1>5. ValidateTracestate(sent) = IF sent = <<>> THEN NoData ELSE sent
    BY <1>3, <1>4 DEF ValidateTracestate
<1>6. pairs = PairsUpTo(members, Len(members))
    BY DEF PairsUpTo
<1>7. \A i \in pairs : {j \in pairs : j <= i} = PairsUpTo(members, i)
    BY DEF PairsUpTo
<1>8. Len(sent) = Cardinality(pairs)
    BY <1>2, <1>6 DEF IsKept
<1>9. \A i \in pairs : sent[Cardinality({j \in pairs : j <= i})] = members[i]
    <2> TAKE i \in pairs
    <2>1. i \in PairsUpTo(members, Len(members)) /\ {j \in pairs : j <= i} = PairsUpTo(members, i)
        BY <1>6, <1>7
    <2> HIDE DEF pairs
    <2> QED BY <1>2, <2>1 DEF IsKept
<1>10. DOMAIN sent = 1 .. Len(sent)
    OBVIOUS
<1>11. ValidateTracestate(members) = sent
    BY <1>1, <1>2
<1> HIDE DEF pairs
<1>12. \A i, j \in DOMAIN sent : sent[i].key = sent[j].key => i = j
    BY <1>3, <1>10
<1> QED BY <1>5, <1>8, <1>9, <1>11, <1>12 DEF pairs

(* Of every list that is asked about. *)
THEOREM TracestatesAreForwarded == AlgorithmsSpec => []TracestateForwarded
<1>1. QuestionInv => TracestateForwarded
    <2> SUFFICES ASSUME QuestionInv, Asked("tracestate"),
                        ValidateTracestate(question.members) # NoData
                 PROVE  TracestateForwarded
        BY DEF TracestateForwarded
    <2>1. question \in TracestateQuestions
        BY DEF QuestionInv, Asked, Questions, SamplerQuestions, VersionQuestions,
               TraceparentQuestions, WildcardQuestions
    <2>2. question.members \in Seq(ListMembers)
        <3>1. PICK k \in 0 .. MaxListMembers + 1 : question.members \in [1 .. k -> ListMembers]
            BY <2>1 DEF TracestateQuestions
        <3> QED BY <3>1, LengthConstants
    <2> QED BY <2>2, TracestateOfAnyMembers DEF TracestateForwarded, IsPair
<1> QED BY <1>1, QuestionStays, PTL

-----------------------------------------------------------------------------
(* TraceContext: traceparent, read by position.                            *)

(* A header that consists of the first n fields, with a dash between each  *)
(* two: end[k] is where field k ends.                                      *)
FieldsAt(header, fields, n, end) ==
    /\ end[0] = -1 /\ end[n] = Len(header)
    /\ \A k \in 0 .. n : end[k] \in Int /\ -1 <= end[k] /\ end[k] <= Len(header)
    /\ \A k \in 1 .. n :
          /\ end[k] = end[k - 1] + 1 + Len(fields[k])
          /\ \A i \in 1 .. Len(fields[k]) : header[end[k - 1] + 1 + i] = fields[k][i]
    /\ \A k \in 1 .. n - 1 : end[k] < Len(header) /\ header[end[k] + 1] = "-"

Lengths(fields, n) == \A k \in 1 .. n : Len(fields[k]) \in Nat
IsNext(field, fields, n) == field = fields[n + 1]
HasFields(header, fields, n) == \E end : FieldsAt(header, fields, n, end)

LEMMA FirstField ==
    ASSUME NEW C, NEW fields, fields[1] \in Seq(C)
    PROVE  HasFields(fields[1], fields, 1)
<1>1. PICK end : end = [k \in 0 .. 1 |-> IF k = 0 THEN -1 ELSE Len(fields[1])]
    OBVIOUS
<1>2. PICK l \in Nat : l = Len(fields[1])
    OBVIOUS
<1>3. end[0] = -1 /\ end[1] = l
    BY <1>1, <1>2
<1>4. \A k \in 0 .. 1 : end[k] \in Int /\ -1 <= end[k] /\ end[k] <= l
    BY <1>1, <1>2
<1>5. \A k \in 1 .. 1 :
         /\ end[k] = end[k - 1] + 1 + Len(fields[k])
         /\ \A i \in 1 .. Len(fields[k]) : fields[1][end[k - 1] + 1 + i] = fields[k][i]
    BY <1>2, <1>3
<1> QED BY <1>2, <1>3, <1>4, <1>5 DEF HasFields, FieldsAt

(* A dash and another field after a header. *)
IsLonger(longer, header, field) ==
    /\ Len(longer) = Len(header) + 1 + Len(field)
    /\ \A p \in 1 .. Len(header) : longer[p] = header[p]
    /\ longer[Len(header) + 1] = "-"
    /\ \A i \in 1 .. Len(field) : longer[Len(header) + 1 + i] = field[i]

LEMMA LongerHeader ==
    ASSUME NEW C, NEW header \in Seq(C), NEW field \in Seq(C), "-" \in C,
           NEW longer, longer = header \o <<"-">> \o field
    PROVE  longer \in Seq(C) /\ IsLonger(longer, header, field)
<1>1. PICK dash \in Seq(C) : dash = <<"-">> /\ Len(dash) = 1 /\ dash[1] = "-"
    <2>1. <<"-">> \in Seq(C) /\ Len(<<"-">>) = 1 /\ <<"-">>[1] = "-"
        OBVIOUS
    <2> QED BY <2>1
<1>2. PICK first \in Seq(C) : first = header \o dash
    BY <1>1, ConcatProperties
<1>3. /\ Len(first) = Len(header) + 1
      /\ \A p \in 1 .. Len(header) + 1 : first[p] = IF p <= Len(header) THEN header[p] ELSE dash[p - Len(header)]
    BY <1>1, <1>2, ConcatProperties
<1>4. longer = first \o field
    BY <1>1, <1>2
<1>5. /\ longer \in Seq(C) /\ Len(longer) = Len(first) + Len(field)
      /\ \A p \in 1 .. Len(first) + Len(field) :
            longer[p] = IF p <= Len(first) THEN first[p] ELSE field[p - Len(first)]
    BY <1>4, ConcatProperties
<1>6. PICK h \in Nat, l \in Nat : h = Len(header) /\ l = Len(field)
    OBVIOUS
<1>7. \A p \in 1 .. h : longer[p] = header[p]
    BY <1>3, <1>5, <1>6
<1>8. longer[h + 1] = "-"
    BY <1>1, <1>3, <1>5, <1>6
<1>9. \A i \in 1 .. l : longer[h + 1 + i] = field[i]
    BY <1>3, <1>5, <1>6
<1> QED BY <1>3, <1>5, <1>6, <1>7, <1>8, <1>9 DEF IsLonger

LEMMA NextEnd ==
    ASSUME NEW header, NEW fields, NEW n \in Nat \ {0}, NEW old, FieldsAt(header, fields, n, old),
           NEW field, IsNext(field, fields, n), NEW longer, IsLonger(longer, header, field),
           NEW h \in Nat, h = Len(header), NEW l \in Nat, l = Len(field),
           Lengths(fields, n)
    PROVE  HasFields(longer, fields, n + 1)
<1> PICK w \in Nat : w = h + 1 + l
    OBVIOUS
<1>0. h < w
    OBVIOUS
<1>1. w = Len(longer)
    BY DEF IsLonger
<1>2. PICK end : end = [k \in 0 .. n + 1 |-> IF k = n + 1 THEN w ELSE old[k]]
    OBVIOUS
<1>3. \A k \in 0 .. n : old[k] \in Int /\ -1 <= old[k] /\ old[k] <= h
    BY DEF FieldsAt
<1>4. end[n + 1] = w /\ \A k \in 0 .. n : end[k] = old[k]
    BY <1>2
<1>5. end[n] = h /\ end[0] = -1
    BY <1>4 DEF FieldsAt
<1>6. ASSUME NEW k \in 0 .. n + 1 PROVE end[k] \in Int /\ -1 <= end[k] /\ end[k] <= w
    <2>1. CASE k = n + 1
        <3>1. end[k] = w
            BY <1>4, <2>1
        <3> QED BY <3>1
    <2>2. CASE k \in 0 .. n
        <3>1. end[k] = old[k] /\ old[k] \in Int /\ -1 <= old[k] /\ old[k] <= h
            BY <1>3, <1>4, <2>2
        <3> QED BY <1>0, <3>1
    <2> QED BY <2>1, <2>2
<1>7. ASSUME NEW k \in 1 .. n + 1
      PROVE  /\ end[k] = end[k - 1] + 1 + Len(fields[k])
             /\ \A i \in 1 .. Len(fields[k]) : longer[end[k - 1] + 1 + i] = fields[k][i]
    <2>1. CASE k = n + 1
        <3>1. end[k] = end[k - 1] + 1 + Len(fields[k])
            <4>1. Len(fields[k]) = l
                BY <2>1 DEF IsNext
            <4>2. end[k] = w
                BY <1>4, <2>1
            <4>3. end[k - 1] = h
                BY <1>5, <2>1
            <4> QED BY <4>1, <4>2, <4>3
        <3>2. \A i \in 1 .. l : longer[h + 1 + i] = field[i]
            BY DEF IsLonger
        <3>4. fields[k] = field
            BY <2>1 DEF IsNext
        <3>3. end[k - 1] = h
            BY <1>5, <2>1
        <3> QED BY <3>1, <3>2, <3>3, <3>4
    <2>2. CASE k \in 1 .. n
        <3>1. k - 1 \in 0 .. n /\ k \in 0 .. n
            BY <2>2
        <3>2. PICK m \in Nat, e \in Int : m = Len(fields[k]) /\ e = end[k - 1] /\ e = old[k - 1]
            BY <1>3, <1>4, <2>2, <3>1 DEF Lengths
        <3>3. old[k] = e + 1 + m /\ \A i \in 1 .. m : header[e + 1 + i] = fields[k][i]
            BY <2>2, <3>2 DEF FieldsAt
        <3>4. e + 1 + m <= h /\ -1 <= e
            BY <1>3, <3>1, <3>2, <3>3
        <3>5. ASSUME NEW i \in 1 .. m PROVE longer[e + 1 + i] = fields[k][i]
            <4>1. e + 1 + i \in 1 .. h
                BY <3>4
            <4>2. longer[e + 1 + i] = header[e + 1 + i]
                BY <4>1 DEF IsLonger
            <4> QED BY <3>3, <4>2
        <3>6. end[k] = e + 1 + m
            BY <1>4, <3>1, <3>3
        <3> QED BY <3>2, <3>5, <3>6
    <2> QED BY <2>1, <2>2
<1>8. ASSUME NEW k \in 1 .. (n + 1) - 1 PROVE end[k] < w /\ longer[end[k] + 1] = "-"
    <2>1. CASE k = n
        <3>1. end[k] = h
            BY <1>5, <2>1
        <3>2. longer[h + 1] = "-"
            BY DEF IsLonger
        <3> QED BY <1>0, <3>1, <3>2
    <2>2. CASE k \in 1 .. n - 1
        <3>1. k \in 0 .. n /\ k - 1 \in 0 .. n /\ k \in 1 .. n
            BY <2>2
        <3>2. old[k] < h /\ header[old[k] + 1] = "-"
            BY <2>2 DEF FieldsAt
        <3>3. PICK m \in Nat, e \in Int, d \in Int :
                 m = Len(fields[k]) /\ e = old[k] /\ d = old[k - 1] /\ -1 <= d
            BY <1>3, <3>1 DEF Lengths
        <3>4. e = d + 1 + m
            BY <3>1, <3>3 DEF FieldsAt
        <3>5. e < h
            BY <3>2, <3>3
        <3>6. e + 1 \in 1 .. h
            <4>1. -1 <= d /\ e = d + 1 + m
                BY <3>3, <3>4
            <4> QED BY <3>5, <4>1
        <3>7. longer[e + 1] = header[e + 1]
            BY <3>6 DEF IsLonger
        <3>8. end[k] = e
            BY <1>4, <3>1, <3>3
        <3>9. longer[e + 1] = "-"
            BY <3>2, <3>3, <3>7
        <3> QED BY <1>0, <3>5, <3>8, <3>9
    <2> QED BY <2>1, <2>2
<1>9. FieldsAt(longer, fields, n + 1, end)
    BY <1>1, <1>4, <1>5, <1>6, <1>7, <1>8, Zenon DEF FieldsAt
<1> QED BY <1>9 DEF HasFields

LEMMA NextField ==
    ASSUME NEW C, NEW header \in Seq(C), NEW fields, NEW n \in Nat \ {0}, HasFields(header, fields, n),
           "-" \in C, fields[n + 1] \in Seq(C), Lengths(fields, n)
    PROVE  /\ header \o <<"-">> \o fields[n + 1] \in Seq(C)
           /\ HasFields(header \o <<"-">> \o fields[n + 1], fields, n + 1)
<1>1. PICK field \in Seq(C) : field = fields[n + 1]
    OBVIOUS
<1>2. PICK longer : longer = header \o <<"-">> \o field
    OBVIOUS
<1>3. longer \in Seq(C) /\ IsLonger(longer, header, field)
    BY <1>2, LongerHeader, Zenon
<1>4. PICK old : FieldsAt(header, fields, n, old)
    BY DEF HasFields
<1>5. PICK h \in Nat, l \in Nat : h = Len(header) /\ l = Len(field)
    OBVIOUS
<1>6. HasFields(longer, fields, n + 1)
    <2>1. IsNext(field, fields, n)
        BY <1>1 DEF IsNext
    <2> QED BY <1>3, <1>4, <1>5, <2>1, NextEnd
<1> QED BY <1>1, <1>2, <1>3, <1>6

(* Traceparent makes such a header. *)
LEMMA HeaderOfFields ==
    ASSUME NEW C, "-" \in C, NEW fields \in Seq(Seq(C)), NEW n \in Nat \ {0}, n = Len(fields)
    PROVE  Traceparent(fields) \in Seq(C) /\ HasFields(Traceparent(fields), fields, n)
<1> DEFINE Body(f, i) == IF i = 1 THEN fields[1] ELSE f[i - 1] \o <<"-">> \o fields[i]
           Join(f) == f = [i \in DOMAIN fields |-> Body(f, i)]
           F == [p \in Seq(C) \X (1 .. n - 1) |-> p[1] \o <<"-">> \o fields[p[2] + 1]]
<1>1. DOMAIN fields = 1 .. n /\ \A i \in 1 .. n : fields[i] \in Seq(C)
    BY ElementOfSeq
<1>2. F \in [Seq(C) \X (1 .. n - 1) -> Seq(C)]
    <2> SUFFICES ASSUME NEW s \in Seq(C), NEW i \in 1 .. n - 1
                 PROVE  s \o <<"-">> \o fields[i + 1] \in Seq(C)
        OBVIOUS
    <2>1. i + 1 \in 1 .. n
        OBVIOUS
    <2>2. PICK field \in Seq(C) : field = fields[i + 1]
        BY <1>1, <2>1
    <2>3. s \o <<"-">> \o field \in Seq(C)
        BY LongerHeader, Zenon
    <2> QED BY <2>2, <2>3
<1>3. PICK g \in [0 .. n - 1 -> Seq(C)] :
         g[0] = fields[1] /\ \A i \in 1 .. n - 1 : g[i] = F[<<g[i - 1], i>>]
    <2> HIDE DEF F
    <2>1. fields[1] \in Seq(C) /\ n - 1 \in Nat
        BY <1>1
    <2>2. \E g : StepByStep(g, n - 1, Seq(C), fields[1], F)
        BY <1>2, <2>1, DefinedStepByStep, Zenon
    <2> QED BY <2>2 DEF StepByStep
<1>4. PICK f : f = [i \in 1 .. n |-> g[i - 1]]
    OBVIOUS
<1>5. Join(f)
    <2>1. \A i \in 1 .. n : f[i] = Body(f, i)
        <3> TAKE i \in 1 .. n
        <3>1. CASE i = 1
            BY <1>3, <1>4, <3>1
        <3>2. CASE i # 1
            <4>1. i - 1 \in 1 .. n - 1 /\ i - 1 \in 1 .. n /\ (i - 1) - 1 \in 0 .. n - 1 /\ (i - 1) + 1 = i
                BY <3>2
            <4>2. g[(i - 1) - 1] \in Seq(C)
                BY <1>3, <4>1
            <4>3. F[<<g[(i - 1) - 1], i - 1>>] = g[(i - 1) - 1] \o <<"-">> \o fields[(i - 1) + 1]
                BY <4>1, <4>2
            <4>4. f[i] = g[i - 1] /\ f[i - 1] = g[(i - 1) - 1]
                BY <1>4, <4>1
            <4>5. g[i - 1] = F[<<g[(i - 1) - 1], i - 1>>]
                <5> HIDE DEF F
                <5> QED BY <1>3, <4>1
            <4>6. f[i] = f[i - 1] \o <<"-">> \o fields[i]
                <5> HIDE DEF F
                <5> QED BY <4>1, <4>3, <4>4, <4>5
            <4> QED BY <3>2, <4>6
        <3> QED BY <3>1, <3>2
    <2> HIDE DEF Body
    <2> QED BY <1>1, <1>4, <2>1
<1>6. PICK joined : joined = (CHOOSE h : Join(h)) /\ Traceparent(fields) = joined[Len(fields)]
    BY Zenon DEF Traceparent
<1>7. Join(joined)
    <2> HIDE DEF Join
    <2> QED BY <1>5, <1>6
<1>8. \A i \in 1 .. n : joined[i] = Body(joined, i)
    <2> HIDE DEF Body
    <2> QED BY <1>1, <1>7
<1> DEFINE Good(i) == joined[i] \in Seq(C) /\ HasFields(joined[i], fields, i)
<1>9. Good(1)
    <2>1. joined[1] = fields[1] /\ fields[1] \in Seq(C)
        BY <1>1, <1>8
    <2>2. HasFields(fields[1], fields, 1)
        BY <2>1, FirstField
    <2> QED BY <2>1, <2>2
<1>10. ASSUME NEW i \in 1 .. n, i # n, Good(i) PROVE Good(i + 1)
    <2>1. i + 1 \in 1 .. n /\ i + 1 # 1 /\ (i + 1) - 1 = i /\ i \in Nat \ {0}
        BY <1>10
    <2>2. joined[i + 1] = joined[i] \o <<"-">> \o fields[i + 1]
        BY <1>8, <2>1
    <2>3. Lengths(fields, i)
        BY <1>1, <2>1 DEF Lengths
    <2>4. fields[i + 1] \in Seq(C)
        BY <1>1, <2>1
    <2>5. /\ joined[i] \o <<"-">> \o fields[i + 1] \in Seq(C)
          /\ HasFields(joined[i] \o <<"-">> \o fields[i + 1], fields, i + 1)
        BY <1>10, <2>1, <2>3, <2>4, NextField, Zenon
    <2> QED BY <2>2, <2>5
<1>11. SUFFICES ASSUME {i \in 1 .. n : ~Good(i)} # {} PROVE FALSE
    <2>1. n \in 1 .. n
        OBVIOUS
    <2>2. Good(n)
        BY <1>11, <2>1
    <2> QED BY <1>6, <2>2
<1>12. PICK k \in {i \in 1 .. n : ~Good(i)} : \A j \in {i \in 1 .. n : ~Good(i)} : k <= j
    <2>1. {i \in 1 .. n : ~Good(i)} \in SUBSET Nat
        OBVIOUS
    <2> QED BY <1>11, <2>1, LeastNumber
<1> HIDE DEF Good
<1>13. k # 1 /\ k - 1 \in 1 .. n /\ k - 1 # n /\ ~(k <= k - 1) /\ (k - 1) + 1 = k
    BY <1>9, <1>12
<1>14. Good(k - 1)
    BY <1>12, <1>13
<1>15. Good((k - 1) + 1)
    BY <1>10, <1>13, <1>14
<1> QED BY <1>12, <1>13, <1>15

(* Where field k begins. *)
Begins(start, end, k) == start = end[k - 1] + 1

Dashless(field) == \A i \in 1 .. Len(field) : field[i] # "-"
DashlessPart(header, start, length) == \A i \in 1 .. length : header[start + i] # "-"

(* The header or one of its fields ends there. *)
EndsAt(header, place) == Len(header) = place \/ header[place + 1] = "-"

(* The characters of a part of a header. *)
IsPart(part, header, start, length) ==
    Len(part) = length /\ \A i \in 1 .. length : part[i] = header[start + i]

LEMMA SubstringChars ==
    ASSUME NEW C, NEW header \in Seq(C), NEW start \in Nat, NEW length \in Nat,
           start + length <= Len(header)
    PROVE  \E part \in Seq(C) : part = Substring(header, start, length) /\ IsPart(part, header, start, length)
<1>1. \A i \in 1 .. Len(header) : header[i] \in C
    BY ElementOfSeq
<1>2. PICK part : part = SubSeq(header, start + 1, start + length)
    OBVIOUS
<1>3. /\ part \in Seq(C)
      /\ Len(part) = IF start + 1 <= start + length THEN (start + length) - (start + 1) + 1 ELSE 0
      /\ \A i \in 1 .. (start + length) - (start + 1) + 1 : part[i] = header[(start + 1) + i - 1]
    <2>1. \A i \in start + 1 .. start + length : header[i] \in C
        BY <1>1
    <2>2. start + 1 \in Int /\ start + length \in Int
        OBVIOUS
    <2> QED BY <1>2, <2>1, <2>2, SubSeqProperties
<1>4. Len(part) = length /\ \A i \in 1 .. length : part[i] = header[start + i]
    BY <1>3
<1> QED BY <1>2, <1>3, <1>4 DEF Substring, IsPart

(* A part of a header without a dash, up to a dash or the end of the       *)
(* header, is a whole field.                                               *)
LEMMA WholeField ==
    ASSUME NEW header, NEW fields, NEW n \in Nat \ {0}, NEW end, FieldsAt(header, fields, n, end),
           NEW k \in 1 .. n, NEW h \in Nat, h = Len(header), NEW field, field = fields[k],
           NEW l \in Nat, l = Len(field), Dashless(field),
           NEW start \in Nat, Begins(start, end, k), NEW length \in Nat, start + length <= h,
           DashlessPart(header, start, length), EndsAt(header, start + length)
    PROVE  l = length
<1>1. end[k] = start + l /\ \A i \in 1 .. l : header[start + i] = field[i]
    BY DEF FieldsAt, Begins
<1>2. start + l <= h
    <2>1. end[k] <= h
        BY DEF FieldsAt
    <2> QED BY <1>1, <2>1
<1>3. ~(l < length)
    <2> SUFFICES ASSUME l < length PROVE FALSE
        OBVIOUS
    <2>1. start + l < h
        OBVIOUS
    <2>2. k # n
        BY <1>1, <2>1 DEF FieldsAt
    <2>3. header[end[k] + 1] = "-"
        <3>1. k \in 1 .. n - 1
            BY <2>2
        <3> QED BY <3>1 DEF FieldsAt
    <2>4. l + 1 \in 1 .. length /\ start + l + 1 = start + (l + 1)
        OBVIOUS
    <2> QED BY <1>1, <2>3, <2>4 DEF DashlessPart
<1>4. ~(length < l)
    <2> SUFFICES ASSUME length < l PROVE FALSE
        OBVIOUS
    <2>1. h # start + length
        BY <1>2
    <2>2. length + 1 \in 1 .. l /\ start + length + 1 = start + (length + 1)
        OBVIOUS
    <2>3. header[start + (length + 1)] = field[length + 1]
        BY <1>1, <2>2
    <2> QED BY <2>1, <2>2, <2>3 DEF EndsAt, Dashless
<1> QED BY <1>3, <1>4

(* A field as a part of the header. *)
IsFieldPart(header, n, end, k, field, start, length) ==
    /\ Substring(header, start, length) = field
    /\ end[k] = start + length /\ start + length <= Len(header)
    /\ k = n => Len(header) = start + length
    /\ k # n => Len(header) > start + length /\ header[start + length + 1] = "-"

LEMMA SubstringIs ==
    ASSUME NEW C, NEW header \in Seq(C), NEW field \in Seq(C), NEW start \in Nat, NEW length \in Nat,
           start + length <= Len(header), IsPart(field, header, start, length)
    PROVE  Substring(header, start, length) = field
<1>1. PICK part \in Seq(C) : part = Substring(header, start, length) /\ IsPart(part, header, start, length)
    BY SubstringChars
<1>2. /\ Len(part) = length /\ \A i \in 1 .. length : part[i] = header[start + i]
      /\ Len(field) = length /\ \A i \in 1 .. length : field[i] = header[start + i]
    BY <1>1 DEF IsPart
<1>3. part = field
    BY <1>2, SeqEqual
<1> QED BY <1>1, <1>3

LEMMA PartOfField ==
    ASSUME NEW C, NEW header \in Seq(C), NEW fields, NEW n \in Nat \ {0}, NEW end,
           FieldsAt(header, fields, n, end), NEW k \in 1 .. n, NEW field \in Seq(C), field = fields[k],
           NEW start \in Nat, Begins(start, end, k), NEW length \in Nat, length = Len(field)
    PROVE  IsFieldPart(header, n, end, k, field, start, length)
<1>1. end[k] = start + length /\ \A i \in 1 .. length : header[start + i] = field[i]
    BY DEF FieldsAt, Begins
<1>2. PICK h \in Nat : h = Len(header)
    OBVIOUS
<1>3. start + length <= h
    <2>1. end[k] <= h
        BY <1>2 DEF FieldsAt
    <2> QED BY <1>1, <2>1
<1>4. k = n => h = start + length
    BY <1>1, <1>2 DEF FieldsAt
<1>5. k # n => h > start + length /\ header[start + length + 1] = "-"
    <2> SUFFICES ASSUME k # n PROVE h > start + length /\ header[start + length + 1] = "-"
        OBVIOUS
    <2>1. k \in 1 .. n - 1
        OBVIOUS
    <2>2. end[k] < h /\ header[end[k] + 1] = "-"
        BY <1>2, <2>1 DEF FieldsAt
    <2> QED BY <1>1, <2>2
<1>6. Substring(header, start, length) = field
    <2>1. start + length <= Len(header)
        BY <1>2, <1>3, Zenon
    <2>2. IsPart(field, header, start, length)
        BY <1>1 DEF IsPart
    <2> QED BY <2>1, <2>2, SubstringIs
<1> QED BY <1>1, <1>2, <1>3, <1>4, <1>5, <1>6 DEF IsFieldPart

(* What it means that a part of a header is hexadecimal. *)
LEMMA HexPart ==
    ASSUME NEW C, NEW header \in Seq(C), NEW start \in Nat, NEW length \in Nat,
           start + length <= Len(header), IsHex(Substring(header, start, length))
    PROVE  DashlessPart(header, start, length)
<1>1. PICK part \in Seq(C) : part = Substring(header, start, length) /\ IsPart(part, header, start, length)
    BY SubstringChars
<1>2. Len(part) = length /\ \A i \in 1 .. length : part[i] = header[start + i]
    BY <1>1 DEF IsPart
<1>3. \A i \in 1 .. length : part[i] \in DOMAIN HexValue
    BY <1>1, <1>2 DEF IsHex
<1>4. "-" \notin DOMAIN HexValue
    BY HexConstants
<1> QED BY <1>2, <1>3, <1>4 DEF DashlessPart

(* A hexadecimal part of a header where a field begins, with a dash or     *)
(* nothing after it, is that field.                                        *)
IsHexPart(header, start, length) ==
    /\ start + length <= Len(header) /\ IsHex(Substring(header, start, length))
    /\ EndsAt(header, start + length)

LEMMA PartIsField ==
    ASSUME NEW C, NEW header \in Seq(C), NEW fields, NEW n \in Nat \ {0}, NEW end,
           FieldsAt(header, fields, n, end), NEW k \in 1 .. n, NEW field \in Seq(C), field = fields[k],
           Dashless(field), NEW start \in Nat, Begins(start, end, k), NEW length \in Nat,
           IsHexPart(header, start, length)
    PROVE  Len(field) = length /\ IsFieldPart(header, n, end, k, field, start, length)
<1>0. /\ start + length <= Len(header) /\ IsHex(Substring(header, start, length))
      /\ EndsAt(header, start + length)
    BY DEF IsHexPart
<1>1. PICK h \in Nat, l \in Nat : h = Len(header) /\ l = Len(field)
    OBVIOUS
<1>2. DashlessPart(header, start, length)
    BY <1>0, HexPart
<1>3. l = length
    <2>1. start + length <= h
        BY <1>0, <1>1
    <2> QED BY <1>0, <1>1, <1>2, <2>1, WholeField
<1>4. IsFieldPart(header, n, end, k, field, start, length)
    BY <1>1, <1>3, PartOfField
<1> QED BY <1>1, <1>3, <1>4

(* The first four fields are where TryExtractTracingData reads them. *)
Layout(header, fields, n, end) ==
    LET a == VersionAndTraceIdLength
        b == VersionAndTraceIdAndSpanIdLength
    IN  /\ n >= 4
        /\ Begins(0, end, 1) /\ IsFieldPart(header, n, end, 1, fields[1], 0, 2)
        /\ Begins(3, end, 2) /\ IsFieldPart(header, n, end, 2, fields[2], 3, TraceIdLength)
        /\ Begins(a, end, 3) /\ IsFieldPart(header, n, end, 3, fields[3], a, SpanIdLength)
        /\ Begins(b, end, 4) /\ IsFieldPart(header, n, end, 4, fields[4], b, 2)
        /\ Len(fields[1]) = 2 /\ Len(fields[2]) = TraceIdLength
        /\ Len(fields[3]) = SpanIdLength /\ Len(fields[4]) = 2

LEMMA PositionsAreNumbers ==
    /\ VersionAndTraceIdLength \in Nat /\ VersionAndTraceIdLength = 3 + TraceIdLength + 1
    /\ VersionAndTraceIdAndSpanIdLength \in Nat
    /\ VersionAndTraceIdAndSpanIdLength = VersionAndTraceIdLength + SpanIdLength + 1
BY LengthConstants DEF VersionAndTraceIdLength, VersionAndTraceIdAndSpanIdLength, VersionPrefixIdLength

(* After a field that ends at a dash another one begins. *)
LEMMA FieldBegins ==
    ASSUME NEW header, NEW n \in Nat \ {0}, NEW end, NEW k \in 1 .. n, NEW field,
           NEW start \in Nat, NEW length \in Nat, IsFieldPart(header, n, end, k, field, start, length),
           NEW h \in Nat, h = Len(header), h > start + length, NEW next, next = start + length + 1
    PROVE  k < n /\ Begins(next, end, k + 1)
<1>1. k # n
    BY DEF IsFieldPart
<1>2. end[k] = start + length
    BY DEF IsFieldPart
<1> QED BY <1>1, <1>2 DEF Begins

LEMMA LayoutOfExtractable ==
    ASSUME NEW C, NEW header \in Seq(C), NEW fields, NEW n \in Nat \ {0}, NEW end,
           FieldsAt(header, fields, n, end),
           \A k \in 1 .. n : fields[k] \in Seq(C) /\ Dashless(fields[k]),
           IsExtractable(header)
    PROVE  Layout(header, fields, n, end)
<1>1. PICK a \in Nat, b \in Nat, h \in Nat :
         a = VersionAndTraceIdLength /\ b = VersionAndTraceIdAndSpanIdLength /\ h = Len(header)
    BY PositionsAreNumbers
<1>2. a = 3 + TraceIdLength + 1 /\ b = a + SpanIdLength + 1 /\ TraceIdLength \in Nat /\ SpanIdLength \in Nat
    BY <1>1, PositionsAreNumbers, LengthConstants
<1>3. /\ h > 2 /\ EndsAt(header, 2) /\ IsHex(Substring(header, 0, 2))
      /\ h > a - 1 /\ EndsAt(header, a - 1) /\ IsHex(Substring(header, 3, TraceIdLength))
      /\ h > b - 1 /\ EndsAt(header, b - 1) /\ IsHex(Substring(header, a, SpanIdLength))
      /\ h >= b + 2 /\ EndsAt(header, b + 2) /\ IsHex(Substring(header, b, 2))
    BY <1>1 DEF IsExtractable, DashAt, EndsAt, IsIdValid, VersionPrefixIdLength, OptionsLength
<1>4. a - 1 = 3 + TraceIdLength /\ b - 1 = a + SpanIdLength
    BY <1>2
<1>5. Begins(0, end, 1)
    BY DEF FieldsAt, Begins
<1>6. Len(fields[1]) = 2 /\ IsFieldPart(header, n, end, 1, fields[1], 0, 2)
    <2>1. PICK field \in Seq(C) : field = fields[1] /\ Dashless(field)
        OBVIOUS
    <2>2. PICK k \in 1 .. n, start \in Nat, length \in Nat : k = 1 /\ start = 0 /\ length = 2
        OBVIOUS
    <2>3. field = fields[k] /\ Begins(start, end, k) /\ IsHexPart(header, start, length)
        BY <1>1, <1>3, <1>5, <2>1, <2>2 DEF IsHexPart
    <2>4. Len(field) = length /\ IsFieldPart(header, n, end, k, field, start, length)
        BY <2>1, <2>3, PartIsField
    <2> QED BY <2>1, <2>2, <2>4
<1>7. 1 < n /\ Begins(3, end, 2)
    <2>1. 1 \in 1 .. n /\ 0 \in Nat /\ 2 \in Nat /\ h > 0 + 2 /\ 3 = 0 + 2 + 1 /\ 1 + 1 = 2
        BY <1>3
    <2> QED BY <1>1, <1>6, <2>1, FieldBegins
<1>8. Len(fields[2]) = TraceIdLength /\ IsFieldPart(header, n, end, 2, fields[2], 3, TraceIdLength)
    <2>1. 2 \in 1 .. n
        BY <1>7
    <2>2. PICK field \in Seq(C) : field = fields[2] /\ Dashless(field)
        BY <2>1
    <2>3. IsHexPart(header, 3, TraceIdLength) /\ 3 \in Nat
        BY <1>1, <1>2, <1>3, <1>4 DEF IsHexPart
    <2>4. Len(field) = TraceIdLength /\ IsFieldPart(header, n, end, 2, field, 3, TraceIdLength)
        BY <1>2, <1>7, <2>1, <2>2, <2>3, PartIsField
    <2> QED BY <2>2, <2>4
<1>9. 2 < n /\ Begins(a, end, 3)
    <2>1. 2 \in 1 .. n /\ 3 \in Nat /\ h > 3 + TraceIdLength /\ 2 + 1 = 3
        BY <1>2, <1>3, <1>7
    <2> QED BY <1>1, <1>2, <1>8, <2>1, FieldBegins
<1>10. Len(fields[3]) = SpanIdLength /\ IsFieldPart(header, n, end, 3, fields[3], a, SpanIdLength)
    <2>1. 3 \in 1 .. n
        BY <1>9
    <2>2. PICK field \in Seq(C) : field = fields[3] /\ Dashless(field)
        BY <2>1
    <2>3. IsHexPart(header, a, SpanIdLength)
        BY <1>1, <1>2, <1>3, <1>4 DEF IsHexPart
    <2>4. Len(field) = SpanIdLength /\ IsFieldPart(header, n, end, 3, field, a, SpanIdLength)
        BY <1>2, <1>9, <2>1, <2>2, <2>3, PartIsField
    <2> QED BY <2>2, <2>4
<1>11. 3 < n /\ Begins(b, end, 4)
    <2>1. 3 \in 1 .. n /\ h > a + SpanIdLength /\ 3 + 1 = 4
        BY <1>2, <1>3, <1>9
    <2> QED BY <1>1, <1>2, <1>10, <2>1, FieldBegins
<1>12. Len(fields[4]) = 2 /\ IsFieldPart(header, n, end, 4, fields[4], b, 2)
    <2>1. 4 \in 1 .. n
        BY <1>11
    <2>2. PICK field \in Seq(C) : field = fields[4] /\ Dashless(field)
        BY <2>1
    <2>3. PICK k \in 1 .. n, length \in Nat : k = 4 /\ length = 2
        BY <2>1
    <2>4. field = fields[k] /\ Begins(b, end, k) /\ IsHexPart(header, b, length)
        BY <1>1, <1>3, <1>11, <2>2, <2>3 DEF IsHexPart
    <2>5. Len(field) = length /\ IsFieldPart(header, n, end, k, field, b, length)
        BY <2>2, <2>4, PartIsField
    <2> QED BY <2>2, <2>3, <2>5
<1>13. n >= 4
    BY <1>11
<1> QED BY <1>1, <1>5, <1>6, <1>7, <1>8, <1>9, <1>10, <1>11, <1>12, <1>13 DEF Layout

LEMMA FirstFour ==
    ASSUME NEW n \in Nat, n >= 4
    PROVE  /\ 1 \in 1 .. n /\ 2 \in 1 .. n /\ 3 \in 1 .. n /\ 4 \in 1 .. n
           /\ 1 # n /\ 2 # n /\ 3 # n
OBVIOUS

LEMMA LayoutOfTraceparent ==
    ASSUME NEW C, NEW header \in Seq(C), NEW fields, NEW n \in Nat \ {0}, n = Len(fields), NEW end,
           FieldsAt(header, fields, n, end), \A k \in 1 .. n : fields[k] \in Seq(C),
           IsTraceparent(fields)
    PROVE  Layout(header, fields, n, end)
<1>1. PICK a \in Nat, b \in Nat, h \in Nat :
         a = VersionAndTraceIdLength /\ b = VersionAndTraceIdAndSpanIdLength /\ h = Len(header)
    BY PositionsAreNumbers
<1>2. a = 3 + TraceIdLength + 1 /\ b = a + SpanIdLength + 1 /\ TraceIdLength \in Nat /\ SpanIdLength \in Nat
    BY <1>1, PositionsAreNumbers, LengthConstants
<1>3. /\ n >= 4 /\ Len(fields[1]) = 2 /\ Len(fields[2]) = TraceIdLength
      /\ Len(fields[3]) = SpanIdLength /\ Len(fields[4]) = 2
    BY DEF IsTraceparent, HexField
<1>4. /\ 1 \in 1 .. n /\ 2 \in 1 .. n /\ 3 \in 1 .. n /\ 4 \in 1 .. n
      /\ 1 # n /\ 2 # n /\ 3 # n
    <2>1. PICK l \in Nat : l = Len(fields) /\ l >= 4
        BY DEF IsTraceparent
    <2>2. n = l
        BY <2>1, Zenon
    <2> QED BY <2>1, <2>2, FirstFour, Zenon
<1>5. ASSUME NEW k \in 1 .. n, NEW start \in Nat, Begins(start, end, k),
             NEW length \in Nat, length = Len(fields[k])
      PROVE  /\ IsFieldPart(header, n, end, k, fields[k], start, length)
             /\ k # n => h > start + length
    <2>1. PICK field \in Seq(C) : field = fields[k]
        OBVIOUS
    <2>2. length = Len(field)
        BY <1>5, <2>1
    <2>3. IsFieldPart(header, n, end, k, field, start, length)
        BY <1>5, <2>1, <2>2, PartOfField
    <2> QED BY <1>1, <2>1, <2>3 DEF IsFieldPart
<1>6. Begins(0, end, 1)
    BY DEF FieldsAt, Begins
<1>7. IsFieldPart(header, n, end, 1, fields[1], 0, 2) /\ h > 0 + 2
    <2>1. 0 \in Nat /\ 2 \in Nat
        OBVIOUS
    <2> QED BY <1>3, <1>4, <1>5, <1>6, <2>1
<1>8. Begins(3, end, 2)
    <2>1. 0 \in Nat /\ 2 \in Nat /\ 3 = 0 + 2 + 1 /\ 1 + 1 = 2
        OBVIOUS
    <2> QED BY <1>1, <1>4, <1>7, <2>1, FieldBegins
<1>9. IsFieldPart(header, n, end, 2, fields[2], 3, TraceIdLength) /\ h > 3 + TraceIdLength
    <2>1. 3 \in Nat
        OBVIOUS
    <2> QED BY <1>2, <1>3, <1>4, <1>5, <1>8, <2>1
<1>10. Begins(a, end, 3)
    <2>1. 3 \in Nat /\ 2 + 1 = 3
        OBVIOUS
    <2> QED BY <1>1, <1>2, <1>4, <1>9, <2>1, FieldBegins
<1>11. IsFieldPart(header, n, end, 3, fields[3], a, SpanIdLength) /\ h > a + SpanIdLength
    BY <1>2, <1>3, <1>4, <1>5, <1>10
<1>12. Begins(b, end, 4)
    <2>1. 3 + 1 = 4
        OBVIOUS
    <2> QED BY <1>1, <1>2, <1>4, <1>11, <2>1, FieldBegins
<1>13. IsFieldPart(header, n, end, 4, fields[4], b, 2)
    <2>1. 2 \in Nat
        OBVIOUS
    <2> QED BY <1>3, <1>4, <1>5, <1>12, <2>1
<1> QED BY <1>1, <1>3, <1>6, <1>7, <1>8, <1>9, <1>10, <1>11, <1>12, <1>13 DEF Layout

(* The two digits of a version or of flags. *)
TwoDigits(field) == 16 * HexValue[field[1]] + HexValue[field[2]]

LEMMA ByteOfDigits ==
    ASSUME NEW C, NEW field \in Seq(C), Len(field) = 2, IsHex(field)
    PROVE  /\ TwoDigits(field) \in Nat
           /\ TwoDigits(field) # 255 <=> \E i \in 1 .. 2 : HexValue[field[i]] # 15
           /\ TwoDigits(field) > 0 <=> field # <<"0", "0">>
           /\ TwoDigits(field) % 2 = 1 <=> HexValue[field[2]] % 2 = 1
<1>1. field[1] \in DOMAIN HexValue /\ field[2] \in DOMAIN HexValue
    BY DEF IsHex
<1>2. PICK x \in 0 .. 15, y \in 0 .. 15 : x = HexValue[field[1]] /\ y = HexValue[field[2]]
    BY <1>1, HexConstants
<1>3. (x = 0 <=> field[1] = "0") /\ (y = 0 <=> field[2] = "0")
    BY <1>1, <1>2, HexConstants
<1>4. TwoDigits(field) = 16 * x + y
    BY <1>2 DEF TwoDigits
<1>5. 16 * x + y \in Nat /\ (16 * x + y # 255 <=> x # 15 \/ y # 15)
      /\ (16 * x + y > 0 <=> x # 0 \/ y # 0) /\ ((16 * x + y) % 2 = 1 <=> y % 2 = 1)
    OBVIOUS
<1>6. field = <<"0", "0">> <=> field[1] = "0" /\ field[2] = "0"
    OBVIOUS
<1>7. (\E i \in 1 .. 2 : HexValue[field[i]] # 15) <=> x # 15 \/ y # 15
    BY <1>2
<1>8. TwoDigits(field) # 255 <=> \E i \in 1 .. 2 : HexValue[field[i]] # 15
    <2>1. TwoDigits(field) # 255 <=> x # 15 \/ y # 15
        BY <1>4, <1>5
    <2> QED BY <1>7, <2>1, Zenon
<1>9. TwoDigits(field) > 0 <=> field # <<"0", "0">>
    <2>1. TwoDigits(field) > 0 <=> x # 0 \/ y # 0
        BY <1>4, <1>5
    <2> QED BY <1>3, <1>6, <2>1, Zenon
<1>10. TwoDigits(field) \in Nat /\ (TwoDigits(field) % 2 = 1 <=> HexValue[field[2]] % 2 = 1)
    BY <1>2, <1>4, <1>5
<1> QED BY <1>8, <1>9, <1>10

LEMMA HexFieldIsHex ==
    ASSUME NEW C, NEW field \in Seq(C), NEW length \in Nat
    PROVE  /\ HexField(field, length) <=> Len(field) = length /\ IsHex(field)
           /\ IsIdValid(field, length) <=> HexField(field, length) /\ field # Zeros(length)
<1>1. HexField(field, length) <=> Len(field) = length /\ IsHex(field)
    BY DEF HexField, IsHex, Hex
<1>2. ASSUME Len(field) = length
      PROVE  field # Zeros(length) <=> \E i \in DOMAIN field : field[i] # "0"
    <2>1. DOMAIN field = 1 .. length /\ field = [i \in 1 .. length |-> field[i]]
        BY <1>2
    <2> QED BY <2>1 DEF Zeros
<1> QED BY <1>1, <1>2 DEF IsIdValid

LEMMA ByteOfPart ==
    ASSUME NEW C, NEW header \in Seq(C), NEW start \in Nat, start + 2 <= Len(header),
           NEW field, field = Substring(header, start, 2)
    PROVE  HexStringTwoCharToByte(header, start) = TwoDigits(field)
<1>1. \A i \in 1 .. 2 : field[i] = header[start + i]
    <2>1. PICK length \in Nat : length = 2
        OBVIOUS
    <2>2. IsPart(field, header, start, length)
        BY <2>1, SubstringChars
    <2> QED BY <2>1, <2>2, Zenon DEF IsPart
<1>2. field[1] = header[start + 1] /\ field[2] = header[start + 2]
    BY <1>1
<1> QED BY <1>2 DEF HexStringTwoCharToByte, TwoDigits

LEMMA LayoutParts ==
    ASSUME NEW C, NEW header \in Seq(C), NEW fields, NEW n \in Nat \ {0}, NEW end,
           Layout(header, fields, n, end),
           NEW a \in Nat, a = VersionAndTraceIdLength, NEW b \in Nat, b = VersionAndTraceIdAndSpanIdLength
    PROVE  /\ Substring(header, 0, 2) = fields[1] /\ Substring(header, 3, TraceIdLength) = fields[2]
           /\ Substring(header, a, SpanIdLength) = fields[3] /\ Substring(header, b, 2) = fields[4]
           /\ HexStringTwoCharToByte(header, 0) = TwoDigits(fields[1])
           /\ HexStringTwoCharToByte(header, b) = TwoDigits(fields[4])
<1>1. /\ Substring(header, 0, 2) = fields[1] /\ Substring(header, 3, TraceIdLength) = fields[2]
      /\ Substring(header, a, SpanIdLength) = fields[3] /\ Substring(header, b, 2) = fields[4]
      /\ 0 + 2 <= Len(header) /\ b + 2 <= Len(header)
    BY DEF Layout, IsFieldPart
<1>2. HexStringTwoCharToByte(header, 0) = TwoDigits(fields[1])
    <2>1. PICK start \in Nat : start = 0
        OBVIOUS
    <2>2. start + 2 <= Len(header) /\ fields[1] = Substring(header, start, 2)
        BY <1>1, <2>1
    <2>3. HexStringTwoCharToByte(header, start) = TwoDigits(fields[1])
        BY <2>2, ByteOfPart
    <2> QED BY <2>1, <2>3
<1>3. HexStringTwoCharToByte(header, b) = TwoDigits(fields[4])
    <2>1. b + 2 <= Len(header) /\ fields[4] = Substring(header, b, 2)
        BY <1>1
    <2> QED BY <2>1, ByteOfPart
<1> QED BY <1>1, <1>2, <1>3

LEMMA LayoutDashes ==
    ASSUME NEW C, NEW header \in Seq(C), NEW fields, NEW n \in Nat \ {0}, NEW end,
           Layout(header, fields, n, end),
           NEW a \in Nat, a = VersionAndTraceIdLength, NEW b \in Nat, b = VersionAndTraceIdAndSpanIdLength
    PROVE  /\ DashAt(header, 2) /\ DashAt(header, a - 1) /\ DashAt(header, b - 1)
           /\ Len(header) >= b + 2
           /\ IF n = 4 THEN Len(header) = b + 2 ELSE Len(header) # b + 2 /\ DashAt(header, b + 2)
<1>1. a = 3 + TraceIdLength + 1 /\ b = a + SpanIdLength + 1 /\ TraceIdLength \in Nat /\ SpanIdLength \in Nat
    BY PositionsAreNumbers, LengthConstants
<1>2. PICK h \in Nat : h = Len(header)
    OBVIOUS
<1>3. 1 # n /\ 2 # n /\ 3 # n
    <2>1. n >= 4
        BY DEF Layout
    <2> QED BY <2>1
<1>4. DashAt(header, 2)
    <2>1. h > 0 + 2 /\ header[0 + 2 + 1] = "-"
        BY <1>2, <1>3 DEF Layout, IsFieldPart
    <2> QED BY <1>2, <2>1 DEF DashAt
<1>5. DashAt(header, a - 1)
    <2>1. h > 3 + TraceIdLength /\ header[3 + TraceIdLength + 1] = "-"
        BY <1>2, <1>3 DEF Layout, IsFieldPart
    <2>2. a - 1 = 3 + TraceIdLength
        BY <1>1
    <2> QED BY <1>2, <2>1, <2>2 DEF DashAt
<1>6. DashAt(header, b - 1)
    <2>1. h > a + SpanIdLength /\ header[a + SpanIdLength + 1] = "-"
        BY <1>2, <1>3 DEF Layout, IsFieldPart
    <2>2. b - 1 = a + SpanIdLength
        BY <1>1
    <2> QED BY <1>2, <2>1, <2>2 DEF DashAt
<1>7. h >= b + 2
    BY <1>2 DEF Layout, IsFieldPart
<1>8. CASE n = 4
    <2>1. h = b + 2
        BY <1>2, <1>8 DEF Layout, IsFieldPart
    <2> QED BY <1>2, <1>4, <1>5, <1>6, <1>7, <1>8, <2>1
<1>9. CASE n # 4
    <2>1. h > b + 2 /\ header[b + 2 + 1] = "-"
        BY <1>2, <1>9 DEF Layout, IsFieldPart
    <2>2. h # b + 2 /\ DashAt(header, b + 2)
        BY <1>2, <2>1 DEF DashAt
    <2> QED BY <1>2, <1>4, <1>5, <1>6, <1>7, <1>9, <2>2
<1> QED BY <1>8, <1>9

(* Where the fields are in their places the checks of the positions are    *)
(* those of the fields.                                                    *)
LEMMA LayoutDecides ==
    ASSUME NEW C, NEW header \in Seq(C), NEW fields, NEW n \in Nat \ {0}, n = Len(fields), NEW end,
           \A k \in 1 .. n : fields[k] \in Seq(C), Layout(header, fields, n, end)
    PROVE  IsExtractable(header) <=> IsTraceparent(fields)
<1>1. PICK a \in Nat, b \in Nat :
         a = VersionAndTraceIdLength /\ b = VersionAndTraceIdAndSpanIdLength
    BY PositionsAreNumbers
<1>2. /\ n >= 4 /\ Len(fields[1]) = 2 /\ Len(fields[2]) = TraceIdLength
      /\ Len(fields[3]) = SpanIdLength /\ Len(fields[4]) = 2
    BY DEF Layout
<1>3. PICK f \in Seq(C), g \in Seq(C), i \in Seq(C), j \in Seq(C) :
         f = fields[1] /\ g = fields[2] /\ i = fields[3] /\ j = fields[4]
    <2>1. n >= 4
        BY <1>2
    <2>2. 1 \in 1 .. n /\ 2 \in 1 .. n /\ 3 \in 1 .. n /\ 4 \in 1 .. n
        BY <2>1, FirstFour, Zenon
    <2> QED BY <2>2
<1>4. /\ Substring(header, 0, 2) = f /\ Substring(header, 3, TraceIdLength) = g
      /\ Substring(header, a, SpanIdLength) = i /\ Substring(header, b, 2) = j
      /\ HexStringTwoCharToByte(header, 0) = TwoDigits(f)
    BY <1>1, <1>3, LayoutParts
<1>5. /\ DashAt(header, 2) /\ DashAt(header, a - 1) /\ DashAt(header, b - 1)
      /\ Len(header) >= b + 2
      /\ IF n = 4 THEN Len(header) = b + 2 ELSE Len(header) # b + 2 /\ DashAt(header, b + 2)
    BY <1>1, LayoutDashes
<1>6. IsExtractable(header) <=>
         /\ IsHex(f) /\ TwoDigits(f) # 255
         /\ IsIdValid(g, TraceIdLength) /\ IsIdValid(i, SpanIdLength) /\ IsHex(j)
         /\ (n = 4 \/ TwoDigits(f) > 0)
    BY <1>1, <1>4, <1>5 DEF IsExtractable, VersionPrefixIdLength, OptionsLength
<1>7. IsTraceparent(fields) <=>
         /\ HexField(f, 2) /\ (\E k \in 1 .. 2 : HexValue[f[k]] # 15)
         /\ HexField(g, TraceIdLength) /\ g # Zeros(TraceIdLength)
         /\ HexField(i, SpanIdLength) /\ i # Zeros(SpanIdLength)
         /\ HexField(j, 2) /\ (f = <<"0", "0">> => n = 4)
    BY <1>2, <1>3 DEF IsTraceparent
<1>8. /\ HexField(f, 2) <=> IsHex(f)
      /\ HexField(j, 2) <=> IsHex(j)
      /\ IsIdValid(g, TraceIdLength) <=> HexField(g, TraceIdLength) /\ g # Zeros(TraceIdLength)
      /\ IsIdValid(i, SpanIdLength) <=> HexField(i, SpanIdLength) /\ i # Zeros(SpanIdLength)
    <2>1. Len(f) = 2 /\ Len(j) = 2
        BY <1>2, <1>3
    <2>2. 2 \in Nat /\ TraceIdLength \in Nat /\ SpanIdLength \in Nat
        BY LengthConstants
    <2> QED BY <2>1, <2>2, HexFieldIsHex
<1>9. IsHex(f) =>
         /\ TwoDigits(f) # 255 <=> \E k \in 1 .. 2 : HexValue[f[k]] # 15
         /\ TwoDigits(f) > 0 <=> f # <<"0", "0">>
    <2>1. Len(f) = 2
        BY <1>2, <1>3
    <2> QED BY <2>1, ByteOfDigits
<1> QED BY <1>6, <1>7, <1>8, <1>9, Zenon

(* What there is to read in the fields of a traceparent. *)
Read(fields) ==
    [traceId |-> fields[2], parentId |-> fields[3], flagRecorded |-> HexValue[fields[4][2]] % 2 = 1]

LEMMA HeaderRead ==
    ASSUME NEW C, NEW header \in Seq(C), NEW fields, NEW n \in Nat \ {0}, n = Len(fields),
           HasFields(header, fields, n), \A k \in 1 .. n : fields[k] \in Seq(C) /\ Dashless(fields[k])
    PROVE  TryExtractTracingData(header) = IF IsTraceparent(fields) THEN Read(fields) ELSE NoData
<1>1. PICK end : FieldsAt(header, fields, n, end)
    BY DEF HasFields
<1>2. IsExtractable(header) \/ IsTraceparent(fields) => Layout(header, fields, n, end)
    BY <1>1, LayoutOfExtractable, LayoutOfTraceparent
<1>3. IsExtractable(header) <=> IsTraceparent(fields)
    <2>1. \A k \in 1 .. n : fields[k] \in Seq(C)
        OBVIOUS
    <2>2. Layout(header, fields, n, end) => (IsExtractable(header) <=> IsTraceparent(fields))
        BY <2>1, LayoutDecides
    <2> QED BY <1>2, <2>2
<1>4. CASE ~IsTraceparent(fields)
    BY <1>3, <1>4 DEF TryExtractTracingData
<1>5. CASE IsTraceparent(fields)
    <2>1. PICK a \in Nat, b \in Nat :
             a = VersionAndTraceIdLength /\ b = VersionAndTraceIdAndSpanIdLength
        BY PositionsAreNumbers
    <2>2. /\ Substring(header, 3, TraceIdLength) = fields[2]
          /\ Substring(header, a, SpanIdLength) = fields[3]
          /\ HexStringTwoCharToByte(header, b) = TwoDigits(fields[4])
        BY <1>2, <1>5, <2>1, LayoutParts
    <2>3. TwoDigits(fields[4]) % 2 = 1 <=> HexValue[fields[4][2]] % 2 = 1
        <3>1. Len(fields) >= 4
            BY <1>5 DEF IsTraceparent
        <3>2. n >= 4
            BY <3>1, Zenon
        <3>3. 4 \in 1 .. n
            BY <3>2, FirstFour, Zenon
        <3>4. PICK field \in Seq(C) : field = fields[4]
            BY <3>3
        <3>5. Len(field) = 2 /\ IsHex(field)
            BY <1>5, <3>4 DEF IsTraceparent, HexField, IsHex, Hex
        <3> QED BY <3>4, <3>5, ByteOfDigits
    <2>4. TryExtractTracingData(header) =
             [traceId |-> fields[2], parentId |-> fields[3],
              flagRecorded |-> TwoDigits(fields[4]) % 2 = 1]
        BY <1>3, <1>5, <2>1, <2>2, Zenon DEF TryExtractTracingData, VersionPrefixIdLength
    <2>5. PICK r \in BOOLEAN : /\ r = (TwoDigits(fields[4]) % 2 = 1)
                               /\ r = (HexValue[fields[4][2]] % 2 = 1)
        BY <2>3
    <2> QED BY <1>5, <2>4, <2>5, Zenon DEF Read
<1> QED BY <1>4, <1>5

LEMMA ZeroVersion ==
    <<"0", "0">> \o <<"-">> = <<"0", "0", "-">>
<1> PICK C : C = {"0", "-"}
    OBVIOUS
<1>1. <<"0", "0">> \in Seq(C) /\ <<"-">> \in Seq(C) /\ <<"0", "0", "-">> \in Seq(C)
    OBVIOUS
<1>2. Len(<<"0", "0">>) = 2 /\ Len(<<"-">>) = 1 /\ Len(<<"0", "0", "-">>) = 3
    OBVIOUS
<1>3. PICK u \in Seq(C), v \in Seq(C), w \in Seq(C) :
         u = <<"0", "0">> /\ v = <<"-">> /\ w = <<"0", "0", "-">>
    BY <1>1, Zenon
<1>4. u[1] = "0" /\ u[2] = "0" /\ v[1] = "-" /\ w[1] = "0" /\ w[2] = "0" /\ w[3] = "-"
    BY <1>3
<1>5. Len(u) = 2 /\ Len(v) = 1 /\ Len(w) = 3
    BY <1>2, <1>3, Zenon
<1>6. /\ u \o v \in Seq(C) /\ Len(u \o v) = Len(u) + Len(v)
      /\ \A i \in 1 .. Len(u) + Len(v) : (u \o v)[i] = IF i <= Len(u) THEN u[i] ELSE v[i - Len(u)]
    BY ConcatProperties
<1>7. Len(u \o v) = 3 /\ \A i \in 1 .. 3 : (u \o v)[i] = w[i]
    BY <1>4, <1>5, <1>6
<1>8. u \o v = w
    BY <1>5, <1>6, <1>7, SeqEqual
<1> QED BY <1>3, <1>8, Zenon

(* The header that BuildTraceparent makes, by its fields. *)
LEMMA BuiltHeader ==
    ASSUME NEW C, NEW t \in Seq(C), NEW p \in Seq(C), NEW f \in Seq(C), {"0", "-"} \subseteq C,
           NEW fields, fields = <<<<"0", "0">>, t, p, f>>,
           NEW header, header = <<"0", "0", "-">> \o t \o <<"-">> \o p \o <<"-">> \o f
    PROVE  header \in Seq(C) /\ HasFields(header, fields, 4)
<1>1. PICK v \in Seq(C) : v = <<"0", "0">>
    <2>1. <<"0", "0">> \in Seq(C)
        OBVIOUS
    <2> QED BY <2>1, Zenon
<1>2. fields[1] = v /\ fields[2] = t /\ fields[3] = p /\ fields[4] = f
    BY <1>1
<1>3. Lengths(fields, 1) /\ Lengths(fields, 2) /\ Lengths(fields, 3)
    <2>1. Len(fields[1]) \in Nat /\ Len(fields[2]) \in Nat /\ Len(fields[3]) \in Nat
        BY <1>2
    <2>2. \A k \in 1 .. 3 : k = 1 \/ k = 2 \/ k = 3
        OBVIOUS
    <2>3. \A k \in 1 .. 3 : Len(fields[k]) \in Nat
        BY <2>1, <2>2, Zenon
    <2>4. 1 .. 1 \subseteq 1 .. 3 /\ 1 .. 2 \subseteq 1 .. 3
        OBVIOUS
    <2> QED BY <2>3, <2>4, Zenon DEF Lengths
<1>4. HasFields(v, fields, 1)
    BY <1>2, FirstField
<1>5. PICK two : two = v \o <<"-">> \o t
    OBVIOUS
<1>6. two \in Seq(C) /\ HasFields(two, fields, 2)
    <2>1. PICK n \in Nat \ {0} : n = 1 /\ fields[n + 1] = t /\ n + 1 = 2
        BY <1>2
    <2>2. v \o <<"-">> \o fields[n + 1] \in Seq(C) /\ HasFields(v \o <<"-">> \o fields[n + 1], fields, n + 1)
        BY <1>3, <1>4, <2>1, NextField
    <2> QED BY <1>5, <2>1, <2>2
<1>7. PICK three : three = two \o <<"-">> \o p
    OBVIOUS
<1>8. three \in Seq(C) /\ HasFields(three, fields, 3)
    <2>1. PICK n \in Nat \ {0} : n = 2 /\ fields[n + 1] = p /\ n + 1 = 3
        BY <1>2
    <2>2. two \o <<"-">> \o fields[n + 1] \in Seq(C) /\ HasFields(two \o <<"-">> \o fields[n + 1], fields, n + 1)
        BY <1>3, <1>6, <2>1, NextField
    <2> QED BY <1>7, <2>1, <2>2
<1>9. PICK four : four = three \o <<"-">> \o f
    OBVIOUS
<1>10. four \in Seq(C) /\ HasFields(four, fields, 4)
    <2>1. PICK n \in Nat \ {0} : n = 3 /\ fields[n + 1] = f /\ n + 1 = 4
        BY <1>2
    <2>2. three \o <<"-">> \o fields[n + 1] \in Seq(C) /\ HasFields(three \o <<"-">> \o fields[n + 1], fields, n + 1)
        BY <1>3, <1>8, <2>1, NextField
    <2> QED BY <1>9, <2>1, <2>2
<1>11. v \o <<"-">> = <<"0", "0", "-">>
    BY <1>1, ZeroVersion, Zenon
<1>12. header = four
    BY <1>5, <1>7, <1>9, <1>11, Zenon
<1> QED BY <1>10, <1>12

(* What was read is read again from the header that is built of it. *)
LEMMA ReadAgain ==
    ASSUME NEW data \in TracingData, Len(data.traceId) = TraceIdLength, Len(data.parentId) = SpanIdLength,
           data.traceId # Zeros(TraceIdLength), data.parentId # Zeros(SpanIdLength)
    PROVE  TryExtractTracingData(BuildTraceparent(data)) = data
<1> PICK C : C = DOMAIN HexValue \cup {"-"}
    OBVIOUS
<1>1. {"0", "1"} \subseteq DOMAIN HexValue /\ "-" \notin DOMAIN HexValue
    BY HexConstants
<1>2. PICK t \in Seq(DOMAIN HexValue), p \in Seq(DOMAIN HexValue), r \in BOOLEAN :
         data = [traceId |-> t, parentId |-> p, flagRecorded |-> r]
    BY Zenon DEF TracingData
<1>3. data.traceId = t /\ data.parentId = p /\ data.flagRecorded = r
    BY <1>2
<1>4. PICK f \in Seq(DOMAIN HexValue) :
         f = (IF r THEN <<"0", "1">> ELSE <<"0", "0">>) /\ Len(f) = 2 /\ (HexValue[f[2]] % 2 = 1 <=> r)
    <2>1. CASE r
        <3>1. PICK f \in Seq(DOMAIN HexValue) : f = <<"0", "1">> /\ Len(f) = 2 /\ f[2] = "1"
            <4>1. <<"0", "1">> \in Seq(DOMAIN HexValue) /\ Len(<<"0", "1">>) = 2 /\ <<"0", "1">>[2] = "1"
                BY <1>1
            <4> QED BY <4>1, Zenon
        <3>2. HexValue[f[2]] % 2 = 1
            BY <3>1, HexConstants
        <3> QED BY <2>1, <3>1, <3>2, Zenon
    <2>2. CASE ~r
        <3>1. PICK f \in Seq(DOMAIN HexValue) : f = <<"0", "0">> /\ Len(f) = 2 /\ f[2] = "0"
            <4>1. <<"0", "0">> \in Seq(DOMAIN HexValue) /\ Len(<<"0", "0">>) = 2 /\ <<"0", "0">>[2] = "0"
                BY <1>1
            <4> QED BY <4>1, Zenon
        <3>2. HexValue[f[2]] % 2 # 1
            BY <1>1, <3>1, HexConstants
        <3> QED BY <2>2, <3>1, <3>2, Zenon
    <2> QED BY <2>1, <2>2
<1>5. PICK v \in Seq(DOMAIN HexValue) : v = <<"0", "0">> /\ Len(v) = 2 /\ v[1] = "0"
    <2>1. <<"0", "0">> \in Seq(DOMAIN HexValue) /\ Len(<<"0", "0">>) = 2 /\ <<"0", "0">>[1] = "0"
        BY <1>1
    <2> QED BY <2>1, Zenon
<1>6. PICK fields : fields = <<<<"0", "0">>, t, p, f>>
    OBVIOUS
<1>7. fields[1] = v /\ fields[2] = t /\ fields[3] = p /\ fields[4] = f /\ Len(fields) = 4
    BY <1>5, <1>6
<1>8. PICK header : header = <<"0", "0", "-">> \o t \o <<"-">> \o p \o <<"-">> \o f
    OBVIOUS
<1>9. header = BuildTraceparent(data)
    BY <1>3, <1>4, <1>8, Zenon DEF BuildTraceparent
<1>10. t \in Seq(C) /\ p \in Seq(C) /\ f \in Seq(C) /\ v \in Seq(C) /\ {"0", "-"} \subseteq C
    <2>1. DOMAIN HexValue \subseteq C
        OBVIOUS
    <2> QED BY <1>1, <2>1, SeqMonotonic
<1>11. header \in Seq(C) /\ HasFields(header, fields, 4)
    BY <1>6, <1>8, <1>10, BuiltHeader
<1>12. ASSUME NEW s \in Seq(DOMAIN HexValue) PROVE Dashless(s) /\ IsHex(s)
    <2>1. \A i \in 1 .. Len(s) : s[i] \in DOMAIN HexValue
        BY ElementOfSeq
    <2>2. DOMAIN s = 1 .. Len(s)
        OBVIOUS
    <2> QED BY <1>1, <2>1, <2>2 DEF Dashless, IsHex
<1>13. \A k \in 1 .. 4 : fields[k] \in Seq(C) /\ Dashless(fields[k])
    <2>1. \A k \in 1 .. 4 : k = 1 \/ k = 2 \/ k = 3 \/ k = 4
        OBVIOUS
    <2> QED BY <1>7, <1>10, <1>12, <2>1, Zenon
<1>14. IsTraceparent(fields)
    <2>1. HexField(v, 2) /\ HexField(f, 2) /\ HexField(t, TraceIdLength) /\ HexField(p, SpanIdLength)
        BY <1>3, <1>4, <1>5, <1>12 DEF HexField, IsHex, Hex
    <2>2. \E i \in 1 .. 2 : HexValue[v[i]] # 15
        <3>1. HexValue[v[1]] # 15 /\ 1 \in 1 .. 2
            BY <1>1, <1>5, HexConstants
        <3> QED BY <3>1
    <2>3. Len(fields) >= 4
        BY <1>7
    <2> QED BY <1>3, <1>7, <2>1, <2>2, <2>3, Zenon DEF IsTraceparent
<1>15. TryExtractTracingData(header) = Read(fields)
    <2>1. PICK n \in Nat \ {0} : n = 4
        OBVIOUS
    <2>2. TryExtractTracingData(header) = IF IsTraceparent(fields) THEN Read(fields) ELSE NoData
        BY <1>7, <1>11, <1>13, <2>1, HeaderRead
    <2> QED BY <1>14, <2>2
<1>16. Read(fields) = data
    <2>1. PICK b \in BOOLEAN : b = (HexValue[f[2]] % 2 = 1) /\ b = r
        BY <1>4
    <2> QED BY <1>2, <1>7, <2>1, Zenon DEF Read
<1> QED BY <1>9, <1>15, <1>16

LEMMA OneIsTruth == \A x : \E r \in BOOLEAN : r = (x = 1)
OBVIOUS

(* Whatever the fields are: exactly the well-formed headers are taken, the *)
(* ids and the flag come from the right fields, and the next agent reads   *)
(* the same from the header that is built of them.                         *)
THEOREM TraceparentOfAnyFields ==
    ASSUME NEW C, NEW fields \in Seq(Seq(C \ {"-"})), fields # <<>>
    PROVE  LET data == TryExtractTracingData(Traceparent(fields)) IN
           IF IsTraceparent(fields)
           THEN /\ data # NoData
                /\ data.traceId = fields[2] /\ data.parentId = fields[3]
                /\ data.flagRecorded <=> HexValue[fields[4][2]] % 2 = 1
                /\ TryExtractTracingData(BuildTraceparent(data)) = data
           ELSE data = NoData
<1> PICK D : D = C \cup {"-"}
    OBVIOUS
<1>1. PICK n \in Nat \ {0} : n = Len(fields)
    <2>1. Len(fields) \in Nat \ {0}
        BY EmptySeq
    <2> QED BY <2>1
<1>2. ASSUME NEW k \in 1 .. n PROVE fields[k] \in Seq(D) /\ Dashless(fields[k])
    <2>1. fields[k] \in Seq(C \ {"-"})
        BY <1>1, ElementOfSeq
    <2>2. PICK field \in Seq(C \ {"-"}) : field = fields[k]
        BY <2>1
    <2>3. \A i \in 1 .. Len(field) : field[i] \in C \ {"-"}
        BY ElementOfSeq
    <2>4. field \in Seq(D)
        BY SeqMonotonic
    <2> QED BY <2>2, <2>3, <2>4 DEF Dashless
<1>3. fields \in Seq(Seq(D)) /\ "-" \in D
    <2>1. fields = [k \in 1 .. n |-> fields[k]]
        BY <1>1
    <2>2. fields \in [1 .. n -> Seq(D)]
        BY <1>2, <2>1
    <2> QED BY <2>2
<1>4. PICK header \in Seq(D) : header = Traceparent(fields) /\ HasFields(header, fields, n)
    BY <1>1, <1>3, HeaderOfFields
<1>5. TryExtractTracingData(header) = IF IsTraceparent(fields) THEN Read(fields) ELSE NoData
    BY <1>1, <1>2, <1>4, HeaderRead
<1>6. CASE ~IsTraceparent(fields)
    BY <1>4, <1>5, <1>6
<1>7. CASE IsTraceparent(fields)
    <2>1. PICK r \in BOOLEAN : r = (HexValue[fields[4][2]] % 2 = 1)
        BY OneIsTruth, Zenon
    <2>2. PICK data : data = [traceId |-> fields[2], parentId |-> fields[3], flagRecorded |-> r]
        OBVIOUS
    <2>3. data = TryExtractTracingData(Traceparent(fields))
        <3>1. TryExtractTracingData(Traceparent(fields)) = Read(fields)
            BY <1>4, <1>5, <1>7, Zenon
        <3> QED BY <2>2, <2>1, <3>1, Zenon DEF Read
    <2>4. data.traceId = fields[2] /\ data.parentId = fields[3] /\ data.flagRecorded = r
        BY <2>2
    <2>5. /\ HexField(fields[2], TraceIdLength) /\ fields[2] # Zeros(TraceIdLength)
          /\ HexField(fields[3], SpanIdLength) /\ fields[3] # Zeros(SpanIdLength)
        BY <1>7 DEF IsTraceparent
    <2>6. Len(fields) >= 4
        BY <1>7 DEF IsTraceparent
    <2>7. 2 \in 1 .. n /\ 3 \in 1 .. n
        <3>1. n >= 4
            BY <1>1, <2>6, Zenon
        <3> QED BY <3>1, FirstFour, Zenon
    <2>8. ASSUME NEW k \in 1 .. n, NEW length, HexField(fields[k], length)
          PROVE  fields[k] \in Seq(DOMAIN HexValue)
        <3>1. PICK field \in Seq(D) : field = fields[k]
            BY <1>2
        <3>2. \A i \in DOMAIN field : field[i] \in DOMAIN HexValue
            BY <2>8, <3>1 DEF HexField, Hex
        <3>3. PICK l \in Nat : l = Len(field) /\ DOMAIN field = 1 .. l
            OBVIOUS
        <3>4. field \in [1 .. l -> DOMAIN HexValue]
            <4>1. field = [i \in 1 .. l |-> field[i]]
                BY <3>3
            <4> QED BY <3>2, <3>3, <4>1
        <3> QED BY <3>1, <3>4
    <2>9. fields[2] \in Seq(DOMAIN HexValue) /\ fields[3] \in Seq(DOMAIN HexValue)
        BY <2>5, <2>7, <2>8
    <2>10. data \in TracingData
        BY <2>1, <2>2, <2>9 DEF TracingData
    <2>11. data # NoData
        BY <2>10, NoDataIsNull
    <2>12. TryExtractTracingData(BuildTraceparent(data)) = data
        BY <2>4, <2>5, <2>10, ReadAgain DEF HexField
    <2>13. data.flagRecorded <=> HexValue[fields[4][2]] % 2 = 1
        BY <2>1, <2>4, Zenon
    <2> QED BY <1>7, <2>3, <2>4, <2>11, <2>12, <2>13, Zenon
<1> QED BY <1>6, <1>7

LEMMA AskedFields ==
    ASSUME question \in TraceparentQuestions
    PROVE  \E C : question.fields \in Seq(Seq(C \ {"-"})) /\ question.fields # <<>>
<1> PICK C : C = {"0", "1", "F", "g"}
    OBVIOUS
<1>1. /\ <<"0", "0">> \in Seq(C) /\ <<"0", "1">> \in Seq(C) /\ <<"F", "F">> \in Seq(C)
      /\ <<"0", "g">> \in Seq(C) /\ <<"0">> \in Seq(C) /\ <<"1">> \in Seq(C) /\ <<"g">> \in Seq(C)
      /\ <<"0", "1", "1">> \in Seq(C) /\ <<"1", "1", "1">> \in Seq(C) /\ <<"1", "1">> \in Seq(C)
      /\ <<>> \in Seq(C)
    OBVIOUS
<1>2. Ids(1) \subseteq Seq(C) /\ Ids(2) \subseteq Seq(C)
    <2> SUFFICES ASSUME NEW k \in Nat, NEW s \in Ids(k) PROVE s \in Seq(C)
        OBVIOUS
    <2> QED BY DEF Ids
<1>3. /\ VersionFields \subseteq Seq(C) /\ TraceIdFields \subseteq Seq(C)
      /\ SpanIdFields \subseteq Seq(C) /\ FlagsFields \subseteq Seq(C)
    BY <1>1, <1>2, Zenon DEF VersionFields, TraceIdFields, SpanIdFields, FlagsFields
<1>4. question.fields \in TraceparentFields
    BY DEF TraceparentQuestions
<1>6. ASSUME NEW m \in FirstThree PROVE m \in Seq(Seq(C)) /\ Len(m) = 3
    <2>1. PICK v \in Seq(C), t \in Seq(C), p \in Seq(C) : m = <<v, t, p>>
        BY <1>3 DEF FirstThree
    <2> QED BY <2>1
<1>7. ASSUME NEW m \in FirstThree, NEW more \in Seq(Seq(C))
      PROVE  m \o more \in Seq(Seq(C)) /\ m \o more # <<>>
    <2>1. m \in Seq(Seq(C)) /\ Len(m) = 3
        BY <1>6
    <2>2. m \o more \in Seq(Seq(C)) /\ Len(m \o more) = Len(m) + Len(more)
        BY <2>1, ConcatProperties
    <2>3. Len(more) \in Nat
        OBVIOUS
    <2>4. Len(m \o more) # 0
        BY <2>1, <2>2, <2>3
    <2> QED BY <2>2, <2>4, EmptySeq
<1>8. ASSUME NEW f \in FlagsFields PROVE <<f>> \in Seq(Seq(C)) /\ <<f, <<"g">>>> \in Seq(Seq(C))
    <2>1. f \in Seq(C) /\ <<"g">> \in Seq(C)
        BY <1>1, <1>3
    <2>2. ASSUME NEW g \in Seq(C) PROVE <<f>> \in Seq(Seq(C)) /\ <<f, g>> \in Seq(Seq(C))
        BY <2>1
    <2> QED BY <2>1, <2>2, Zenon
<1>9. question.fields \in Seq(Seq(C)) /\ question.fields # <<>>
    <2>1. CASE question.fields \in FirstThree
        <3>1. question.fields \in Seq(Seq(C)) /\ Len(question.fields) = 3
            BY <1>6, <2>1
        <3>2. Len(question.fields) # 0
            BY <3>1
        <3> QED BY <3>1, <3>2, EmptySeq
    <2>2. CASE question.fields \in {WithFlags(m, f) : m \in FirstThree, f \in FlagsFields}
        <3>1. PICK m \in FirstThree, f \in FlagsFields : question.fields = WithFlags(m, f)
            BY <2>2
        <3>2. <<f>> \in Seq(Seq(C))
            BY <1>8
        <3>3. m \o <<f>> \in Seq(Seq(C)) /\ m \o <<f>> # <<>>
            BY <1>7, <3>2, Zenon
        <3> QED BY <3>1, <3>3, Zenon DEF WithFlags
    <2>3. CASE question.fields \in {WithMore(m, f) : m \in FirstThree, f \in FlagsFields}
        <3>1. PICK m \in FirstThree, f \in FlagsFields : question.fields = WithMore(m, f)
            BY <2>3
        <3>2. <<f, <<"g">>>> \in Seq(Seq(C))
            BY <1>8
        <3>3. m \o <<f, <<"g">>>> \in Seq(Seq(C)) /\ m \o <<f, <<"g">>>> # <<>>
            BY <1>7, <3>2, Zenon
        <3> QED BY <3>1, <3>3, Zenon DEF WithMore
    <2> QED BY <1>4, <2>1, <2>2, <2>3 DEF TraceparentFields
<1>10. C \ {"-"} = C
    OBVIOUS
<1> QED BY <1>9, <1>10

(* Of all fields that are asked about. *)
THEOREM TraceparentsAreRead == AlgorithmsSpec => []TraceparentGrammar
<1>1. QuestionInv => TraceparentGrammar
    <2> SUFFICES ASSUME QuestionInv, Asked("traceparent") PROVE TraceparentGrammar
        BY DEF TraceparentGrammar
    <2>1. question \in TraceparentQuestions
        BY DEF QuestionInv, Asked, Questions, SamplerQuestions, VersionQuestions,
               TracestateQuestions, WildcardQuestions
    <2>2. PICK C : question.fields \in Seq(Seq(C \ {"-"})) /\ question.fields # <<>>
        BY <2>1, AskedFields
    <2> QED BY <2>2, TraceparentOfAnyFields DEF TraceparentGrammar
<1> QED BY <1>1, QuestionStays, PTL


-----------------------------------------------------------------------------
(* Why GetSamples returns (GetSamplesReturns, without the fairness).       *)

(* Every entry that is still wanted is in a line that is still to come. *)
ReadInv ==
    ~returned =>
       /\ file \in Files /\ at \in Nat \ {0}
       /\ collect \subseteq {"free", "total"} /\ ~(collect \subseteq seen)
       /\ \A entry \in collect \ seen : \E i \in 1 .. Len(file) : i >= at /\ file[i].about = entry

LEMMA ReadLineKeeps ==
    ASSUME ReadInv, ReadLine
    PROVE  ReadInv' /\ at <= Len(file) /\ (returned' \/ at' = at + 1)
<1>1. /\ ~returned /\ at \in Nat /\ at > 0 /\ file \in Files /\ collect \subseteq {"free", "total"}
      /\ ~(collect \subseteq seen)
      /\ \A entry \in collect \ seen : \E i \in 1 .. Len(file) : i >= at /\ file[i].about = entry
    BY DEF ReadInv, ReadLine
<1>2. PICK n \in Nat : n = Len(file)
    BY <1>1, FilesAssumption
<1>3. at <= n
    BY <1>1, <1>2
<1>4. file' = file /\ collect' = collect /\ returned' = (collect \subseteq seen')
    BY DEF ReadLine
<1>5. \A entry \in collect : file[at].about = entry => entry \in seen'
    BY <1>1, <1>2, <1>3 DEF ReadLine, IsAbout, LineIsNull
<1>6. seen \subseteq seen'
    BY DEF ReadLine
<1>7. ASSUME ~returned' PROVE at' = at + 1
    <2>1. ~LineIsNull
        BY <1>1, <1>2, <1>3 DEF LineIsNull
    <2> QED BY <1>7, <2>1 DEF ReadLine
<1>8. ASSUME ~returned', NEW entry \in collect, entry \notin seen'
      PROVE  \E i \in 1 .. Len(file) : i >= at + 1 /\ file[i].about = entry
    <2>1. PICK i \in 1 .. Len(file) : i >= at /\ file[i].about = entry
        BY <1>1, <1>6, <1>8
    <2>2. i # at
        BY <1>5, <1>8, <2>1
    <2> QED BY <1>1, <2>1, <2>2
<1>9. ReadInv'
    <2> SUFFICES ASSUME ~returned' PROVE ReadInv'
        BY DEF ReadInv
    <2>1. at' = at + 1 /\ at + 1 \in Nat \ {0}
        BY <1>1, <1>7
    <2>2. ~(collect' \subseteq seen')
        BY <1>4
    <2> QED BY <1>1, <1>4, <1>8, <2>1, <2>2 DEF ReadInv
<1> QED BY <1>2, <1>3, <1>7, <1>9

(* FreeAndTotalMemoryProvider.GetSamples: of a file that has both entries, *)
(* whether or not their values can be read, and in whatever order they     *)
(* come, it reads each line at most once and never beyond the last one, so *)
(* it returns after at most as many rounds as there are lines.  Of a file  *)
(* without one of them the run meminfo_old_kernel shows otherwise.         *)
THEOREM GetSamplesIsBounded ==
    ASSUME \A f \in Files : \A entry \in {"free", "total"} : \E i \in 1 .. Len(f) : f[i].about = entry
    PROVE  AlgorithmsSpec => /\ [](~returned => at \in 1 .. Len(file) /\ LoopCondition)
                             /\ [][~returned => returned' \/ at' = at + 1]_vars
<1>1. Ask => ReadInv
    <2> SUFFICES ASSUME Init PROVE ReadInv
        BY DEF Ask, NotReading, ReadInv
    <2> QED BY DEF Init, ReadInv
<1>2. ReadInv /\ [Answer]_<<vars, filterVars, question>> =>
         ReadInv' /\ [~returned => returned' \/ at' = at + 1]_vars
    <2>1. CASE Next
        BY <2>1, ReadLineKeeps DEF Next
    <2>2. CASE UNCHANGED vars
        BY <2>2 DEF vars, ReadInv
    <2> QED BY <2>1, <2>2 DEF Answer
<1>3. ReadInv => (~returned => at \in 1 .. Len(file) /\ LoopCondition)
    <2> SUFFICES ASSUME ReadInv, ~returned PROVE at \in 1 .. Len(file) /\ LoopCondition
        OBVIOUS
    <2>1. PICK n \in Nat : n = Len(file)
        BY FilesAssumption DEF ReadInv
    <2>2. at \in Nat /\ at > 0 /\ at <= n
        BY <2>1 DEF ReadInv
    <2> QED BY <2>1, <2>2 DEF LoopCondition, LineIsNull
<1> QED BY <1>1, <1>2, <1>3, PTL DEF AlgorithmsSpec
=============================================================================
