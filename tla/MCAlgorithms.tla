---------------------------- MODULE MCAlgorithms ----------------------------
(***************************************************************************)
(* The pure algorithms against reference definitions.  A behaviour asks    *)
(* one question; the ones about /proc/meminfo take the steps of            *)
(* FreeAndTotalMemory and the ones about filters those of EventFilters,    *)
(* the others are answered at once.                                        *)
(***************************************************************************)
EXTENDS FreeAndTotalMemory, EventFilters, WildcardMatcher, Sampler, TraceContext, ElasticVersion

CONSTANTS f1, f2, f3, e1, e2

VARIABLE question

About(f, entry) == {i \in DOMAIN f : f[i].about = entry}
FilesOf(n) == [1 .. n -> Lines]

(* Every file of four lines with one line for each entry. *)
CompleteFiles ==
    {f \in FilesOf(4) : Cardinality(About(f, "free")) = 1 /\ Cardinality(About(f, "total")) = 1}

(* MemAvailable is reported by Linux 3.14 and later only. *)
OldKernelFiles ==
    {f \in FilesOf(2) : About(f, "free") = {} /\ Cardinality(About(f, "total")) = 1}

-----------------------------------------------------------------------------
(* Patterns and strings over a, its upper case A, and b. *)
LowerCase(c) == IF c = "A" THEN "a" ELSE c
Strings(chars, n) == UNION {[1 .. k -> chars] : k \in 0 .. n}
Patterns == (UNION {[1 .. k -> Strings({"a", "b"}, 1)] : k \in 1 .. 4})
            \cup [1 .. 2 -> Strings({"a", "A"}, 2)]
WildcardQuestions ==
    [about: {"wildcard"}, pattern: Patterns, first: Strings({"a", "b"}, 2),
     second: Strings({"a", "A", "b"}, 1), ignoreCase: BOOLEAN]

SamplerQuestions == [about: {"sampler"}, rate: 0 .. One]

(* The fields of a traceparent, none of which holds a dash. *)
HexDigit == [c \in {"0", "1", "F"} |-> CASE c = "0" -> 0 [] c = "1" -> 1 [] c = "F" -> 15]
Ids(length) == [1 .. length -> {"0", "1", "F", "g"}]
VersionFields == {<<"0", "0">>, <<"0", "1">>, <<"F", "F">>, <<"0", "g">>, <<"0">>}
TraceIdFields == Ids(1) \cup Ids(2) \cup {<<"1", "1", "1">>}
SpanIdFields == Ids(1) \cup {<<>>, <<"1", "1">>}
FlagsFields == {<<"0", "0">>, <<"0", "1">>, <<"F", "F">>, <<"0", "g">>, <<"1">>, <<"0", "1", "1">>}
FirstThree == VersionFields \X TraceIdFields \X SpanIdFields
WithFlags(fields, flags) == fields \o <<flags>>
WithMore(fields, flags) == fields \o <<flags, <<"g">>>>
TraceparentFields ==
    FirstThree \cup {WithFlags(m, f) : m \in FirstThree, f \in FlagsFields}
    \cup {WithMore(m, f) : m \in FirstThree, f \in FlagsFields}
Traceparent(fields) ==
    LET joined[i \in DOMAIN fields] ==
            IF i = 1 THEN fields[1] ELSE joined[i - 1] \o <<"-">> \o fields[i]
    IN  joined[Len(fields)]
TraceparentQuestions == [about: {"traceparent"}, fields: TraceparentFields]

ListMembers == [form: {"pair"}, key: {"k1", "k2"}, keyOk: {TRUE}, valueOk: BOOLEAN]
               \cup {[form |-> "pair", key |-> "bad", keyOk |-> FALSE, valueOk |-> TRUE],
                     [form |-> "other"]}
TracestateQuestions ==
    [about: {"tracestate"}, members: UNION {[1 .. k -> ListMembers] : k \in 0 .. MaxListMembers + 1}]

Prereleases == [kind: {"null", "empty"}, rank: {0}] \cup [kind: {"number", "word"}, rank: 0 .. 1]
Versions == {NoVersion} \cup [major: {7}, minor: {9, 10}, patch: 0 .. 1, prerelease: Prereleases]
            \cup {[major |-> 8, minor |-> 0, patch |-> 0, prerelease |-> [kind |-> "empty", rank |-> 0]]}
VersionQuestions == [about: {"version"}, v: Versions, w: Versions, x: Versions]

Questions == WildcardQuestions \cup SamplerQuestions \cup TraceparentQuestions
             \cup TracestateQuestions \cup VersionQuestions

(* f1 throws for one event, f2 rejects it, f3 does so too and returns      *)
(* another object for the other event.                                     *)
FilterVerdicts ==
    [f \in Filters |-> [e \in FilteredEvents |->
       CASE f = f1 -> IF e = e1 THEN "throws" ELSE "same"
         [] f = f2 -> IF e = e1 THEN "null" ELSE "same"
         [] f = f3 -> IF e = e1 THEN "null" ELSE "other"]]

NotReading ==
    /\ file = <<>> /\ at = 1 /\ collect = {} /\ seen = {} /\ retVal = {} /\ odd = TRUE
    /\ returned = TRUE

NotFiltering == FiltersInit /\ current = e1

Ask ==
    \/ Init /\ NotFiltering /\ question = [about |-> "meminfo"]
    \/ NotReading /\ FiltersInit /\ question = [about |-> "filters"]
    \/ NotReading /\ NotFiltering /\ question \in Questions
Answer ==
    /\ \/ Next /\ UNCHANGED filterVars
       \/ question.about = "filters" /\ FiltersNext /\ UNCHANGED vars
    /\ UNCHANGED question
AlgorithmsSpec == Ask /\ [][Answer]_<<vars, filterVars, question>> /\ WF_vars(Next)

-----------------------------------------------------------------------------
Text == question.first \o question.second
Asked(about) == question.about = about

(* SanitizeFieldNames, TransactionIgnoreUrls, ...: no string that a        *)
(* pattern describes escapes it, whatever the case, the number of          *)
(* wildcards, and wherever the two parts of the string meet.               *)
WildcardMissesNothing ==
    Asked("wildcard") =>
       (Describes(question.pattern, Text, question.ignoreCase)
          => Matches(question.pattern, question.first, question.second, question.ignoreCase))

(* A pattern of at most one literal has none that could overlap: x, *x,    *)
(* x* and *x* match exactly what they describe.                            *)
OneLiteralExact ==
    Asked("wildcard") /\ Cardinality({i \in DOMAIN question.pattern : question.pattern[i] # <<>>}) <= 1 =>
       (Matches(question.pattern, question.first, question.second, question.ignoreCase)
          => Describes(question.pattern, Text, question.ignoreCase))

-----------------------------------------------------------------------------
Distance(m, n) == IF m < n THEN n - m ELSE m - n

(* Of all values the random bytes may have, the share that is sampled is   *)
(* the rate the transaction reports, up to half a step of its precision    *)
(* and the rounding to integers (5 values).  Below one step the reported   *)
(* rate is rounded up and the bounds are not: there it is a whole step.    *)
SampledShare ==
    Asked("sampler") =>
       LET sampled == Cardinality({v \in Longs : DecideIfToSample(question.rate, v)})
           reported == RoundToPrecision(question.rate) * Fine * (2 * MaxLong + 2)
           step == Fine * (2 * MaxLong + 2)
       IN  2 * Distance(sampled * One, reported)
              <= (IF question.rate < Fine THEN 2 ELSE 1) * step + 2 * 5 * One

-----------------------------------------------------------------------------
Hex == DOMAIN HexValue
HexField(f, length) == Len(f) = length /\ \A i \in DOMAIN f : f[i] \in Hex
Zeros(length) == [i \in 1 .. length |-> "0"]

(* The header by its fields: version-traceId-parentId-flags, and more      *)
(* fields in versions above 00 only.                                       *)
IsTraceparent(fields) ==
    /\ Len(fields) >= 4
    /\ HexField(fields[1], 2) /\ \E i \in 1 .. 2 : HexValue[fields[1][i]] # 15
    /\ HexField(fields[2], TraceIdLength) /\ fields[2] # Zeros(TraceIdLength)
    /\ HexField(fields[3], SpanIdLength) /\ fields[3] # Zeros(SpanIdLength)
    /\ HexField(fields[4], 2)
    /\ fields[1] = <<"0", "0">> => Len(fields) = 4

(* TryExtractTracingData reads by position: it takes exactly the headers   *)
(* whose fields are well formed, whatever the lengths of the fields do to  *)
(* the positions, and takes the ids from the right fields; and what it     *)
(* read is what the next agent reads from the header built of it.          *)
TraceparentGrammar ==
    Asked("traceparent") =>
       LET data == TryExtractTracingData(Traceparent(question.fields)) IN
       IF IsTraceparent(question.fields)
       THEN /\ data # NoData
            /\ data.traceId = question.fields[2] /\ data.parentId = question.fields[3]
            /\ data.flagRecorded <=> HexValue[question.fields[4][2]] % 2 = 1
            /\ TryExtractTracingData(BuildTraceparent(data)) = data
       ELSE data = NoData

(* A tracestate that is sent on has no key twice, lost none of its pairs   *)
(* and not their order, and the next agent sends the same on.  The empty   *)
(* one is null for the next agent.                                         *)
TracestateForwarded ==
    Asked("tracestate") =>
       LET sent == ValidateTracestate(question.members)
           pairs == {i \in DOMAIN question.members : question.members[i].form = "pair"}
       IN  sent = NoData \/
             /\ \A i, j \in DOMAIN sent : sent[i].key = sent[j].key => i = j
             /\ Len(sent) = Cardinality(pairs)
             /\ \A i \in pairs : sent[Cardinality({j \in pairs : j <= i})] = question.members[i]
             /\ ValidateTracestate(sent) = IF sent = <<>> THEN NoData ELSE sent

-----------------------------------------------------------------------------
(* The order behind the choice of an intake API: total, transitive, and a  *)
(* prerelease comes before its release and after every earlier release.    *)
VersionOrder ==
    Asked("version") =>
       /\ Compare(question.v, question.w) = -Compare(question.w, question.v)
       /\ Less(question.v, question.w) /\ ~Less(question.x, question.w) => Less(question.v, question.x)
       /\ question.v # NoVersion /\ ~IsEmpty(question.v.prerelease) =>
             LET release == [question.v EXCEPT !.prerelease = [kind |-> "empty", rank |-> 0]] IN
             /\ Less(question.v, release)
             /\ \A p \in 0 .. release.patch - 1 : Less([release EXCEPT !.patch = p], question.v)
=============================================================================
