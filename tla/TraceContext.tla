---------------------------- MODULE TraceContext ----------------------------
(***************************************************************************)
(* TraceContext: the traceparent and tracestate headers.  A header is a    *)
(* sequence of characters; the lengths of the ids are constants (32 and 16 *)
(* in the code).  Positions count from 0, as in the code.                  *)
(***************************************************************************)
EXTENDS Integers, Sequences

CONSTANTS
    TraceIdLength, SpanIdLength,
    MaxListMembers,         \* of a tracestate: 32
    HexValue,               \* of every hexadecimal digit, upper and lower case
    NoData                  \* null

(* What HexCharToInt does with a digit. *)
ASSUME HexConstants ==
    /\ HexValue \in [DOMAIN HexValue -> 0 .. 15]
    /\ {"0", "1"} \subseteq DOMAIN HexValue /\ "-" \notin DOMAIN HexValue
    /\ \A c \in DOMAIN HexValue : HexValue[c] = 0 <=> c = "0"
    /\ HexValue["1"] = 1

ASSUME LengthConstants ==
    TraceIdLength \in Nat \ {0} /\ SpanIdLength \in Nat \ {0} /\ MaxListMembers \in Nat

TracingData ==
    [traceId : Seq(DOMAIN HexValue), parentId : Seq(DOMAIN HexValue), flagRecorded : BOOLEAN]
ASSUME NoDataIsNull == NoData \notin TracingData

OptionsLength == 2
VersionPrefixIdLength == 3
VersionAndTraceIdLength == VersionPrefixIdLength + TraceIdLength + 1
VersionAndTraceIdAndSpanIdLength == VersionAndTraceIdLength + SpanIdLength + 1

-----------------------------------------------------------------------------
(* traceparent *)
DashAt(value, i) == Len(value) > i /\ value[i + 1] = "-"
Substring(value, start, length) == SubSeq(value, start + 1, start + length)
IsHex(chars) == \A i \in DOMAIN chars : chars[i] \in DOMAIN HexValue

IsIdValid(id, length) ==
    Len(id) = length /\ IsHex(id) /\ \E i \in DOMAIN id : id[i] # "0"

HexStringTwoCharToByte(value, start) ==
    16 * HexValue[value[start + 1]] + HexValue[value[start + 2]]

IsExtractableAnyEnd(value) ==           \* mutant: what follows the flags is not looked at
    /\ DashAt(value, VersionPrefixIdLength - 1)
    /\ IsHex(Substring(value, 0, 2)) /\ HexStringTwoCharToByte(value, 0) # 255
    /\ DashAt(value, VersionAndTraceIdLength - 1)
    /\ IsIdValid(Substring(value, VersionPrefixIdLength, TraceIdLength), TraceIdLength)
    /\ DashAt(value, VersionAndTraceIdAndSpanIdLength - 1)
    /\ IsIdValid(Substring(value, VersionAndTraceIdLength, SpanIdLength), SpanIdLength)
    /\ Len(value) >= VersionAndTraceIdAndSpanIdLength + OptionsLength
    /\ IsHex(Substring(value, VersionAndTraceIdAndSpanIdLength, OptionsLength))

(* The early returns of TryExtractTracingData; a version above 0 is a best *)
(* attempt, which allows more fields after the flags.                      *)
IsExtractable(value) ==
    LET end == VersionAndTraceIdAndSpanIdLength + OptionsLength IN
    /\ DashAt(value, VersionPrefixIdLength - 1)
    /\ IsHex(Substring(value, 0, 2)) /\ HexStringTwoCharToByte(value, 0) # 255
    /\ DashAt(value, VersionAndTraceIdLength - 1)
    /\ IsIdValid(Substring(value, VersionPrefixIdLength, TraceIdLength), TraceIdLength)
    /\ DashAt(value, VersionAndTraceIdAndSpanIdLength - 1)
    /\ IsIdValid(Substring(value, VersionAndTraceIdLength, SpanIdLength), SpanIdLength)
    /\ Len(value) >= end
    /\ IsHex(Substring(value, VersionAndTraceIdAndSpanIdLength, OptionsLength))
    /\ \/ Len(value) = end
       \/ HexStringTwoCharToByte(value, 0) > 0 /\ DashAt(value, end)

TryExtractTracingData(value) ==
    IF ~IsExtractable(value) THEN NoData
    ELSE [traceId |-> Substring(value, VersionPrefixIdLength, TraceIdLength),
          parentId |-> Substring(value, VersionAndTraceIdLength, SpanIdLength),
          flagRecorded |-> HexStringTwoCharToByte(value, VersionAndTraceIdAndSpanIdLength) % 2 = 1]

BuildTraceparent(data) ==
    <<"0", "0", "-">> \o data.traceId \o <<"-">> \o data.parentId
        \o <<"-">> \o (IF data.flagRecorded THEN <<"0", "1">> ELSE <<"0", "0">>)

-----------------------------------------------------------------------------
(* tracestate.  A list member is malformed when it is not a key and a      *)
(* value with one = between them; such a member is skipped.                *)
IsPair(member) == member.form = "pair"

AcceptsWithDuplicates(members) ==       \* mutant: the set of keys is not kept
    /\ Len(members) <= MaxListMembers
    /\ \A i \in DOMAIN members :
          IsPair(members[i]) => members[i].keyOk /\ members[i].valueOk

(* ValidateKey, ValidateValue and the limits on a vendor key are keyOk and *)
(* valueOk of a member.                                                    *)
Accepts(members) ==
    /\ Len(members) <= MaxListMembers
    /\ \A i \in DOMAIN members :
          IsPair(members[i]) =>
             /\ members[i].keyOk /\ members[i].valueOk
             /\ \A j \in 1 .. i - 1 : IsPair(members[j]) => members[j].key # members[i].key

(* What the loop appends, up to each of the list members. *)
KeptMembers(members) ==
    LET kept[i \in 0 .. Len(members)] ==
            IF i = 0 THEN <<>>
            ELSE IF IsPair(members[i]) THEN Append(kept[i - 1], members[i]) ELSE kept[i - 1]
    IN  kept[Len(members)]

(* The members that are sent on; null is NoData.  A tracestate without any *)
(* pair comes out empty.                                                   *)
ValidateTracestate(members) ==
    IF members = <<>> \/ ~Accepts(members) THEN NoData ELSE KeptMembers(members)
=============================================================================
