--------------------------- MODULE EventFilters ---------------------------
(***************************************************************************)
(* Agent.AddFilter, and the filters that PayloadSenderV2 applies to each   *)
(* event of a batch.  Of the three lists, one per type of event, this is   *)
(* one; metric sets have none.  An application thread adds to the List     *)
(* while the work loop copies it, without a lock.  Two threads do not add  *)
(* at the same time, which a List does not allow and loses filters by.     *)
(***************************************************************************)
EXTENDS Integers, Sequences, SequencesExt

CONSTANTS
    Filters, NoFilter,
    FilteredEvents,     \* the events of a batch that are of the list's type
    Verdict             \* what a filter does with an event

Verdicts == {"same", "other", "null", "throws"}

ASSUME FilterConstants ==
    /\ NoFilter \notin Filters
    /\ Verdict \in [Filters -> [FilteredEvents -> Verdicts]]

VARIABLES
    slots,              \* the List: its _items up to _size
    adding,             \* the filter whose List.Add is under way
    added,              \* those whose AddFilter has returned true, oldest first
    count,              \* what ToArray has allocated for, or -1
    current,            \* the event the loop passes through the filters
    outcome, called,    \* of each event, and the filters that saw it by place
    expected,           \* history: added, when the loop came to the event
    altered             \* the object the last filter has returned is another one

filterVars == <<slots, adding, added, count, current, outcome, called, expected, altered>>

FiltersInit ==
    /\ slots = <<>> /\ adding = NoFilter /\ added = <<>>
    /\ count = -1 /\ current \in FilteredEvents
    /\ outcome = [e \in FilteredEvents |-> "queued"]
    /\ called = [e \in FilteredEvents |-> <<>>]
    /\ expected = [e \in FilteredEvents |-> <<>>]
    /\ altered = [e \in FilteredEvents |-> FALSE]

(* List.Add: the size first, the item after it. *)
GrowList(f) ==
    /\ adding = NoFilter /\ f \notin ToSet(slots)
    /\ adding' = f /\ slots' = Append(slots, NoFilter)
    /\ UNCHANGED <<added, count, current, outcome, called, expected, altered>>

StoreFilter ==
    /\ adding # NoFilter
    /\ slots' = [slots EXCEPT ![Len(slots)] = adding]
    /\ added' = Append(added, adding) /\ adding' = NoFilter
    /\ UNCHANGED <<count, current, outcome, called, expected, altered>>

(* filters.ToArray(): the Count, an array of that length, CopyTo. *)
CountFilters ==
    /\ count = -1 /\ outcome[current] = "queued"
    /\ count' = Len(slots)
    /\ expected' = [expected EXCEPT ![current] = added]
    /\ UNCHANGED <<slots, adding, added, current, outcome, called, altered>>

Rejects(f, e) == f # NoFilter /\ Verdict[f][e] = "null"

StopAtThrow(copy, e) ==         \* mutant: the exception leaves the loop over the filters
    {i \in DOMAIN copy :
        \A j \in 1 .. i - 1 : copy[j] # NoFilter => Verdict[copy[j]][e] \notin {"null", "throws"}}

(* The places of a copy that the loop comes to: up to the filter that      *)
(* returns null.  One that throws, as a slot without a filter does, is     *)
(* passed over.                                                            *)
Called(copy, e) == {i \in DOMAIN copy : \A j \in 1 .. i - 1 : ~Rejects(copy[j], e)}

(* TryExecuteFilter.  What is serialized is the item of the batch. *)
TryExecuteFilter ==
    /\ count = 0 \/ Len(slots) = count
    /\ LET copy == SubSeq(slots, 1, count)
           calls == Called(copy, current)
       IN  /\ called' = [called EXCEPT ![current] = [i \in {j \in calls : copy[j] # NoFilter} |-> copy[i]]]
           /\ outcome' = [outcome EXCEPT ![current] =
                  IF \E i \in calls : Rejects(copy[i], current) THEN "dropped" ELSE "serialized"]
           /\ altered' = [altered EXCEPT ![current] =
                  \E i \in calls : copy[i] # NoFilter /\ Verdict[copy[i]][current] = "other"]
    /\ count >= 0 /\ count' = -1
    /\ UNCHANGED <<slots, adding, added, current, expected>>

(* The array is too short for CopyTo: the ArgumentException is caught      *)
(* around the whole batch.                                                 *)
CopyFails ==
    /\ count > 0 /\ Len(slots) > count
    /\ outcome' = [e \in FilteredEvents |-> "lost"]
    /\ count' = -1
    /\ UNCHANGED <<slots, adding, added, current, called, expected, altered>>

NextItem(e) ==
    /\ count = -1 /\ outcome[current] # "queued" /\ outcome[e] = "queued"
    /\ current' = e
    /\ UNCHANGED <<slots, adding, added, count, outcome, called, expected, altered>>

(* PostAsync: nothing is posted before the last event has been serialized. *)
PostBatch ==
    /\ \A e \in FilteredEvents : outcome[e] \in {"serialized", "dropped"}
    /\ \E e \in FilteredEvents : outcome[e] = "serialized"
    /\ outcome' = [e \in FilteredEvents |-> IF outcome[e] = "serialized" THEN "posted" ELSE outcome[e]]
    /\ UNCHANGED <<slots, adding, added, count, current, called, expected, altered>>

FiltersNext ==
    \/ \E f \in Filters : GrowList(f)
    \/ StoreFilter \/ CountFilters \/ TryExecuteFilter \/ CopyFails \/ PostBatch
    \/ \E e \in FilteredEvents : NextItem(e)

FiltersSpec == FiltersInit /\ [][FiltersNext]_filterVars

-----------------------------------------------------------------------------
(* Agent.AddFilter: "if it returns null, the event will be dropped and     *)
(* won't be sent"; of every filter that was there when the loop came to    *)
(* the event, whatever the others do and whatever is added meanwhile.      *)
(* "Each filter callback is called in the order they are added", and none  *)
(* after the one that returned null.                                       *)
FiltersHonoured ==
    \A e \in FilteredEvents :
       /\ outcome[e] \in {"serialized", "posted"} =>
             \A i \in DOMAIN expected[e] :
                /\ ~Rejects(expected[e][i], e)
                /\ i \in DOMAIN called[e] /\ called[e][i] = expected[e][i]
       /\ \A i \in DOMAIN called[e] :
             /\ \A j \in DOMAIN called[e] : j < i => ~Rejects(called[e][j], e)
             /\ i \in DOMAIN added => called[e][i] = added[i]

(* "If the filter returns a non-null ITransaction instance then it will be *)
(* sent to the APM Server"; what is sent is the event as it was queued.    *)
ReturnedObjectIsSent ==
    \A e \in FilteredEvents : outcome[e] = "posted" => ~altered[e]

=============================================================================
