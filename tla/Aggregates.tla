----------------------------- MODULE Aggregates -----------------------------
(***************************************************************************)
(* How a request's aggregates (_count, _sum, _avg, _min, _max) are mapped  *)
(* to plan nodes (internal/planner/mapper/mapper.go) and what the nodes    *)
(* compute for one document (count.go, sum.go, average.go, max.go,         *)
(* min.go).  An average has no target of its own: the mapper gives it a    *)
(* count and a sum over the same items, reusing aggregates the consumer    *)
(* asked for where it finds a match, and the planner chains the nodes so   *)
(* that the last one in the list runs first.                               *)
(***************************************************************************)
EXTENDS Integers, Sequences, SequencesExt, TLC

CONSTANTS
    Requests,   \* requests: sequences of [name, target, keep]
    Selects,    \* relation selects the consumer also asked for
    Inline,     \* hosts that are inline arrays; the others are relations
    Data,       \* possible contents: functions from hosts to item sequences
    Nil         \* the null item, and an aggregate that has not run

VARIABLES
    request,    \* the consumer's aggregates
    data,       \* the items of each host on the document at hand
    aggs,       \* the mapper's list: [name, target, deps, keep]
    at,         \* the loop's position in aggs
    hosts,      \* the relation selects of the plan
    phase,      \* "append", "resolve", "run" or "done"
    value,      \* the virtual field of each aggregate
    yielded     \* whether the document passed every aggregate filter

vars == <<request, data, aggs, at, hosts, phase, value, yielded>>

(***************************************************************************)
(* A target is [host, child, filter, limit, order]: filter is a set of     *)
(* <<operator, operand>> pairs or NoFilter, limit is <<limit, offset>> or  *)
(* <<>>, order is "", "ASC" or "DESC".                                     *)
(***************************************************************************)
NoFilter == {<<"none", 0>>}

Holds(c, item) ==
    IF c[1] = "_neq" THEN item # c[2]
    ELSE IF c[1] = "_gt" THEN item # Nil /\ item > c[2]
    ELSE TRUE

Passes(filter, item) == \A c \in filter : Holds(c, item)

Below(a, b) == a = Nil \/ (b # Nil /\ a < b)

Ordered(order, items) ==
    IF order = "" THEN items
    ELSE SortSeq(items, LAMBDA a, b :
            IF order = "ASC" THEN a # b /\ Below(a, b) ELSE a # b /\ ~Below(a, b))

Windowed(limit, items) ==
    IF limit = <<>> THEN items
    ELSE SubSeq(items, limit[2] + 1,
                IF limit[1] + limit[2] < Len(items) THEN limit[1] + limit[2] ELSE Len(items))

(* What a relation's select (filter, order, limit nodes) yields, and what   *)
(* reduceItems and countItems keep of an inline array.                      *)
ItemsOf(t) ==
    Windowed(t.limit, Ordered(t.order,
        SelectSeq(data[t.host], LAMBDA i : Passes(t.filter, i))))

-----------------------------------------------------------------------------
(* The mapper *)

IsAverage(name) == name = "_avg"

appendNotNilFilter(t) ==
    [t EXCEPT !.filter = {c \in @ : c[1] \notin {"_neq", "none"}} \cup {<<"_neq", Nil>>}]

(* Mutant: an aggregate of the same name and host is taken for a match. *)
MatchAnyFilter(name, t, list) ==
    {i \in DOMAIN list : list[i].name = name /\ list[i].target.host = t.host}

tryGetMatchingAggregate(name, t, list) ==
    {i \in DOMAIN list :
        /\ list[i].name = name
        /\ list[i].target.host = t.host
        /\ list[i].target.child = t.child
        /\ list[i].target.filter = t.filter}

First(S) == CHOOSE i \in S : \A j \in S : i <= j

appendIfNotExists(name, i, list) ==
    LET found == tryGetMatchingAggregate(name, list[i].target, list)
        index == IF found = {} THEN Len(list) + 1 ELSE First(found)
        all == IF found = {}
               THEN Append(list, [name |-> name, target |-> list[i].target,
                                  deps |-> <<>>, keep |-> {}])
               ELSE list
    IN  [all EXCEPT ![i].deps = Append(@, index)]

appendUnderlyingAggregates ==
    /\ phase = "append"
    /\ IF at > Len(aggs)
       THEN phase' = "resolve" /\ at' = 1 /\ UNCHANGED aggs
       ELSE /\ aggs' = IF ~IsAverage(aggs[at].name) THEN aggs
                       ELSE appendIfNotExists("_sum", at,
                              appendIfNotExists("_count", at,
                                [aggs EXCEPT ![at].target = appendNotNilFilter(@)]))
            /\ at' = at + 1
            /\ UNCHANGED phase
    /\ UNCHANGED <<request, data, hosts, value, yielded>>

(* A relation select that serves the target: the same host, filter, limit   *)
(* and order.                                                               *)
tryGetTarget(t) ==
    {i \in DOMAIN hosts :
        /\ hosts[i].host = t.host
        /\ hosts[i].filter = t.filter
        /\ hosts[i].limit = t.limit
        /\ hosts[i].order = t.order}

resolveAggregates ==
    /\ phase = "resolve"
    /\ IF at > Len(aggs)
       THEN /\ phase' = "run"
            /\ at' = Len(aggs)
            /\ UNCHANGED hosts
       ELSE LET t == aggs[at].target IN
            /\ hosts' = IF t.host \in Inline \/ tryGetTarget(t) # {} THEN hosts
                        ELSE Append(hosts, t)
            /\ at' = at + 1
            /\ UNCHANGED phase
    /\ UNCHANGED <<request, data, aggs, value, yielded>>

-----------------------------------------------------------------------------
(* The nodes *)

(* The items a node finds on the document: an inline array is reduced under *)
(* the target's own filter, order and limit; a relation holds what its      *)
(* select yielded.                                                          *)
Source(t) ==
    IF t.host \in Inline THEN ItemsOf(t) ELSE ItemsOf(hosts[First(tryGetTarget(t))])

CountOf(t) == Len(Source(t))

SumOf(t) == FoldLeft(LAMBDA sum, i : IF i = Nil THEN sum ELSE sum + i, 0, Source(t))

(* Over an inline array a null item leaves the running maximum alone; over  *)
(* related documents it clears it.                                          *)
MaxOf(t) ==
    FoldLeft(LAMBDA max, i :
                IF i = Nil THEN (IF t.host \in Inline THEN max ELSE Nil)
                ELSE IF max = Nil \/ i > max THEN i ELSE max, Nil, Source(t))

MinOf(t) ==
    FoldLeft(LAMBDA min, i :
                IF i = Nil THEN (IF t.host \in Inline THEN min ELSE Nil)
                ELSE IF min = Nil \/ i < min THEN i ELSE min, Nil, Source(t))

(* An average is kept as the pair of its sum and count. *)
AverageOf(a) ==
    LET count == value[a.deps[1]]
        sum == value[a.deps[2]]
    IN  IF count \in {Nil, 0} \/ sum = Nil THEN <<0, 1>> ELSE <<sum, count>>

Compute(a) ==
    IF a.name = "_count" THEN CountOf(a.target)
    ELSE IF a.name = "_sum" THEN SumOf(a.target)
    ELSE IF a.name = "_max" THEN MaxOf(a.target)
    ELSE IF a.name = "_min" THEN MinOf(a.target)
    ELSE AverageOf(a)

(* averageNode.Next returns before it runs its filter when there is nothing *)
(* to average.                                                              *)
SkipsFilter(a) ==
    IsAverage(a.name) /\ (value[a.deps[1]] \in {Nil, 0} \/ value[a.deps[2]] = Nil)

(* The aggregate's own filter, on the number it computed. *)
Keeps(a, v) ==
    \A c \in a.keep :
        IF IsAverage(a.name) THEN v[1] > c[2] * v[2]
        ELSE c[1] = "_gt" => v # Nil /\ v > c[2]

(* expandAggregatePlans and Top chain the nodes from the back of the list;  *)
(* a node whose filter fails moves on to the next document.                 *)
RunNode ==
    /\ phase = "run"
    /\ IF at = 0 \/ ~yielded
       THEN phase' = "done" /\ UNCHANGED <<at, value, yielded>>
       ELSE LET a == aggs[at]
                v == Compute(a) IN
            /\ value' = [value EXCEPT ![at] = v]
            /\ yielded' = (SkipsFilter(a) \/ Keeps(a, v))
            /\ at' = at - 1
            /\ UNCHANGED phase
    /\ UNCHANGED <<request, data, aggs, hosts>>

MaxAggregates == 9

Init ==
    /\ request \in Requests
    /\ data \in Data
    /\ hosts \in Selects
    /\ aggs = [i \in DOMAIN request |->
                 [name |-> request[i].name, target |-> request[i].target,
                  deps |-> <<>>, keep |-> request[i].keep]]
    /\ at = 1
    /\ phase = "append"
    /\ value = [i \in 1..MaxAggregates |-> Nil]
    /\ yielded = TRUE

Ended == phase = "done" /\ UNCHANGED vars

Next == appendUnderlyingAggregates \/ resolveAggregates \/ RunNode \/ Ended

Spec == Init /\ [][Next]_vars

-----------------------------------------------------------------------------
(* Reference: what the request asks for *)

Numbers(items) == SelectSeq(items, LAMBDA i : i # Nil)

SumNumbers(items) == FoldLeft(LAMBDA s, i : s + i, 0, Numbers(items))

Largest(items) ==
    LET S == Range(Numbers(items))
    IN  IF S = {} THEN Nil ELSE CHOOSE x \in S : \A y \in S : y <= x

Smallest(items) ==
    LET S == Range(Numbers(items))
    IN  IF S = {} THEN Nil ELSE CHOOSE x \in S : \A y \in S : x <= y

AskedFor(r) ==
    LET items == ItemsOf(r.target)
        averaged == ItemsOf([r.target EXCEPT !.filter = @ \cup {<<"_neq", Nil>>}])
    IN  IF r.name = "_count" THEN Len(items)
        ELSE IF r.name = "_sum" THEN SumNumbers(items)
        ELSE IF r.name = "_max" THEN Largest(items)
        ELSE IF r.name = "_min" THEN Smallest(items)
        ELSE IF averaged = <<>> THEN <<0, 1>>
        ELSE <<SumNumbers(averaged), Len(averaged)>>

-----------------------------------------------------------------------------
(* An average could be given an aggregate the consumer asked for: one that  *)
(* stands before it in the list, or one with another window of the items.   *)
Borrows(i, j) ==
    LET avg == appendNotNilFilter(request[i].target)
        other == IF IsAverage(request[j].name)
                 THEN appendNotNilFilter(request[j].target) ELSE request[j].target
    IN  /\ IsAverage(request[i].name)
        /\ request[j].name \in {"_count", "_sum", "_avg"}
        /\ other.host = avg.host /\ other.child = avg.child /\ other.filter = avg.filter
        /\ \/ j < i /\ ~IsAverage(request[j].name)
           \/ other.limit # avg.limit \/ other.order # avg.order

(* An average over a filter that already says _neq loses that condition. *)
LosesCondition(r) == IsAverage(r.name) /\ \E c \in r.target.filter : c[1] = "_neq"

(* A null among related documents restarts a maximum or minimum. *)
MeetsNull(r) ==
    /\ r.name \in {"_max", "_min"} /\ r.target.host \notin Inline
    /\ \E i \in DOMAIN data[r.target.host] : data[r.target.host][i] = Nil

(* None of the three. *)
Separate ==
    /\ \A i, j \in DOMAIN request : i # j => ~Borrows(i, j)
    /\ \A i \in DOMAIN request : ~LosesCondition(request[i]) /\ ~MeetsNull(request[i])

HasAskedFor(i) == phase = "done" /\ yielded => value[i] = AskedFor(request[i])

(* In a request whose averages borrow no aggregate of the consumer's that   *)
(* stands before them or has another window (Borrows), lose no _neq of      *)
(* theirs, and with no null under a maximum or minimum over a relation,     *)
(* each aggregate ends with the value of its own target: relation selects   *)
(* shared between aggregates and with the consumer (tryGetTarget), counts   *)
(* and sums shared between averages (tryGetMatchingAggregate), and a null   *)
(* dropped by an average's own filter do not show.                          *)
ValuesAsRequested == Separate => \A i \in DOMAIN request : HasAskedFor(i)

(* In such a request, a document leaves the chain exactly when the values   *)
(* the request asks for satisfy its aggregate filters, an average over      *)
(* nothing counting as satisfied (averageNode.Next returns before its       *)
(* filter).                                                                 *)
FiltersDecide ==
    (phase = "done" /\ Separate) =>
        (yielded <=> \A i \in DOMAIN request :
            LET v == AskedFor(request[i])
            IN  Keeps(request[i], v) \/ (IsAverage(request[i].name) /\ v = <<0, 1>>))

-----------------------------------------------------------------------------
(* What the code does not keep. *)

(* An average runs after the count and the sum it depends on: "Iterate      *)
(* through the aggregates backwards to ensure dependencies execute *before* *)
(* any aggregate dependent on them" (planner.go:281).  The list holds a     *)
(* borrowed aggregate where the consumer wrote it, maybe before the average *)
(* that tryGetMatchingAggregate gives it to (mapper.go:1905).               *)
DependenciesFirst ==
    \A i \in DOMAIN aggs :
        (phase = "run" /\ i > at) => \A d \in Range(aggs[i].deps) : d > at

(* An average is that of its own target, whatever stands beside it: that    *)
(* of a borrowed count or sum which has not run is the one of nothing, and  *)
(* that of one with another window is of other items.                       *)
AveragesStandAlone ==
    \A i \in DOMAIN request :
        IsAverage(request[i].name) /\ ~LosesCondition(request[i]) => HasAskedFor(i)

(* The maximum and minimum over related documents pass over a null, as they *)
(* do over an inline array (max.go, min.go).                                *)
NullsPassedOver ==
    \A i \in DOMAIN request : request[i].name \in {"_max", "_min"} => HasAskedFor(i)
=============================================================================
