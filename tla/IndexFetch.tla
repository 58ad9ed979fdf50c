---------------------------- MODULE IndexFetch ----------------------------
(***************************************************************************)
(* Fetching the documents of a select: which index the planner takes, what *)
(* iterator the index fetcher builds from the filter, and the fetchers     *)
(* (deleted documents, access control, filter) it is wrapped in.           *)
(*                                                                         *)
(* An index is [fields, unique], its fields being [name, desc].  An index  *)
(* entry is [vals, doc, full]: the values of the indexed fields, the       *)
(* document, and whether the document's ID is part of the key (it is not   *)
(* in a unique index when no value is nil).  Conditions that Go reads out  *)
(* of a map are met in any order.  Array and JSON fields are left out.     *)
(***************************************************************************)
EXTENDS Filters

CONSTANTS
  Requests,    \* [filter, order, docIDs, showDeleted]; filter and docIDs may be Nil
  Definitions, \* sequences of indexes, in the order of their names
  Datasets     \* functions from document IDs to [vals, live, readable]

VARIABLES
  request, indexes, docs,
  index,       \* scanNode.index, or Nil
  top,         \* document IDs the top fetcher is still going to yield
  deleted,     \* deleted documents the second child of the multiFetcher has left
  crash,       \* does asking for more than top crash
  out,         \* the documents the select has yielded
  phase

vars == <<request, indexes, docs, index, top, deleted, crash, out, phase>>

-----------------------------------------------------------------------------
(* The entries of an index. *)

\* The order of encoded values: nil first, all reversed in a descending field.
Below(v, w, desc) ==
  LET less(x, y) == y # Nil /\ (x = Nil \/ x.n < y.n)
  IN  IF desc THEN less(w, v) ELSE less(v, w)

KeyBelow(ix, e, g) ==
  \/ \E i \in DOMAIN ix.fields :
       /\ Below(e.vals[i], g.vals[i], ix.fields[i].desc)
       /\ \A j \in 1..(i - 1) : e.vals[j] = g.vals[j]
  \/ e.vals = g.vals /\ e.doc < g.doc

Names(ix) == {ix.fields[i].name : i \in DOMAIN ix.fields}

EntryOf(ix, d) ==
  LET vals == [i \in DOMAIN ix.fields |-> docs[d].vals[ix.fields[i].name]]
  IN  [vals |-> vals, doc |-> d,
       full |-> ~ix.unique \/ \E i \in DOMAIN vals : vals[i] = Nil]

Live == {d \in DOMAIN docs : docs[d].live}

Entries(ix) == {EntryOf(ix, d) : d \in Live}

\* The store's iterator over some entries of an index, in the order of keys.
Iterate(ix, entries, reverse) ==
  LET s == SetToSortSeq(entries, LAMBDA e, g : KeyBelow(ix, e, g))
  IN  IF reverse THEN Reverse(s) ELSE s

-----------------------------------------------------------------------------
(* Choosing an index: planner/index_helpers.go and fetcher/indexer.go. *)

\* CanBeOrderedByIndex.
Mismatches(order, ix) == {i \in DOMAIN order : ix.fields[i].desc # order[i].desc}

CanBeOrderedByIndex(order, ix) ==
  /\ order # <<>>
  /\ Len(order) <= Len(ix.fields)
  /\ \A i \in DOMAIN order : ix.fields[i].name = order[i].name
  /\ Mismatches(order, ix) \in {{}, DOMAIN order}

\* The index is read backwards when every direction differs.
Reversed(order, ix) == CanBeOrderedByIndex(order, ix) /\ Mismatches(order, ix) # {}

\* The first of the indexes that are fit, if there is one.
First(ixs, fit) ==
  LET s == SelectSeq(ixs, LAMBDA ix : ix \in fit) IN IF s = <<>> THEN Nil ELSE s[1]

findIndexByFilter(ixs, f) ==
  IF f = Nil THEN Nil
  ELSE First(ixs, {ix \in Range(ixs) : ix.fields[1].name \in Mentions(f)})

findIndexForOrdering(ixs, order) ==
  First(ixs, {ix \in Range(ixs) : CanBeOrderedByIndex(order, ix)})

selectIndex(ixs, f, order) ==
  LET byFilter == findIndexByFilter(ixs, f)
  IN  IF byFilter # Nil THEN byFilter ELSE findIndexForOrdering(ixs, order)

\* The "_or" at the root of a filter, if it has one.
Ors(m) == SelectSeq(m, LAMBDA e : e.k = "_or")

hasOrWithMultipleFields(m, ix) ==
  Ors(m) # <<>> /\ \E b \in Range(Ors(m)[1].v) : ~(Mentions(b) \subseteq Names(ix))

-----------------------------------------------------------------------------
(* The condition on each field of the index: indexer_iterators.go. *)

On == [on |-> TRUE, c |-> <<>>]
Stop(c) == [on |-> FALSE, c |-> c]

shouldFallbackToFullScan(op, v) == op = "_geq" /\ v = Nil

\* The values of "_in" and "_nin" are made an array by the type of the first.
HasNormalValue(op, v) == op \in {"_in", "_nin"} => v # <<>> /\ v[1] # Nil

\* What TraverseProperties may come to in m, looking for field f: it stops at a
\* property of that name with one of its operators, whichever comes first.
RECURSIVE Traverse(_, _), TraverseEach(_, _)
Traverse(m, f) ==
  LET meet(e) ==
        CASE e.k = f -> IF e.v = <<>> THEN {Stop(<<>>)}
                        ELSE {IF shouldFallbackToFullScan(c.k, c.v) THEN On
                              ELSE Stop(IF HasNormalValue(c.k, c.v) THEN <<c>> ELSE <<>>)
                              : c \in Range(e.v)}
          [] e.k \in {"_and", "_or"} -> TraverseEach(e.v, f)
          [] OTHER -> {On}
      met == {meet(m[i]) : i \in DOMAIN m}
  IN  ((UNION met) \ {On}) \cup (IF \A s \in met : On \in s THEN {On} ELSE {})

TraverseEach(ms, f) ==
  IF ms = <<>> THEN {On}
  ELSE LET first == Traverse(Head(ms), f)
       IN  IF On \in first THEN (first \ {On}) \cup TraverseEach(Tail(ms), f) ELSE first

AnyValue == Entry("_any", Nil)

\* determineFieldFilterConditions: the possible conditions, one for each field
\* of the index, or none at all when the first field has none.
Determine(ix, m) ==
  LET found(i) == {o.c : o \in Traverse(m, ix.fields[i].name)}
      cond(i)  == {IF c = <<>> THEN AnyValue ELSE c[1] : c \in found(i)}
      n        == Len(ix.fields)
  IN  (IF <<>> \in found(1) THEN {<<>>} ELSE {})
      \cup {c \in [1..n -> UNION {cond(i) : i \in 1..n}] :
              /\ <<c[1]>> \in found(1)
              /\ \A i \in 2..n : c[i] \in cond(i)}

\* createValueMatcher.  A nil condition asks for nil with "_eq" and for a value
\* with every other operator; nil passes no comparison with a value but "_neq".
Matches(c, v) ==
  CASE c.k = "_any" -> TRUE
    [] c.k \notin {"_any", "_in", "_nin"} /\ c.v = Nil -> (v = Nil) = (c.k = "_eq")
    [] OTHER -> Compare(c.k, c.v, v)

AllMatch(ix, cs, from, e) == \A i \in from..Len(ix.fields) : Matches(cs[i], e.vals[i])

\* isUniqueFetchByFullKey.
isUniqueFetchByFullKey(ix, cs) ==
  /\ ix.unique
  /\ cs[1].k = "_eq" => cs[1].v # Nil
  /\ \A i \in 2..Len(cs) : cs[i].k = "_eq" /\ cs[i].v # Nil

\* eqSingleIndexIterator: a key without a document ID.
EqSingle(ix, cs, first) ==
  Iterate(ix, {e \in Entries(ix) :
                 /\ ~e.full
                 /\ e.vals = [i \in DOMAIN cs |-> IF i = 1 THEN first ELSE cs[i].v]}, FALSE)

\* newPrefixBasedMatchIteratorFromConditions: the keys under the leading "_eq"s.
\* The first matcher is only left out of an index of several fields.
PrefixBased(ix, cs, order) ==
  LET lead == {i \in DOMAIN cs : \A j \in 1..i : cs[j].k = "_eq"}
  IN  Iterate(ix, {e \in Entries(ix) : /\ \A i \in lead : e.vals[i] = cs[i].v
                                       /\ AllMatch(ix, cs, IF Len(cs) > 1 THEN 2 ELSE 1, e)},
              Reversed(order, ix))

\* createRangeBoundaries: from or up to the value of the first condition.
RangeBased(ix, cs, order) ==
  LET v == cs[1].v
      within(w) == CASE cs[1].k = "_gt"  -> Below(v, w, FALSE)
                     [] cs[1].k = "_geq" -> ~Below(w, v, FALSE)
                     [] cs[1].k = "_lt"  -> Below(w, v, FALSE)
                     [] cs[1].k = "_leq" -> ~Below(v, w, FALSE)
  IN  Iterate(ix, {e \in Entries(ix) : within(e.vals[1]) /\ AllMatch(ix, cs, 2, e)},
              Reversed(order, ix))

\* newMultiIndexIteratorForInOp: one iterator for each value of the list.
InBased(ix, cs) ==
  LET each(v) == IF isUniqueFetchByFullKey(ix, cs) THEN EqSingle(ix, cs, v)
                 ELSE Iterate(ix, {e \in Entries(ix) :
                                     /\ e.vals[1] = v
                                     /\ AllMatch(ix, cs, IF Len(cs) > 1 THEN 2 ELSE 1, e)},
                              FALSE)
  IN  FlattenSeq([i \in DOMAIN cs[1].v |-> each(cs[1].v[i])])

\* createIteratorFromConditions.
FromConditions(ix, cs, order) ==
  CASE cs[1].k = "_eq" -> IF isUniqueFetchByFullKey(ix, cs) THEN EqSingle(ix, cs, cs[1].v)
                          ELSE PrefixBased(ix, cs, order)
    [] cs[1].k \in {"_gt", "_geq", "_lt", "_leq"} -> RangeBased(ix, cs, order)
    [] cs[1].k = "_in" -> InBased(ix, cs)
    [] OTHER -> PrefixBased(ix, cs, order)

NoIterator == [some |-> FALSE, docs |-> <<>>, crash |-> FALSE]
Iterator(es) == [some |-> TRUE, docs |-> [i \in DOMAIN es |-> es[i].doc], crash |-> FALSE]

\* Mutant: an iterator over the branches of an "_or" does not remember what it
\* has yielded.
Forgets(i) == i

\* memorizingIndexIterator: each document once.
Memorizing(i) ==
  [i EXCEPT !.docs = FoldLeft(LAMBDA seen, d : IF d \in Range(seen) THEN seen ELSE Append(seen, d),
                              <<>>, i.docs)]

\* createIndexIterator: the documents the iterator it may build will yield.  A
\* branch of an "_or" is asked twice for its conditions, to see whether it has
\* any and to iterate; the iterator over the branches crashes on a branch that
\* yields no iterator.
RECURSIVE createIndexIterator(_, _, _), OverBranches(_, _, _)
createIndexIterator(ix, m, order) ==
  IF m # Nil /\ Ors(m) # <<>>
  THEN LET bs == Ors(m)[1].v
           usable == \A i \in DOMAIN bs : \E cs \in Determine(ix, bs[i]) : cs # <<>>
           unusable == \E i \in DOMAIN bs : <<>> \in Determine(ix, bs[i])
       IN  (IF usable THEN {Memorizing(i) : i \in OverBranches(ix, bs, order)} ELSE {})
           \cup (IF unusable THEN {NoIterator} ELSE {})
  ELSE {IF cs # <<>> THEN Iterator(FromConditions(ix, cs, order))
        ELSE IF CanBeOrderedByIndex(order, ix)
        THEN Iterator(Iterate(ix, Entries(ix), Reversed(order, ix)))
        ELSE NoIterator
        : cs \in IF m = Nil THEN {<<>>} ELSE Determine(ix, m)}

OverBranches(ix, bs, order) ==
  IF bs = <<>> THEN {Iterator(<<>>)}
  ELSE UNION {IF ~i.some THEN {[i EXCEPT !.some = TRUE, !.crash = TRUE]}
              ELSE IF i.crash THEN {i}
              ELSE {[j EXCEPT !.docs = i.docs \o j.docs] : j \in OverBranches(ix, Tail(bs), order)}
              : i \in createIndexIterator(ix, Head(bs), order)}

\* newIndexFetcher.
newIndexFetcher(ix, f, order) ==
  IF f # Nil /\ hasOrWithMultipleFields(f, ix) THEN {NoIterator}
  ELSE createIndexIterator(ix,
         FoldLeft(LAMBDA g, x : Merge(g, IF f = Nil THEN Nil ELSE CopyField(f, x.name)),
                  Nil, ix.fields),
         order)

-----------------------------------------------------------------------------
(* The fetchers: wrapper.go, prefix.go, multi.go, permissioned.go,          *)
(* filtered.go.                                                             *)

Ascending(S) == SetToSortSeq(S, LAMBDA d, e : d < e)

\* prefixFetcher: the documents asked for by ID, or all, in the order of IDs.
Scanned(S) ==
  Ascending(IF request.docIDs \in {Nil, {}} THEN S ELSE S \cap request.docIDs)

\* Start: of the index iterator when there is one, of a scan otherwise.
Start ==
  /\ phase = "plan"
  /\ index' = selectIndex(indexes, request.filter, request.order)
  /\ \E i \in IF index' = Nil THEN {NoIterator}
              ELSE newIndexFetcher(index', request.filter, request.order) :
       /\ top' = IF i.some THEN i.docs ELSE Scanned(Live)
       /\ crash' = i.crash
  /\ deleted' = IF request.showDeleted THEN Scanned(DOMAIN docs \ Live) ELSE <<>>
  /\ phase' = "fetch"
  /\ UNCHANGED <<request, indexes, docs, out>>

\* The multiFetcher's choice between the next document of its two children.
FromDeleted == deleted # <<>> /\ (top = <<>> \/ deleted[1] < top[1])

Chosen == IF FromDeleted THEN deleted[1] ELSE top[1]

\* permissionedFetcher over a multiFetcher, which holds a document it has chosen
\* until its fields are read: the next document of the caller's is the same one.
\* Over any other fetcher it goes on to the next.
Spins == request.showDeleted /\ ~docs[Chosen].readable

\* filteredFetcher and selectNode: is the fetched document yielded.
Yielded(d) ==
  /\ docs[d].readable
  /\ Passes(request.filter, docs[d].vals)
  /\ request.docIDs # Nil => d \in request.docIDs

FetchNext ==
  /\ phase = "fetch"
  /\ top # <<>> \/ (deleted # <<>> /\ ~crash)
  /\ IF Spins THEN phase' = "spins" /\ UNCHANGED <<top, deleted, out>>
     ELSE /\ out' = IF Yielded(Chosen) THEN Append(out, Chosen) ELSE out
          /\ IF FromDeleted THEN deleted' = Tail(deleted) /\ UNCHANGED top
             ELSE top' = Tail(top) /\ UNCHANGED deleted
          /\ UNCHANGED phase
  /\ UNCHANGED <<request, indexes, docs, index, crash>>

Exhausted ==
  /\ phase = "fetch"
  /\ top = <<>>
  /\ deleted = <<>> \/ crash
  /\ phase' = IF crash THEN "panic" ELSE "done"
  /\ UNCHANGED <<request, indexes, docs, index, top, deleted, crash, out>>

Init ==
  /\ request \in Requests
  /\ indexes \in Definitions
  /\ docs \in Datasets
  /\ index = Nil
  /\ top = <<>>
  /\ deleted = <<>>
  /\ crash = FALSE
  /\ out = <<>>
  /\ phase = "plan"

Ended == phase \in {"done", "panic", "spins"} /\ UNCHANGED vars

Next == Start \/ FetchNext \/ Exhausted \/ Ended

Spec == Init /\ [][Next]_vars

-----------------------------------------------------------------------------
(* Properties. *)

\* What m itself and the maps inside its operators say of fields.
RECURSIVE FieldConditions(_)
FieldConditions(m) ==
  FlattenSeq([i \in DOMAIN m |->
    CASE m[i].k \in {"_and", "_or"} ->
           FlattenSeq([j \in DOMAIN m[i].v |-> FieldConditions(m[i].v[j])])
      [] m[i].k = "_not" -> FieldConditions(m[i].v)
      [] OTHER -> [j \in DOMAIN m[i].v |-> [field |-> m[i].k, op |-> m[i].v[j].k, v |-> m[i].v[j].v]]])

Sets(m, P(_)) == SelectSeq(FieldConditions(m), P) # <<>>

\* An "_or" inside an "_and" or another "_or".
RECURSIVE InnerOr(_)
InnerOr(m) ==
  \E i \in DOMAIN m :
    /\ m[i].k \in {"_and", "_or"}
    /\ \E j \in DOMAIN m[i].v : Ors(m[i].v[j]) # <<>> \/ InnerOr(m[i].v[j])

Wanted ==
  {d \in DOMAIN docs : (docs[d].live \/ request.showDeleted) /\ Yielded(d)}

\* The filters an index is not equal to: an "_or" that is not at the root or
\* beside conditions on several fields of the index (its copies for each field
\* are merged as if they all had to hold), a list that repeats a value, a list with nil on a unique index, and "_leq" nil
\* on a field of an index that is not its first.
Unfaithful ==
  /\ index # Nil
  /\ request.filter # Nil
  /\ \/ InnerOr(request.filter)
     \/ /\ Ors(request.filter) # <<>>
        /\ Cardinality(Mentions(request.filter) \cap Names(index)) > 1
     \/ Sets(request.filter, LAMBDA c :
          \/ /\ c.op = "_in"
             /\ c.field = index.fields[1].name
             /\ \/ Cardinality(Range(c.v)) # Len(c.v)
                \/ index.unique /\ Nil \in Range(c.v)
          \/ /\ c.op = "_leq"
             /\ c.v = Nil
             /\ c.field \in Names(index) \ {index.fields[1].name})

\* A select yields every document that is there, that the caller may read and
\* that passes the filter, once each, whichever index the planner takes and
\* whatever iterator is built from the filter; the named filters excepted.
FetchesAsAsked ==
  phase = "done" /\ ~Unfaithful => Range(out) = Wanted /\ Len(out) = Cardinality(Wanted)

\* A select yields every document that passes the filter, whatever the filter:
\* the index sees the whole of an "_or" or is not used (indexer.go).
FetchesAsAskedAlways == phase = "done" => Wanted \subseteq Range(out)

InOrder(s, order) ==
  \A i, j \in DOMAIN s : i < j =>
    ~\E k \in DOMAIN order :
       /\ Below(docs[s[j]].vals[order[k].name], docs[s[i]].vals[order[k].name], order[k].desc)
       /\ \A l \in 1..(k - 1) :
            docs[s[j]].vals[order[l].name] = docs[s[i]].vals[order[l].name]

\* Where the planner leaves the order node out because the index takes over the
\* ordering, the documents come in the order asked for.  It does not hold for a
\* filter with "_or" or "_in", whose iterators go value by value, nor when
\* deleted documents are merged in.
OrderedByIndex ==
  /\ phase = "done"
  /\ index # Nil
  /\ CanBeOrderedByIndex(request.order, index)
  /\ ~request.showDeleted
  /\ request.filter # Nil =>
       /\ Ors(request.filter) = <<>>
       /\ ~InnerOr(request.filter)
       /\ ~Sets(request.filter, LAMBDA c : c.op = "_in")
  => InOrder(out, request.order)

\* The same, whatever the filter.
OrderedByIndexAlways ==
  phase = "done" /\ index # Nil /\ CanBeOrderedByIndex(request.order, index)
  => InOrder(out, request.order)

\* No filter makes the fetcher crash.
NoCrash == phase # "panic"

\* A fetch ends: no document makes the fetchers ask for it again and again.
FetchEnds == phase # "spins"
=============================================================================
