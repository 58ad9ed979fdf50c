--------------------------- MODULE CollectionSets ---------------------------
(***************************************************************************)
(* How new collections get their identifiers (internal/db/collection_id).  *)
(*                                                                         *)
(* The ID of a collection is made from its definition, and the definition  *)
(* holds the IDs of the collections it has primary relations to.           *)
(* Collections that refer to each other in a circle cannot name each       *)
(* other's IDs: they are grouped into a set and name their place in it.    *)
(* The sets are then sorted so that what is referred to is saved first.    *)
(*                                                                         *)
(* Go walks its maps in any order, which the model leaves open.  An ID is  *)
(* modelled by what it is made from: the definition, and the heads that    *)
(* AddDelta finds under the collection's name and links the block to.      *)
(***************************************************************************)
EXTENDS Integers, Sequences, FiniteSets, SequencesExt, TLC

CONSTANTS Names,    \* the names of collections: numbers, for they are sorted
          Longer,   \* for each name, the names that begin with it ("User": "Users")
          Graphs,   \* for each collection, the names its primary relations refer to
          Nil       \* no ID yet

VARIABLES graph,      \* the primary relations, in the order of the fields
          operations, \* the operations that add the collections, each a set of names
          relations,  \* collectionsWithRelations
          sets,       \* the collection sets, in order
          index,      \* how many of them are sorted
          ids,        \* the IDs given so far
          phase

vars == <<graph, operations, relations, sets, index, ids, phase>>

New == Head(operations)

\* Every collection that refers to others, with the names it refers to.
WithRelations(names) ==
  [n \in {m \in names : graph[m] # <<>>} |-> graph[n]]

Upward(names) == SetToSortSeq(names, <)

\* What an operation's collections refer to is in the operation or was added before.
Closed(g, ops) ==
  \A i \in DOMAIN ops :
    \A n \in ops[i] : Range(g[n]) \subseteq UNION {ops[j] : j \in 1..i}

Operations == {<<Names>>} \cup {<<S, Names \ S>> : S \in (SUBSET Names) \ {{}, Names}}

Init == /\ graph \in {[n \in Names |-> IF up THEN Upward(g[n]) ELSE Reverse(Upward(g[n]))] :
                        g \in Graphs, up \in BOOLEAN}
        /\ operations \in {ops \in Operations : Closed(graph, ops)}
        /\ relations = WithRelations(Head(operations))
        /\ sets = <<>>
        /\ index = 0
        /\ ids = [n \in Names |-> Nil]
        /\ phase = "strip"

-----------------------------------------------------------------------------
(* getCollectionSets.                                                      *)

Dead(n) == {i \in DOMAIN relations[n] : relations[n][i] \notin DOMAIN relations}

\* A collection loses the first of its relations that leads nowhere, and goes with
\* the last of them.
Strip(n) ==
  LET first == CHOOSE i \in Dead(n) : \A j \in Dead(n) : i <= j
      rest == RemoveAt(relations[n], first)
  IN  /\ phase = "strip"
      /\ Dead(n) # {}
      /\ relations' = IF rest = <<>>
                        THEN [m \in DOMAIN relations \ {n} |-> relations[m]]
                        ELSE [relations EXCEPT ![n] = rest]
      /\ UNCHANGED <<graph, operations, sets, index, ids, phase>>

RECURSIVE Reaches(_, _, _)

\* The names met on the way from "from", without those behind the original.
Reaches(original, from, hit) ==
  IF from \in hit \/ from = original THEN hit \cup {from}
  ELSE FoldLeft(LAMBDA acc, r : Reaches(original, r, acc), hit \cup {from}, relations[from])

\* Mutant: only relations straight back are noticed.
circlesStraightBack(original, current) ==
  original = current \/ original \in Range(relations[current])

circlesBack(original, current) == original \in Reaches(original, current, {})

RECURSIVE mapCollectionSetIDs(_, _)

\* s holds the largest set ID so far, the IDs assigned and the collections processed.
mapCollectionSetIDs(s, name) ==
  IF name \in s.processed THEN s
  ELSE FoldLeft(LAMBDA acc, r :
           LET back == circlesBack(name, r)
               known == r \in DOMAIN acc.ids
               opens == ~known /\ (back => name \notin DOMAIN acc.ids)
               i == IF opens THEN acc.i + 1 ELSE acc.i
               circle == IF known THEN acc.ids[r] ELSE IF opens THEN i ELSE acc.ids[name]
               named == IF back /\ ~known THEN (name :> circle) @@ acc.ids ELSE acc.ids
           IN  mapCollectionSetIDs([acc EXCEPT !.i = i, !.ids = (r :> circle) @@ named], r),
         [s EXCEPT !.processed = @ \cup {name}], relations[name])

\* Each ID is a set, and each collection without one is a set of its own; the sets
\* come out of a map.
Group ==
  LET all == FoldLeft(LAMBDA acc, n : mapCollectionSetIDs(acc, n), 
                      [i |-> 0, ids |-> <<>>, processed |-> {}], Upward(DOMAIN relations)).ids
      grouped == {{n \in DOMAIN all : all[n] = all[m]} : m \in DOMAIN all}
      single == {{n} : n \in New \ DOMAIN all}
  IN  /\ phase = "strip"
      /\ \A n \in DOMAIN relations : Dead(n) = {}
      /\ sets' \in SetToSeqs(grouped \cup single)
      /\ index' = 0
      /\ phase' = "sort"
      /\ UNCHANGED <<graph, operations, relations, ids>>

-----------------------------------------------------------------------------
(* sortCollectionSetsFrom, one pass of its recursion.                      *)

\* A relation to a set of this operation that is not sorted yet.
Deferred(set) ==
  \E n \in set : \E r \in Range(graph[n]) :
    /\ r \notin set
    /\ r \notin UNION {sets[j] : j \in 1..index}
    /\ r \in New

SortPass ==
  LET later == [j \in 1..(Len(sets) - index) |-> index + j]
      put == SelectSeq(later, LAMBDA j : ~Deferred(sets[j]))
      off == SelectSeq(later, LAMBDA j : Deferred(sets[j]))
      pick(js) == [k \in DOMAIN js |-> sets[js[k]]]
  IN  /\ phase = "sort"
      /\ sets' = SubSeq(sets, 1, index) \o pick(put) \o pick(off)
      /\ index' = IF off = <<>> THEN 0 ELSE index + Len(put)
      /\ phase' = IF off = <<>> THEN "save" ELSE IF put = <<>> THEN "endless" ELSE "sort"
      /\ UNCHANGED <<graph, operations, relations, ids>>

-----------------------------------------------------------------------------
(* setCollectionIDs saves the sets one after the other.                    *)

\* substituteRelationFieldKinds: a place in the set, or the ID of the other.
Kind(set, r, known) ==
  IF r \notin set THEN <<"collection", known[r]>>
  ELSE IF Cardinality(set) = 1 THEN <<"self", 0>>
  ELSE <<"self", CHOOSE i \in 1..Len(Upward(set)) : Upward(set)[i] = r>>

\* AddDelta lists the heads under /g/<name>, with no end to the name: those of
\* longer names are among them.  The block has the next height and links to them.
HeadsFound(n, known) == {known[m] : m \in {l \in Longer[n] : known[l] # Nil}}

IDFrom(n, set, known) ==
  [name |-> n, kinds |-> [i \in DOMAIN graph[n] |-> Kind(set, graph[n][i], known)],
   heads |-> HeadsFound(n, known)]

\* A set is saved in the order of its names, so that a longer name comes later.
saveBlocks ==
  /\ phase = "save"
  /\ index < Len(sets)
  /\ ids' = [n \in Names |-> IF n \in sets[index + 1]
                               THEN IDFrom(n, sets[index + 1], ids) ELSE ids[n]]
  /\ index' = index + 1
  /\ UNCHANGED <<graph, operations, relations, sets, phase>>

\* The next operation finds these collections there.
NextOperation ==
  /\ phase = "save"
  /\ index = Len(sets)
  /\ operations' = Tail(operations)
  /\ phase' = IF Len(operations) = 1 THEN "done" ELSE "strip"
  /\ relations' = IF Len(operations) = 1 THEN <<>> ELSE WithRelations(operations[2])
  /\ sets' = <<>>
  /\ index' = 0
  /\ UNCHANGED <<graph, ids>>

Next == \/ \E n \in DOMAIN relations : Strip(n)
        \/ Group \/ SortPass \/ saveBlocks \/ NextOperation

Spec == Init /\ [][Next]_vars

-----------------------------------------------------------------------------
(* Properties.                                                             *)

RECURSIVE Behind(_, _)

\* Everything that can be reached along relations.
Behind(n, seen) ==
  FoldLeft(LAMBDA acc, r : IF r \in acc THEN acc ELSE Behind(r, acc \cup {r}),
           seen, graph[n])

Circle(n) == {n} \cup {m \in Behind(n, {}) : n \in Behind(m, {})}

\* Two new collections are in one set exactly when each refers to the other, directly
\* or through others, whatever order the maps are walked in (getCollectionSets).
SetsAreCircles ==
  phase = "sort" => \A i \in DOMAIN sets : \A n \in sets[i] : sets[i] = Circle(n)

\* Every pass of sortCollectionSetsFrom sorts at least one more set, so the recursion
\* ends.
SortEnds == phase # "endless"

RECURSIVE TrueID(_)

\* The ID a collection has in a store without heads of others.
TrueID(n) == IDFrom(n, Circle(n), [r \in Names |-> IF r \in Range(graph[n]) \ Circle(n)
                                                     THEN TrueID(r) ELSE Nil])

\* No name begins with that of the collection or of one that its ID is made from.
ApartFrom(n) == \A m \in {n} \cup Behind(n, {}) : Longer[m] = {}

\* The ID of a collection depends on definitions alone, in whatever order the maps are
\* walked and the operations given, where no name begins with one of its names.
IDsDependOnDefinitions == \A n \in Names : ids[n] # Nil /\ ApartFrom(n) => ids[n] = TrueID(n)

-----------------------------------------------------------------------------
(* What the code does not keep; TLC finds it violated.                     *)

\* "users providing multiple SDL/collection operations will result in the same IDs as a
\* single large operation, provided that the individual collection declarations remain
\* the same" (collection_id.go): the ID of User depends on whether Users was saved
\* before it, which the order of a map decides.
SameIDs == \A n \in Names : ids[n] # Nil => ids[n] = TrueID(n)
=============================================================================
