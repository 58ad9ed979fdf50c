---------------------------- MODULE MCIndexFetch ----------------------------
(***************************************************************************)
(* Filters of every operator on one and two fields, null among the values, *)
(* with the shapes that an index treats specially (Odd); no index, and indexes *)
(* of one and two fields, unique or not, upwards or downwards; documents with *)
(* null and equal values, a deleted one and one that may not be read.      *)
(***************************************************************************)
EXTENDS Integers, Sequences, TLC

CONSTANT Nil

VARIABLES request, indexes, docs, index, top, deleted, crash, out, phase

I(n) == [t |-> "int", n |-> n]
E(k, v) == [k |-> k, v |-> v]
C(f, op, v) == E(f, <<E(op, v)>>)
Conds(f) == {<<C(f, op, v)>> : op \in {"_eq", "_neq", "_gt", "_geq", "_lt", "_leq"}, v \in {I(1), Nil}}
            \cup {<<C(f, op, l)>> : op \in {"_in", "_nin"}, l \in {<<I(2), I(1)>>, <<I(1), Nil>>, <<Nil, I(1)>>}}
A1 == <<C("a", "_eq", I(1))>>
B1 == <<C("b", "_eq", I(1))>>
AN == <<C("a", "_geq", Nil)>>
Odd == { <<E("a", <<E("_gt", Nil), E("_lt", I(2))>>)>>,
         <<E("a", <<E("_geq", Nil), E("_lt", I(2))>>)>>,
         <<E("a", <<>>)>>,
         <<C("a", "_in", <<I(1), I(1)>>)>>,
         <<E("_not", A1)>>,
         <<E("_or", <<A1, B1>>)>>,
         <<E("_or", <<A1, <<C("a", "_gt", Nil)>>>>)>>,
         <<E("_or", <<A1, AN>>)>>,
         <<E("_or", <<A1, <<E("_not", A1)>>>>)>>,
         <<E("_or", <<A1, A1 \o B1>>), C("b", "_neq", I(2))>>,
         <<E("_and", <<<<E("_or", <<A1, B1>>)>>>>)>>,
         <<E("_or", <<<<E("_or", <<A1, AN>>)>>, A1>>)>>,
         <<E("_and", <<<<C("a", "_gt", Nil)>>, B1>>)>> }
AskedFilters == {Nil} \cup Conds("a") \cup Odd
      \cup {f \o g : f \in {A1, <<C("a", "_in", <<I(2), I(1)>>)>>, <<C("a", "_neq", I(2))>>, <<C("a", "_geq", I(1))>>}, g \in Conds("b")}
O(f, d) == [name |-> f, desc |-> d]
Orders == {<<>>, <<O("a", FALSE)>>, <<O("a", TRUE)>>, <<O("a", FALSE), O("b", TRUE)>>}
FetchRequests == [filter : AskedFilters, order : Orders, docIDs : {Nil}, showDeleted : BOOLEAN]
      \cup [filter : {Nil, A1}, order : {<<>>}, docIDs : {{}, {1}, {2, 3}}, showDeleted : BOOLEAN]
Ix(fs, u) == [fields |-> fs, unique |-> u]
IndexSets == { <<>>, <<Ix(<<O("a", FALSE)>>, FALSE)>>, <<Ix(<<O("a", TRUE)>>, TRUE)>>,
        <<Ix(<<O("a", FALSE), O("b", FALSE)>>, FALSE)>>, <<Ix(<<O("b", FALSE)>>, FALSE), Ix(<<O("a", TRUE), O("b", FALSE)>>, TRUE)>> }
D(a, b, l, r) == [vals |-> [x \in {"a", "b"} |-> IF x = "a" THEN a ELSE b], live |-> l, readable |-> r]
Stores == { <<D(I(2), I(1), TRUE, TRUE), D(Nil, I(1), TRUE, TRUE), D(I(1), Nil, TRUE, TRUE), D(I(1), I(1), FALSE, TRUE)>>,
        <<D(Nil, I(2), TRUE, TRUE), D(Nil, I(1), TRUE, FALSE), D(I(3), I(2), TRUE, TRUE), D(I(1), I(2), TRUE, TRUE)>> }

F == INSTANCE IndexFetch WITH
  Requests <- FetchRequests, Definitions <- IndexSets, Datasets <- Stores,
  Many <- "many", Props <- {"a", "b"}

Init == F!Init

Next == F!Next

\* The documents asked for are fetched, each once, for the filters named in
\* IndexFetch.
FetchesAsAsked == F!FetchesAsAsked

\* The documents asked for are fetched, each once, for every filter.
FetchesAsAskedAlways == F!FetchesAsAskedAlways

\* An index that serves the order yields in it, for the filters named in
\* IndexFetch.
OrderedByIndex == F!OrderedByIndex

\* An index that serves the order yields in it, for every filter.
OrderedByIndexAlways == F!OrderedByIndexAlways

\* Planning and running an index scan never panics.
NoCrash == F!NoCrash

\* A fetch ends.
FetchEnds == F!FetchEnds
=============================================================================
