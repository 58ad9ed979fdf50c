---------------------------- MODULE MCFilterPlan ----------------------------
(***************************************************************************)
(* Filters of one and two conditions on a scalar field, on a to-one and on a *)
(* to-many relation and on a foreign key, under every operator, against three *)
(* documents of which one has no related document, one no children and one *)
(* null fields.  The child select's filter varies with one filter of the   *)
(* parent on a field of its own, and the simple ones with those on its     *)
(* children.                                                               *)
(***************************************************************************)
EXTENDS Integers, Sequences, FiniteSets

CONSTANT Nil

VARIABLES asked, sub, indexed, doc, scan, parent, joins, todo, turned, first, phase, yielded, children

E(k, v) == [k |-> k, v |-> v]
I(n) == [t |-> "int", n |-> n]
C(f, op, v) == E(f, <<E(op, v)>>)
Or(x, y) == E("_or", <<<<x>>, <<y>>>>)
AndOf(x, y) == E("_and", <<<<x>>, <<y>>>>)
Not(x) == E("_not", x)

OnScalars == {C("a", "_geq", [t |-> "float", n |-> 1]), C("a", "_eq", I(1)),
              C("a", "_eq", I(2)), C("b", "_lt", I(1))}
OnRelations == {C("one", "a", <<E("_neq", I(2))>>), C("many", "a", <<E("_eq", I(1))>>),
                C("oneKey", "_eq", I(7))}
Conditions == OnScalars \cup OnRelations

SelectFilters ==
  {<<x>> : x \in Conditions}
    \cup {<<x, y>> : x, y \in Conditions}
    \cup {<<Or(x, y)>> : x, y \in Conditions}
    \cup {<<x, Not(<<y>>)>> : x \in OnRelations, y \in Conditions}
    \cup {<<x, Or(y, z)>> : x \in OnRelations, y \in OnScalars, z \in Conditions}

Simple == {<<x>> : x \in OnScalars}

ChildFilters ==
  {Nil} \cup Simple
    \cup {<<Or(x, y)>> : x, y \in OnScalars}
    \cup {<<Or(AndOf(x, y), z)>> : x, y, z \in OnScalars}
    \cup {<<x, Not(<<Not(<<y, z>>)>>)>> : x, y, z \in OnScalars}

Child(k, x) == [a |-> x, b |-> Nil, manyKey |-> k]
Other(x) == [a |-> x, b |-> Nil, id |-> I(7)]
Parent(i, x, y, o, m) ==
  [id |-> I(i), a |-> x, b |-> y, one |-> o, oneKey |-> IF o = Nil THEN Nil ELSE o.id, many |-> m]

Parents == {Parent(1, I(1), I(1), Other(I(1)), {}),
            Parent(2, I(2), Nil, Nil, {Child(I(2), I(1)), Child(I(2), I(2))}),
            Parent(3, Nil, I(0), Other(Nil), {Child(I(3), Nil), Child(I(3), I(2))})}

F == INSTANCE FilterPlan WITH
  Requests <- SelectFilters, SubFilters <- ChildFilters, Docs <- Parents,
  One <- "one", OneKey <- "oneKey", Many <- "many", ManyKey <- "manyKey",
  Scalars <- {"a", "b"}, Props <- {"a", "b", "one", "oneKey", "many", "manyKey"}

Init ==
  /\ asked \in SelectFilters /\ sub \in ChildFilters
  /\ \/ sub = Nil
     \/ asked = <<C("a", "_eq", I(1))>>
     \/ sub \in Simple /\ Len(asked) <= 2 /\ asked[Len(asked)].k = "many"
  /\ F!Init

Next == F!Next

\* A document is yielded exactly when it matches the filter requested.
YieldedAsAsked == F!YieldedAsAsked

\* A to-many join fetches the children that match the child select's filter.
ChildrenAsAsked == F!ChildrenAsAsked

\* The same with a child select's filter that hides some of the children.
YieldedWithSubFilter == F!YieldedWithSubFilter

\* MergeConditions is the conjunction of both filters, whatever their shape.
MergeIsAnd == F!MergeIsAnd
=============================================================================
