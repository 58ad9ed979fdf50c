------------------------------ MODULE Filters ------------------------------
(***************************************************************************)
(* Filters: the condition trees of internal/planner/filter and the         *)
(* matching of internal/connor.                                            *)
(*                                                                         *)
(* A condition map is a sequence of entries [k, v].  Its keys are pointers *)
(* in the code, so one map may hold a property twice.  Under "_and" and    *)
(* "_or" v is a sequence of maps, under "_not" a map, under a property the *)
(* map of its conditions, and under any other operator a value.  A value   *)
(* is Nil or a number [t, n] with t "int" or "float".                      *)
(***************************************************************************)
EXTENDS Integers, Sequences, FiniteSets, SequencesExt

CONSTANTS
  Props,  \* the fields a filter may mention
  Many,   \* the field among them that holds a set of related documents
  Nil

Entry(k, v) == [k |-> k, v |-> v]
SelectMaps(ms) == SelectSeq(ms, LAMBDA m : m # <<>>)

-----------------------------------------------------------------------------
(* Matching: internal/connor. *)

Equal(c, d) == IF c = Nil \/ d = Nil THEN c = d ELSE c.n = d.n

gt(c, d) == IF c = Nil THEN d # Nil ELSE d # Nil /\ d.n > c.n

\* A float condition met by an integer compares with > here.
ge(c, d) ==
  \/ c = Nil
  \/ /\ d # Nil
     /\ IF c.t = "float" /\ d.t = "int" THEN d.n > c.n ELSE d.n >= c.n

lt(c, d) == c # Nil /\ d # Nil /\ d.n < c.n

le(c, d) == IF c = Nil THEN d = Nil ELSE d # Nil /\ d.n <= c.n

in(cs, d) == \E i \in DOMAIN cs : Equal(cs[i], d)

Compare(op, c, d) ==
  CASE op = "_eq"  -> Equal(c, d)
    [] op = "_neq" -> ~Equal(c, d)
    [] op = "_gt"  -> gt(c, d)
    [] op = "_geq" -> ge(c, d)
    [] op = "_lt"  -> lt(c, d)
    [] op = "_leq" -> le(c, d)
    [] op = "_in"  -> in(c, d)
    [] op = "_nin" -> ~in(c, d)

RECURSIVE Match(_, _)
Match(m, d) ==
  \A i \in DOMAIN m :
    LET k == m[i].k
        v == m[i].v
        x == IF k \in Props /\ d # Nil THEN d[k] ELSE Nil
    IN  CASE k = "_and" -> \A j \in DOMAIN v : Match(v[j], d)
          [] k = "_or"  -> \E j \in DOMAIN v : Match(v[j], d)
          [] k = "_not" -> ~Match(v, d)
          [] k = Many /\ x # Nil -> \E e \in x : Match(v, e)
          [] k \in Props /\ (k # Many \/ x = Nil) -> Match(v, x)
          [] OTHER -> Compare(k, v, d)

\* A nil filter lets everything pass.
Passes(f, d) == f = Nil \/ Match(f, d)

-----------------------------------------------------------------------------
(* Merging: filter/merge.go and filter/normalize.go. *)

\* normalizeProperties over the maps ms under the key parentKey: the entries
\* of all of them, one map each, but those of a property met more than once
\* (and the elements of "_and"s, unless parentKey is "_or") in a single "_and".
normalizeProperties(parentKey, ms) ==
  LET es       == FlattenSeq(ms)
      isAnd(e) == parentKey # "_or" /\ e.k = "_and"
      again(e) == e.k \in Props /\ Len(SelectSeq(es, LAMBDA x : x.k = e.k)) > 1
      alone    == SelectSeq(es, LAMBDA e : ~isAnd(e) /\ ~again(e))
      ands     == SelectSeq(es, isAnd)
      twice    == SelectSeq(es, again)
      merge    == FlattenSeq([i \in DOMAIN ands |-> ands[i].v])
                  \o [i \in DOMAIN twice |-> <<twice[i]>>]
      result   == [i \in DOMAIN alone |-> <<alone[i]>>]
  IN  IF merge = <<>> THEN result ELSE Append(result, <<Entry("_and", merge)>>)

\* normalizeOperator: the maps the operator's entry is replaced by, if any.
normalizeOperator(parentKey, k, v) ==
  CASE k = "_not" -> IF Len(v) = 1 /\ v[1].k = "_not" THEN <<v[1].v>> ELSE <<>>
    [] k = "_or"  -> IF Len(v) > 1 THEN <<>> ELSE v
    [] k = "_and" -> IF Len(v) # 1 /\ parentKey \in {"_not", "_or"} THEN <<>> ELSE v
    [] OTHER -> <<>>

RECURSIVE normalizeMap(_, _), normalizeConditions(_, _, _)
\* normalizeCondition of a map.
normalizeMap(parentKey, m) ==
  FlattenSeq(normalizeProperties(parentKey, <<normalizeConditions(parentKey, m, <<>>)>>))

\* The loop of normalizeConditions over the entries m, result being what it
\* has collected so far; the recursion on "_or" normalises the collected again.
normalizeConditions(parentKey, m, result) ==
  IF m = <<>> THEN result
  ELSE LET k == Head(m).k
           v == Head(m).v
           n == CASE k \in {"_and", "_or"} ->
                       normalizeProperties(k, [i \in DOMAIN v |-> normalizeMap(k, v[i])])
                  [] k = "_not" \/ k \in Props -> normalizeMap(k, v)
                  [] OTHER -> v
           merge == normalizeOperator(parentKey, k, n)
           next  == IF merge = <<>> THEN Append(result, Entry(k, n))
                    ELSE result \o FlattenSeq(merge)
       IN  normalizeConditions(parentKey, Tail(m),
             IF k = "_or" /\ merge # <<>> THEN normalizeConditions(parentKey, next, <<>>)
             ELSE next)

normalize(m) == normalizeMap("", m)

MergeConditions(c1, c2) ==
  IF c1 = <<>> THEN c2
  ELSE IF c2 = <<>> THEN c1
  ELSE normalize(<<Entry("_and", <<c1, c2>>)>>)

Merge(f1, f2) ==
  IF f1 = Nil THEN f2 ELSE IF f2 = Nil THEN f1 ELSE MergeConditions(f1, f2)

-----------------------------------------------------------------------------
(* Taking fields out: copy_field.go, remove_field.go, split.go,             *)
(* unwrap_relation.go, complex.go.                                          *)

\* traverseFilterByProperty without deletion: what m says of the field f,
\* inside the operators it says it in.
RECURSIVE CopyFrom(_, _)
CopyFrom(m, f) ==
  LET copy(e) ==
        CASE e.k = f -> <<e>>
          [] e.k \in {"_and", "_or"} ->
               LET es == SelectMaps([i \in DOMAIN e.v |-> CopyFrom(e.v[i], f)])
               IN  IF es = <<>> THEN <<>> ELSE <<Entry(e.k, es)>>
          [] e.k = "_not" ->
               LET n == CopyFrom(e.v, f) IN IF n = <<>> THEN <<>> ELSE <<Entry(e.k, n)>>
          [] OTHER -> <<>>
  IN  FlattenSeq([i \in DOMAIN m |-> copy(m[i])])

CopyField(m, f) == LET c == CopyFrom(m, f) IN IF c = <<>> THEN Nil ELSE c

\* traverseFilterByProperty with deletion: m without what it says of f.
RECURSIVE RemoveField(_, _)
RemoveField(m, f) ==
  LET left(e) ==
        CASE e.k = f -> <<>>
          [] e.k \in {"_and", "_or"} ->
               LET es == SelectMaps([i \in DOMAIN e.v |-> RemoveField(e.v[i], f)])
               IN  IF es = <<>> THEN <<>> ELSE <<Entry(e.k, es)>>
          [] e.k = "_not" ->
               LET n == RemoveField(e.v, f) IN IF n = <<>> THEN <<>> ELSE <<Entry(e.k, n)>>
          [] OTHER -> <<e>>
  IN  FlattenSeq([i \in DOMAIN m |-> left(m[i])])

\* SplitByFields for one field, or for a field and a second one: what is left
\* of the filter and what was split off.  It dereferences what it split off by
\* the first field when the filter has the second, and panics when that is nil.
SplitByFields(m, f, g) ==
  LET split == CopyField(m, f)
      rest  == RemoveField(m, f)
      other == IF g = Nil THEN Nil ELSE CopyField(rest, g)
      left  == IF other = Nil THEN rest ELSE RemoveField(rest, g)
  IN  [panic |-> split = Nil /\ other # Nil,
       rest  |-> IF left = <<>> THEN Nil ELSE left,
       split |-> IF other = Nil \/ split = Nil THEN split ELSE MergeConditions(split, other)]

\* UnwrapRelation: the conditions on the related documents of field f.
RECURSIVE UnwrapFrom(_, _)
UnwrapFrom(m, f) ==
  LET inner(e) ==
        CASE e.k = f -> e.v
          [] e.k \in {"_and", "_or"} ->
               LET es == SelectMaps([i \in DOMAIN e.v |-> UnwrapFrom(e.v[i], f)])
               IN  IF es = <<>> THEN <<>> ELSE <<Entry(e.k, es)>>
          [] OTHER -> <<>>
  IN  FlattenSeq([i \in DOMAIN m |-> inner(m[i])])

\* Mutant: an "_or" is not looked into.
RECURSIVE SeesNoOr(_, _)
SeesNoOr(m, seekRelation) ==
  \E i \in DOMAIN m :
    LET k == m[i].k
        v == m[i].v
    IN  CASE k = "_and" -> \E j \in DOMAIN v : SeesNoOr(v[j], TRUE)
          [] k = "_not" -> SeesNoOr(v, TRUE)
          [] k \in Props -> seekRelation /\ \E j \in DOMAIN v : v[j].k \in Props
          [] OTHER -> FALSE

\* isComplex: is a relation filtered on inside an "_and", an "_or" or a "_not".
RECURSIVE IsComplex(_, _)
IsComplex(m, seekRelation) ==
  \E i \in DOMAIN m :
    LET k == m[i].k
        v == m[i].v
    IN  CASE k \in {"_and", "_or"} -> \E j \in DOMAIN v : IsComplex(v[j], TRUE)
          [] k = "_not" -> IsComplex(v, TRUE)
          [] k \in Props -> \/ seekRelation /\ \E j \in DOMAIN v : v[j].k \in Props
                            \/ IsComplex(v, seekRelation)
          [] OTHER -> FALSE

\* ExtractProperties: the fields of related documents, by relation, that m
\* filters on.
RECURSIVE ExtractProperties(_)
ExtractProperties(m) ==
  UNION {LET e == m[i]
         IN  CASE e.k \in {"_and", "_or"} ->
                    UNION {ExtractProperties(e.v[j]) : j \in DOMAIN e.v}
               [] e.k = "_not" -> ExtractProperties(e.v)
               [] e.k \in Props -> {<<e.k, x>> : x \in {e.v[j].k : j \in DOMAIN e.v} \cap Props}
               [] OTHER -> {}
         : i \in DOMAIN m}

\* The fields a filter mentions, at any depth of its operators.
RECURSIVE Mentions(_)
Mentions(m) ==
  UNION {LET e == m[i]
         IN  CASE e.k \in {"_and", "_or"} -> UNION {Mentions(e.v[j]) : j \in DOMAIN e.v}
               [] e.k = "_not" -> Mentions(e.v)
               [] OTHER -> {e.k}
         : i \in DOMAIN m}
=============================================================================
