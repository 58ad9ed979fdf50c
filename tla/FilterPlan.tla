---------------------------- MODULE FilterPlan ----------------------------
(***************************************************************************)
(* How the planner takes the filter of a request apart around the joins of *)
(* a select, and what the select then yields.                              *)
(*                                                                         *)
(* A document has scalar fields, the to-one relation field One whose       *)
(* foreign key OneKey lives on the other side (the join fills both in),    *)
(* and the to-many relation field Many, the set of its children, which     *)
(* carry the foreign key ManyKey.  The filter of a to-one child select is  *)
(* the subject of JoinPlan.                                                *)
(***************************************************************************)
EXTENDS Filters

CONSTANTS
  Requests,    \* the filters a select may be asked for
  SubFilters,  \* the filters its to-many child select may be asked for
  Docs,        \* documents, with everything their joins would fill in
  One, OneKey, ManyKey,
  Scalars      \* the scalar fields of documents and of related documents

VARIABLES
  asked,       \* the filter as requested
  sub,         \* the filter of the to-many child select as requested
  indexed,     \* the fields of related documents that have an index: <<relation, field>>
  doc,         \* the document the request meets
  scan,        \* scanNode.filter: evaluated before any join
  parent,      \* selectNode.filter: evaluated after the joins
  joins,       \* the relations the select joins, in order
  todo,        \* the joins not planned yet
  turned,      \* the relation whose join was inverted, or Nil
  first,       \* the filter the first side of the inverted join scans with
  phase,
  yielded,     \* was the document yielded
  children     \* the children that were fetched for it

vars == <<asked, sub, indexed, doc, scan, parent, joins, todo, turned, first, phase,
          yielded, children>>

request == <<asked, sub, indexed, doc, joins>>

-----------------------------------------------------------------------------
(* Planning the joins of a select. *)

\* addFilterOnField: f with the condition that its field k equals v, in the
\* place of what f itself said of k.
addFilterOnField(f, k, v) ==
  MergeConditions(IF f = Nil THEN <<>> ELSE RemoveField(f, k),
                  <<Entry(k, <<Entry("_eq", v)>>)>>)

\* prepareScanNodeFilterForTypeJoin, for the next join of the select.
prepareScanNodeFilterForTypeJoin ==
  /\ phase = "plan"
  /\ todo # <<>>
  /\ todo' = Tail(todo)
  /\ IF scan = Nil THEN UNCHANGED <<scan, parent, phase>>
     ELSE IF IsComplex(scan, FALSE)
     THEN /\ parent' = IF parent = Nil THEN scan ELSE Merge(parent, scan)
          /\ scan' = Nil
          /\ UNCHANGED phase
     ELSE LET s == SplitByFields(scan, Head(todo), IF Head(todo) = One THEN OneKey ELSE Nil)
          IN  IF s.panic
              THEN phase' = "panic" /\ UNCHANGED <<scan, parent>>
              ELSE /\ scan' = s.rest
                   /\ parent' = IF s.split = Nil THEN parent ELSE Merge(parent, s.split)
                   /\ UNCHANGED phase
  /\ UNCHANGED <<request, turned, first, yielded, children>>

\* findFilteredByRelationFields looks at all relations the filter mentions: join j
\* can start from its related documents when they have an index on a field that
\* is filtered on, be it under another relation.
CanTurn(j) ==
  /\ parent # Nil
  /\ ~IsComplex(parent, FALSE)
  /\ \E p \in ExtractProperties(parent) : <<j, p[2]>> \in indexed

\* tryOptimizeJoinDirectionByFilter turns join j.  Where the child select has a
\* filter of its own, the condition on the relation leaves the select's filter.
\* With several joins a parallelNode puts together what they yield one by one,
\* from one multiScanNode that the turned join positions: that is not modelled.
tryOptimizeJoinDirectionByFilter(j) ==
  /\ phase = "plan"
  /\ todo = <<>>
  /\ j \in Range(joins)
  /\ CanTurn(j)
  /\ turned' = j
  /\ first' = LET u == UnwrapFrom(CopyFrom(parent, j), j) IN IF u = <<>> THEN Nil ELSE u
  /\ parent' = IF j = Many /\ sub # Nil THEN RemoveField(parent, j) ELSE parent
  /\ phase' = IF Len(joins) = 1 THEN "fetch" ELSE "mixed"
  /\ UNCHANGED <<request, scan, todo, yielded, children>>

KeepDirection ==
  /\ phase = "plan"
  /\ todo = <<>>
  /\ \A j \in Range(joins) : ~CanTurn(j)
  /\ phase' = "fetch"
  /\ UNCHANGED <<request, scan, parent, todo, turned, first, yielded, children>>

\* retrievePrimaryDocs for the to-many child select: the children whose
\* foreign key is the document's id, under the child select's filter.
retrievePrimaryDocs ==
  /\ phase = "fetch"
  /\ children' = {e \in UNION {d[Many] : d \in Docs} :
                    Many \in Range(joins) /\ Match(addFilterOnField(sub, ManyKey, doc.id), e)}
  /\ phase' = "run"
  /\ UNCHANGED <<request, scan, parent, todo, turned, first, yielded>>

\* What a scan sees of a document: the joins have not filled in theirs yet.
Scanned(d) == [f \in DOMAIN d |-> IF f \in {One, OneKey, Many} THEN Nil ELSE d[f]]

\* And after the joins: a to-many join fills in the children it fetched.
Joined(d) == IF Many \in Range(joins) THEN [d EXCEPT ![Many] = children] ELSE d

Related(d, j) == IF j = Many THEN d[Many] ELSE IF d[One] = Nil THEN {} ELSE {d[One]}

\* The select's Next for one document: it is reached by the scan, or from a
\* related document the inverted join found, and is yielded when it passes
\* both filters.  Joins that are not turned yield one document for each that
\* is scanned, so that a parallelNode puts together what belongs together.
Yield ==
  /\ phase = "run"
  /\ yielded' = /\ turned # Nil => \E e \in Related(doc, turned) : Passes(first, e)
                /\ Passes(scan, Scanned(doc))
                /\ Passes(parent, Joined(doc))
  /\ phase' = "done"
  /\ UNCHANGED <<request, scan, parent, todo, turned, first, children>>

Init ==
  /\ asked \in Requests
  /\ sub \in SubFilters
  /\ indexed \in {{}} \cup {{<<j, f>>} : j \in {One, Many}, f \in Scalars}
  /\ doc \in Docs
  /\ joins \in {<<>>, <<One>>, <<Many>>, <<One, Many>>, <<Many, One>>}
  /\ {One, OneKey} \cap Mentions(asked) # {} => One \in Range(joins)
  /\ Many \in Mentions(asked) \/ sub # Nil => Many \in Range(joins)
  /\ todo = joins
  /\ scan = asked
  /\ parent = Nil
  /\ turned = Nil
  /\ first = Nil
  /\ phase = "plan"
  /\ yielded = FALSE
  /\ children = {}

Done == phase \in {"done", "mixed", "panic"} /\ UNCHANGED vars

Next ==
  \/ prepareScanNodeFilterForTypeJoin
  \/ \E j \in {One, Many} : tryOptimizeJoinDirectionByFilter(j)
  \/ KeepDirection
  \/ retrievePrimaryDocs
  \/ Yield
  \/ Done

Spec == Init /\ [][Next]_vars

-----------------------------------------------------------------------------
\* Alternatives of an "_or" that normalising takes apart: ones with several
\* conditions, or two on one property.
RECURSIVE SplitsAlternatives(_)
SplitsAlternatives(m) ==
  \E i \in DOMAIN m :
    LET k == m[i].k
        v == m[i].v
    IN  \/ /\ k = "_or"
           /\ \/ \E j \in DOMAIN v : Len(v[j]) > 1
              \/ \E j, l \in DOMAIN v : j # l /\ v[j][1].k = v[l][1].k /\ v[j][1].k \in Props
        \/ k \in {"_and", "_or"} /\ \E j \in DOMAIN v : SplitsAlternatives(v[j])
        \/ k = "_not" /\ SplitsAlternatives(v)

\* The foreign key the join fills in, compared inside an operator.
KeyInOperator(m) ==
  \E i \in DOMAIN m : m[i].k \notin Props /\ OneKey \in Mentions(<<m[i]>>)

\* The select filters on the children, of which the child select hides some, and
\* the join was not turned.
SubFilterHides == sub # Nil /\ Many \in Mentions(asked) /\ turned # Many

(* A select yields a document exactly when it matches the filter that was  *)
(* requested, although the filter is taken apart: what each join will fill *)
(* in moves, join by join, from the scan's filter to the select's          *)
(* (prepareScanNodeFilterForTypeJoin), all of it when it is complex, and   *)
(* an index may turn a single join around                                  *)
(* (tryOptimizeJoinDirectionByFilter), with a condition on the children    *)
(* that the child select's own filter hides.  A join turned around does    *)
(* not meet documents that have no related one; a secondary foreign key    *)
(* inside an operator is split wrongly; and a join that is not turned      *)
(* shows the select only the children that the child select asks for.      *)
YieldedAsAsked ==
  phase = "done" /\ ~KeyInOperator(asked) /\ ~SubFilterHides =>
    yielded = (Match(asked, doc) /\ (turned = One => doc[One] # Nil))

(* The same with a child select that has a filter, turned or not, so that  *)
(* an index does not decide what is yielded.  The code does not keep this: *)
(* without an index the condition is checked against the children that the *)
(* child select asks for ("re-evaluation at the parent level which would   *)
(* fail when the sub-filter modifies the child docs", planner.go).         *)
YieldedWithSubFilter ==
  phase = "done" /\ ~KeyInOperator(asked) =>
    yielded = (Match(asked, doc) /\ (turned = One => doc[One] # Nil))

\* The children of doc that the child select asked for.
ChildrenOf ==
  {e \in UNION {d[Many] : d \in Docs} : e[ManyKey] = doc.id /\ Passes(sub, e)}

(* A to-many join fetches the document's children that match the child     *)
(* select's filter: merging the foreign key into that filter and           *)
(* normalising the result loses and adds none (addFilterOnField,           *)
(* MergeConditions, normalize), unless an "_or" has alternatives that      *)
(* normalising takes apart.                                                *)
ChildrenAsAsked ==
  phase = "done" /\ Many \in Range(joins)
    /\ (sub # Nil => ~SplitsAlternatives(sub) /\ ManyKey \notin Mentions(sub)) =>
    children = ChildrenOf

(* MergeConditions "basically applies _and to both filters": every child   *)
(* that has the document's id as foreign key and matches the child         *)
(* select's filter is fetched, whatever the filter's shape.  The code does *)
(* not keep this: two alternatives of an "_or" on one property become an   *)
(* "_and".                                                                 *)
MergeIsAnd ==
  phase = "done" /\ Many \in Range(joins) /\ (sub # Nil => ManyKey \notin Mentions(sub)) =>
    children = ChildrenOf
=============================================================================
