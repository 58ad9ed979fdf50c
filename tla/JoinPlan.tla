------------------------------ MODULE JoinPlan ------------------------------
(***************************************************************************)
(* A join of two collections (invertibleTypeJoin) as the iterator it is:   *)
(* from the parents or, when an index on the related documents turned it   *)
(* around, from the children; and the nodes that add the parents without   *)
(* a child when @exhaustive asks for them (sequenceNode over orphanNode,   *)
(* orphanPointLookupNode).  A join inside a sub-select is initialised once *)
(* per document of the select above it: that is a round.                   *)
(*                                                                         *)
(* A document is [id, val, fk], fk Nil on the side that stores no foreign  *)
(* key and where the foreign key is not set.  A child select's filter that *)
(* is applied to parents reads the field of the same index, here val.      *)
(***************************************************************************)
EXTENDS Integers, Sequences, FiniteSets, SequencesExt

CONSTANTS
  Shapes,       \* subset of {"primary", "one", "many"}: the parent holds the
                \* key; the child holds it, to one; the child holds it, to many
  Collections,  \* pairs [parents, children] of sequences in key order
  Keeps,        \* sets of values a filter may pass
  Rounds,       \* how often the join is initialised
  Nil

VARIABLES
  shape, data,
  keep,          \* values the parents' scan filter passes
  subKeep,       \* values the child select's filter passes
  turned,        \* "no", "filter" or "order": why the join was inverted
  fieldKeep,     \* turned by a filter: the values it passes on the children
  dir,           \* the direction of the order by a field of the children
  exhaustive,
  phase,         \* "orphans" or "join": which child of the sequence is current
  todo,          \* what is left of the first side
  orphans,       \* what is left of the orphan scan
  encountered,   \* joinIterationState.encounteredDocIDs
  queue,         \* joinIterationState.docsToYield
  out, round

vars == <<shape, data, keep, subKeep, turned, fieldKeep, dir, exhaustive, phase,
          todo, orphans, encountered, queue, out, round>>

Passing(s, k) == SelectSeq(s, LAMBDA d : d.val \in k)
Ids(s)        == {s[i].id : i \in DOMAIN s}
Row(p, kids)  == [parent |-> p, kids |-> kids]

\* An index scan: by value in the given direction, then by id.
ByIndex(s, d) ==
  LET before(x, y) == \/ d = "ASC"  /\ x.val < y.val
                      \/ d = "DESC" /\ x.val > y.val
                      \/ x.val = y.val /\ x.id < y.id
  IN  SetToSortSeq(ToSet(s), before)

\* What the first side scans: the parents under their filter, or the children
\* through the index, under the filter that turned the join or under none.
FirstSide ==
  CASE turned = "no"     -> Passing(data.parents, keep)
    [] turned = "filter" -> ByIndex(Passing(data.children, fieldKeep), "ASC")
    [] turned = "order"  -> ByIndex(data.children, dir)

\* orphanNode.initStandaloneScan, orphanPointLookupNode.nextOrphanByPointLookup:
\* the parents whose own key is null, or that no child's key index entry names,
\* under the child select's filter.
OrphanScan ==
  SelectSeq(data.parents, LAMBDA p :
    /\ p.val \in subKeep
    /\ IF shape = "primary" THEN p.fk = Nil
       ELSE \A i \in DOMAIN data.children : data.children[i].fk # p.id)

\* A join turned by a filter has orphans added too, when it is ordered as well.
HasOrphanNode == turned # "no" /\ exhaustive

FirstPhase == IF HasOrphanNode /\ dir = "ASC" THEN "orphans" ELSE "join"

-----------------------------------------------------------------------------
(* Next of the join, from one document d of the first side. *)

\* retrievePrimaryDocs: the documents of s whose foreign key is id.
Referencing(s, id, k) == SelectSeq(s, LAMBDA d : d.fk = id /\ d.val \in k)

\* fetchDocWithIDAndItsSubDocs, under the filter of the scan it reads with.
WithID(s, id) == SelectSeq(s, LAMBDA d : d.id = id)

\* fetchRelatedSecondaryDocWithChildren for a parent that holds the key.
FromPrimaryParent(d) ==
  <<Row(d, IF d.fk = Nil THEN <<>> ELSE Passing(WithID(data.children, d.fk), subKeep))>>

\* The same for a child that holds the key, in a join that was turned: the scan of
\* a child has lost the child select's filter, which to-many children get back.
FromPrimaryChild(d) ==
  IF d.fk = Nil \/ d.fk \in encountered THEN <<>>
  ELSE LET ps == Passing(WithID(data.parents, d.fk), keep)
       IN  [i \in DOMAIN ps |->
              Row(ps[i], IF shape = "many" THEN Referencing(data.children, ps[i].id, subKeep)
                         ELSE <<d>>)]

\* fetchPrimaryDocsReferencingSecondaryDoc for a parent without the key, and
\* for a child without it: the child select's filter is applied to the parents.
FromSecondaryParent(d) ==
  LET kids == Referencing(data.children, d.id, subKeep)
  IN  <<Row(d, IF shape = "one" /\ kids # <<>> THEN <<kids[1]>> ELSE kids)>>

FromSecondaryChild(d) ==
  LET ps == Referencing(data.parents, d.id, keep \cap subKeep)
  IN  [i \in DOMAIN ps |-> Row(ps[i], <<d>>)]

Joined(d) ==
  CASE turned = "no" /\ shape = "primary" -> FromPrimaryParent(d)
    [] turned = "no" /\ shape # "primary" -> FromSecondaryParent(d)
    [] turned # "no" /\ shape = "primary" -> FromSecondaryChild(d)
    [] turned # "no" /\ shape # "primary" -> FromPrimaryChild(d)

\* Mutant: the parent a child led to is not remembered.
JoinForgetful ==
  /\ phase = "join"
  /\ queue = <<>>
  /\ todo # <<>>
  /\ queue' = Joined(Head(todo))
  /\ todo' = Tail(todo)
  /\ UNCHANGED <<shape, data, keep, subKeep, turned, fieldKeep, dir, exhaustive,
                 phase, orphans, encountered, out, round>>

\* invertibleTypeJoin.Next: reads the first side until there is something to
\* yield.
joinNext ==
  /\ phase = "join"
  /\ queue = <<>>
  /\ todo # <<>>
  /\ queue' = Joined(Head(todo))
  /\ encountered' = IF turned # "no" /\ shape # "primary" /\ Head(todo).fk # Nil
                    THEN encountered \cup {Head(todo).fk} ELSE encountered
  /\ todo' = Tail(todo)
  /\ UNCHANGED <<shape, data, keep, subKeep, turned, fieldKeep, dir, exhaustive,
                 phase, orphans, out, round>>

yield ==
  /\ queue # <<>>
  /\ out' = Append(out, Head(queue))
  /\ queue' = Tail(queue)
  /\ UNCHANGED <<shape, data, keep, subKeep, turned, fieldKeep, dir, exhaustive,
                 phase, todo, orphans, encountered, round>>

\* Next of the orphan nodes.
orphanNext ==
  /\ phase = "orphans"
  /\ orphans # <<>>
  /\ out' = Append(out, Row(Head(orphans), <<>>))
  /\ orphans' = Tail(orphans)
  /\ UNCHANGED <<shape, data, keep, subKeep, turned, fieldKeep, dir, exhaustive,
                 phase, todo, encountered, queue, round>>

\* sequenceNode.Next: the current child is exhausted, ASC has the orphans
\* first and DESC last.
advance ==
  /\ \/ phase = "orphans" /\ orphans = <<>>
     \/ phase = "join" /\ todo = <<>> /\ queue = <<>>
  /\ phase' = IF phase = FirstPhase /\ HasOrphanNode
              THEN CHOOSE p \in {"orphans", "join"} : p # phase ELSE "end"
  /\ UNCHANGED <<shape, data, keep, subKeep, turned, fieldKeep, dir, exhaustive,
                 todo, orphans, encountered, queue, out, round>>

\* Init of the join and of the nodes around it.
initAgain ==
  /\ phase = "end"
  /\ round < Rounds
  /\ round' = round + 1
  /\ phase' = FirstPhase
  /\ todo' = FirstSide
  /\ orphans' = OrphanScan
  /\ encountered' = {}
  /\ queue' = <<>>
  /\ out' = <<>>
  /\ UNCHANGED <<shape, data, keep, subKeep, turned, fieldKeep, dir, exhaustive>>

\* A relation can be ordered by when it is to one, filtered by in every shape;
\* @exhaustive does something when there is such an order.
Init ==
  /\ shape \in Shapes
  /\ data \in Collections[shape]
  /\ keep \in Keeps
  /\ subKeep \in Keeps
  /\ turned \in {"no", "filter", "order"}
  /\ fieldKeep \in Keeps
  /\ turned # "filter" => fieldKeep = UNION Keeps
  /\ dir \in {"ASC", "DESC"}
  /\ exhaustive \in BOOLEAN
  /\ exhaustive \/ turned = "order" => turned # "no" /\ shape # "many"
  /\ ~exhaustive /\ turned # "order" => dir = "ASC"
  /\ phase = FirstPhase
  /\ todo = FirstSide
  /\ orphans = OrphanScan
  /\ encountered = {}
  /\ queue = <<>>
  /\ out = <<>>
  /\ round = 1

Ended == phase = "end" /\ round = Rounds /\ UNCHANGED vars

Next == joinNext \/ yield \/ orphanNext \/ advance \/ initAgain \/ Ended

Spec == Init /\ [][Next]_vars

-----------------------------------------------------------------------------
\* The related documents of a parent, whichever side holds the key.
AllRelatedTo(p) ==
  IF shape = "primary" THEN WithID(data.children, p.fk)
  ELSE SelectSeq(data.children, LAMBDA c : c.fk = p.id)

RelatedTo(p) == Passing(AllRelatedTo(p), subKeep)

OutParents == [i \in DOMAIN out |-> out[i].parent]

WithItsChildren == \A i \in DOMAIN out : ToSet(out[i].kids) = ToSet(RelatedTo(out[i].parent))

AllReached ==
  \A i \in DOMAIN data.parents :
    LET p == data.parents[i]
        related == AllRelatedTo(p)
        reached == \/ turned = "no"
                   \/ turned = "filter" /\ Passing(related, fieldKeep) # <<>>
                   \/ turned = "order" /\ related # <<>>
                   \/ exhaustive /\ related = <<>> /\ (shape = "primary" => p.fk = Nil)
    IN  p.val \in keep /\ reached => p \in ToSet(OutParents)

\* A to-one child select with a filter, whose join was turned.
FilterMisplaced == shape # "many" /\ turned # "no" /\ subKeep # UNION Keeps

(* Whatever side the join starts from, a parent is yielded once, with      *)
(* exactly the related documents its child select asked for: several       *)
(* children may lead to one parent, and every initialisation starts over   *)
(* (fetchRelatedSecondaryDocWithChildren, encounteredDocIDs,               *)
(* joinIterationState.reset).  The filter of a to-one child select is not  *)
(* applied, or not to the children, where the join was turned.             *)
OnceWithItsChildren ==
  /\ IsInjective([i \in DOMAIN out |-> out[i].parent.id])
  /\ FilterMisplaced \/ WithItsChildren

(* A join that was not turned yields every parent its scan filter passes;  *)
(* one turned by a filter yields those with a child the filter passes; one *)
(* turned by an order those that have a child; and with @exhaustive and an *)
(* order the parents without one as well (invertibleTypeJoin.Next,         *)
(* orphanNode); unless the join was turned and its to-one child select has *)
(* a filter.                                                               *)
NoneLost == phase = "end" => FilterMisplaced \/ AllReached

(* A join turned by an order yields the parents in the order of their      *)
(* children's values, and the parents without a child where null sorts:    *)
(* first ascending, last descending (newSequenceNode, Concat).             *)
InRequestedOrder ==
  turned = "order" =>
    \A i, j \in DOMAIN out : i < j =>
      LET v(k) == IF out[k].kids = <<>> THEN -1 ELSE out[k].kids[1].val
      IN  IF dir = "ASC" THEN v(i) <= v(j) ELSE v(i) >= v(j)

-----------------------------------------------------------------------------
(* What the code does not keep; TLC finds each of these violated.          *)

(* "if the related record does not meet the filter criteria the host       *)
(* record will still be returned, but the value of this field will be      *)
(* null" (descriptions.go), also where an index turned the join: there the *)
(* filter is not applied to the child, or it is applied to the parents.    *)
HostStillReturned == WithItsChildren /\ (phase = "end" => AllReached)

(* "orphanNode yields parent documents that have no related children":     *)
(* the parents it adds are parents the request asked for.  The scan it     *)
(* starts carries the child select's filter and not the parents' own       *)
(* (initStandaloneScan).                                                   *)
OnlyAskedFor == \A i \in DOMAIN out : out[i].parent.val \in keep
=============================================================================
