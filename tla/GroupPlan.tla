----------------------------- MODULE GroupPlan -----------------------------
(***************************************************************************)
(* A select that groups its documents: the shared pipe its parent and its  *)
(* child selects read (pipeNode, dataSource), the join into groups         *)
(* (orderedMap), the hiding of children outside their window (groupNode),  *)
(* and the order and limit nodes above.  The select may be a sub-select of *)
(* a join, and is then initialised again for every parent document: each   *)
(* initialisation is a round, with documents of its own.                   *)
(*                                                                         *)
(* A document is [id, key, val]; key stands for its group-by fields, and   *)
(* KeyText[key] for the text the join groups by.                           *)
(***************************************************************************)
EXTENDS Integers, Sequences, FiniteSets, SequencesExt

CONSTANTS
  Rounds,       \* sequences of rounds: what the source yields in each
  Selects,      \* requests [keep, childs, order, byIndex, limit, offset]: keep
                \* is the set of values the select's own filter passes, byIndex
                \* says that its scan uses an index that can take over the order
                \* (isOrderedByIndex), childs is a sequence of
                \* [keep, order, limited, limit, offset]
  KeyText,      \* key -> its text under %v: two keys may have the same
  Nil

VARIABLES
  request, rounds, round,
  docIndex,     \* pipeNode.docIndex: how many documents were read
  source,       \* the data source being joined
  lastParent, lastChild,   \* dataSource.lastParentDocIndex, lastChildDocIndex
  sorted,       \* per child: what its order node has sorted and not yielded
  more,         \* has the source more parents, more children
  groups,       \* orderedMap.values: [key, kids], kids Nil until one is set
  turn,
  values,       \* orderNode: the groups it has not yielded yet
  rowIndex,     \* limitNode.rowIndex
  rows          \* what the select yielded in this round

vars == <<request, rounds, round, docIndex, source, lastParent, lastChild, sorted,
          more, groups, turn, values, rowIndex, rows>>

Children == DOMAIN request.childs
Sources  == IF request.childs = <<>> THEN 1..1 ELSE Children

\* sort.Stable under valuesNode.Less, by the values of field f, in direction dir.
SortStable(s, f, dir) ==
  LET before(i, j) == \/ dir = "ASC"  /\ s[i][f] < s[j][f]
                      \/ dir = "DESC" /\ s[i][f] > s[j][f]
                      \/ s[i][f] = s[j][f] /\ i < j
      at == SetToSortSeq(DOMAIN s, before)
  IN  IF dir = Nil THEN s ELSE [i \in DOMAIN s |-> s[at[i]]]

\* What the pipe holds: the scan's documents, in the order of its index when
\* that takes over the order of the select.
Docs == SortStable(rounds[round], "key", IF request.byIndex THEN request.order ELSE Nil)

\* isOrderedByIndex: the order node is left out when the index of the first scan
\* below takes over the order.  Below a child select that is the scan behind the
\* pipe, with the index and the order of the parent.
OrderNode(order) == IF request.byIndex THEN Nil ELSE order

\* selectNode.Next over the pipe: the position of the next document that
\* passes the filter keep, or 0 when the pipe runs out.
NextPassing(from, keep) ==
  LET js == {j \in from + 1 .. Len(Docs) : Docs[j].val \in keep}
  IN  IF js = {} THEN 0 ELSE CHOOSE j \in js : \A k \in js : j <= k

ReadTo(j) == IF j = 0 THEN Len(Docs) ELSE j

\* generateKey and orderedMap.indexesByKey: groups are told apart by the text of
\* their key.
GroupAt(k) == {i \in DOMAIN groups : KeyText[groups[i].key] = KeyText[k]}

\* orderedMap.mergeParent: the document starts a group, or gives the one it falls
\* into its own fields.
Merged(k) ==
  IF GroupAt(k) = {} THEN Append(groups, [key |-> k, kids |-> [c \in Children |-> <<>>]])
  ELSE [i \in DOMAIN groups |-> IF i \in GroupAt(k) THEN [groups[i] EXCEPT !.key = k] ELSE groups[i]]

NoKids == [c \in Children |-> Nil]

-----------------------------------------------------------------------------
(* One round. *)

\* Init of every node but the limit node.
InitSources ==
  /\ docIndex' = 0
  /\ source' = 1
  /\ lastParent' = [s \in Sources |-> 0]
  /\ lastChild' = [s \in Sources |-> 0]
  /\ sorted' = [c \in Children |-> Nil]
  /\ more' = [parent |-> TRUE, child |-> request.childs # <<>>]
  /\ groups' = <<>>
  /\ turn' = "parent"
  /\ values' = <<>>
  /\ rows' = <<>>

\* Mutant: the parent side does not set the pipe back to where it left off.
ReadOn(s) ==
  /\ turn = "parent"
  /\ source = s
  /\ LET j == NextPassing(docIndex, request.keep)
     IN  /\ docIndex' = ReadTo(j)
         /\ lastParent' = [lastParent EXCEPT ![s] = ReadTo(j)]
         /\ more' = [more EXCEPT !.parent = j # 0]
         /\ groups' = IF j = 0 THEN groups ELSE Merged(Docs[j].key)
  /\ turn' = IF more.child THEN "child" ELSE IF more'.parent THEN "parent" ELSE "source"
  /\ UNCHANGED <<request, rounds, round, source, lastChild, sorted, values, rowIndex, rows>>

\* dataSource.mergeParent: the parent side reads its next document, from the
\* pipe position it had reached, and merges it into its group.
mergeParent(s) ==
  /\ turn = "parent"
  /\ source = s
  /\ LET j == NextPassing(lastParent[s], request.keep)
     IN  /\ docIndex' = ReadTo(j)
         /\ lastParent' = [lastParent EXCEPT ![s] = ReadTo(j)]
         /\ more' = [more EXCEPT !.parent = j # 0]
         /\ groups' = IF j = 0 THEN groups ELSE Merged(Docs[j].key)
  /\ turn' = IF more.child THEN "child" ELSE IF more'.parent THEN "parent" ELSE "source"
  /\ UNCHANGED <<request, rounds, round, source, lastChild, sorted, values, rowIndex, rows>>

\* orderedMap.appendChild: the child joins its group, or starts one the parent
\* side has not met yet.
Appended(c, d) ==
  LET gs == IF GroupAt(d.key) # {} THEN groups
            ELSE Append(groups, [key |-> d.key, kids |-> NoKids])
  IN  [i \in DOMAIN gs |->
         IF KeyText[gs[i].key] # KeyText[d.key] THEN gs[i]
         ELSE [gs[i] EXCEPT !.kids[c] =
                 Append(IF @ = Nil THEN <<>> ELSE @, [doc |-> d, hidden |-> FALSE])]]

\* What the child's order node has to yield: it first drains the pipe.
Drained(c) ==
  IF sorted[c] # Nil THEN sorted[c]
  ELSE SortStable(SelectSeq(SubSeq(Docs, lastChild[c] + 1, Len(Docs)),
                            LAMBDA d : d.val \in request.childs[c].keep),
                  "val", OrderNode(request.childs[c].order))

\* dataSource.appendChild: the child side reads its next document, through
\* its order node when it has one.
appendChild(c) ==
  /\ turn = "child"
  /\ source = c
  /\ IF OrderNode(request.childs[c].order) = Nil
     THEN LET j == NextPassing(lastChild[c], request.childs[c].keep)
          IN  /\ docIndex' = ReadTo(j)
              /\ more' = [more EXCEPT !.child = j # 0]
              /\ groups' = IF j = 0 THEN groups ELSE Appended(c, Docs[j])
              /\ UNCHANGED sorted
     ELSE LET left == Drained(c)
          IN  /\ docIndex' = IF sorted[c] = Nil THEN Len(Docs) ELSE lastChild[c]
              /\ more' = [more EXCEPT !.child = left # <<>>]
              /\ groups' = IF left = <<>> THEN groups ELSE Appended(c, Head(left))
              /\ sorted' = [sorted EXCEPT ![c] = IF left = <<>> THEN left ELSE Tail(left)]
  /\ lastChild' = [lastChild EXCEPT ![c] = docIndex']
  /\ turn' = IF more.parent THEN "parent" ELSE IF more'.child THEN "child" ELSE "source"
  /\ UNCHANGED <<request, rounds, round, source, lastParent, values, rowIndex, rows>>

\* The loop of join over the data sources.
nextSource ==
  /\ turn = "source"
  /\ IF source = Len(request.childs) \/ request.childs = <<>>
     THEN turn' = "hide" /\ UNCHANGED <<source, more>>
     ELSE /\ source' = source + 1
          /\ more' = [parent |-> TRUE, child |-> TRUE]
          /\ turn' = "parent"
  /\ UNCHANGED <<request, rounds, round, docIndex, lastParent, lastChild, sorted,
                 groups, values, rowIndex, rows>>

\* groupNode.Next hides the children before the offset, and from limit plus
\* offset on; a limit of 0 hides them all.
Hide(sel, kids) ==
  IF kids = Nil THEN <<>>
  ELSE [i \in DOMAIN kids |->
          [kids[i] EXCEPT !.hidden =
             sel.limited /\ (i <= sel.offset \/ i > sel.limit + sel.offset)]]

\* groupNode.Next once the groups are joined, and the order node, if there is
\* one, draining it.
groupNext ==
  /\ turn = "hide"
  /\ groups' = [i \in DOMAIN groups |->
                  [groups[i] EXCEPT !.kids = [c \in Children |-> Hide(request.childs[c], @[c])]]]
  /\ values' = SortStable(groups', "key", OrderNode(request.order))
  /\ turn' = "rows"
  /\ UNCHANGED <<request, rounds, round, docIndex, source, lastParent, lastChild,
                 sorted, more, rowIndex, rows>>

\* limitNode.Next: passes over the offset and stops at limit plus offset; a
\* limit of 0 is none.
limitNext ==
  /\ turn = "rows"
  /\ IF values = <<>> \/ (request.limit # 0 /\ rowIndex >= request.limit + request.offset)
     THEN turn' = "end" /\ UNCHANGED <<values, rowIndex, rows>>
     ELSE /\ values' = Tail(values)
          /\ rowIndex' = rowIndex + 1
          /\ rows' = IF rowIndex' > request.offset THEN Append(rows, Head(values)) ELSE rows
          /\ UNCHANGED turn
  /\ UNCHANGED <<request, rounds, round, docIndex, source, lastParent, lastChild,
                 sorted, more, groups>>

\* Init of every node, called again for the next parent of a join.
InitAgain ==
  /\ turn = "end"
  /\ round < Len(rounds)
  /\ round' = round + 1
  /\ UNCHANGED <<request, rounds>>
  /\ InitSources
  /\ rowIndex' = 0

Init ==
  /\ request \in Selects
  /\ rounds \in Rounds
  /\ round = 1
  /\ docIndex = 0
  /\ source = 1
  /\ lastParent = [s \in Sources |-> 0]
  /\ lastChild = [s \in Sources |-> 0]
  /\ sorted = [c \in Children |-> Nil]
  /\ more = [parent |-> TRUE, child |-> request.childs # <<>>]
  /\ groups = <<>>
  /\ turn = "parent"
  /\ values = <<>>
  /\ rowIndex = 0
  /\ rows = <<>>

Ended == turn = "end" /\ round = Len(rounds) /\ UNCHANGED vars

Next ==
  \/ \E s \in Sources : mergeParent(s)
  \/ \E c \in Children : appendChild(c)
  \/ nextSource \/ groupNext \/ limitNext \/ InitAgain \/ Ended

Spec == Init /\ [][Next]_vars

-----------------------------------------------------------------------------
\* The children of child select c that belong to the group k, as requested.
KidsOf(c, k) ==
  SortStable(SelectSeq(Docs, LAMBDA d : d.key = k /\ d.val \in request.childs[c].keep),
             "val", request.childs[c].order)

Window(s, limit, offset) ==
  SubSeq(s, offset + 1, IF limit = 0 \/ limit + offset > Len(s) THEN Len(s) ELSE limit + offset)

\* Two keys of this round have one text.
Ambiguous == \E d, e \in Range(Docs) : d.key # e.key /\ KeyText[d.key] = KeyText[e.key]

\* An index takes over the order of the select, and with it that of child c.
OrderLost(c) == request.byIndex /\ request.childs[c].order # Nil

\* An index takes over the order of the select, and a child select reads other
\* documents of the pipe than the select does.
ReadsApart == request.byIndex /\ \E c \in Children : request.childs[c].keep # request.keep

DocsOf(kids) == [j \in DOMAIN kids |-> kids[j].doc]

OneGroupPerKey ==
  turn \in {"rows", "end"} =>
    /\ IsInjective([i \in DOMAIN groups |-> groups[i].key])
    /\ {groups[i].key : i \in DOMAIN groups} =
         {d.key : d \in {x \in Range(Docs) :
            x.val \in request.keep \cup UNION {request.childs[c].keep : c \in Children}}}

KidsInOrder(c) ==
  turn \in {"rows", "end"} =>
    \A i \in DOMAIN groups : DocsOf(groups[i].kids[c]) = KidsOf(c, groups[i].key)

RowsInOrder ==
  turn = "end" =>
    rows = Window(SortStable(groups, "key", request.order), request.limit, request.offset)

(* Once joined, there is one group per key that the select or one of its   *)
(* child selects met, and each group holds, for every child select, that   *)
(* key's documents that pass the child's filter, all of them and once      *)
(* each, and in the child's order: although parents and children read one  *)
(* pipe, in different orders and with different filters, and later data    *)
(* sources read it again (join, mergeParent, appendChild).  This is said   *)
(* of rounds whose keys have different texts; where an index takes over    *)
(* the order of the select, a child's order is not claimed.                *)
GroupsAsAsked ==
  ~Ambiguous =>
    /\ OneGroupPerKey
    /\ \A c \in Children :
         IF OrderLost(c)
         THEN turn \in {"rows", "end"} =>
                \A i \in DOMAIN groups :
                  LET kids == DocsOf(groups[i].kids[c])
                      key  == groups[i].key
                  IN  IsInjective(kids) /\ Range(kids) = Range(KidsOf(c, key))
         ELSE KidsInOrder(c)

(* Every round yields its own groups only, in the requested order, between *)
(* the offset and the limit, whatever the round before it left behind: the *)
(* nodes of a sub-select are initialised again for each parent document    *)
(* (limitNode.Init, orderNode.Init, pipeNode.Init, groupNode.Init).  An    *)
(* index that takes over the order gives the groups that order as long as  *)
(* the child selects have the filter of the select, and the texts of its   *)
(* keys differ.                                                            *)
RowsAsAsked == ReadsApart \/ (request.byIndex /\ Ambiguous) \/ RowsInOrder

(* The children of a group that are shown are the window its child select  *)
(* asked for (groupNode.Next), with the exceptions of GroupsAsAsked.       *)
ShownInWindow ==
  turn = "end" /\ ~Ambiguous =>
    \A i \in DOMAIN groups, c \in Children :
      LET sel  == request.childs[c]
          seen == SelectSeq(groups[i].kids[c], LAMBDA x : ~x.hidden)
      IN  sel.limited /\ sel.limit # 0 /\ ~OrderLost(c) =>
            DocsOf(seen) = Window(KidsOf(c, groups[i].key), sel.limit, sel.offset)

-----------------------------------------------------------------------------
(* What the code does not keep. *)

(* A child select is ordered as it asks for, also where an index takes     *)
(* over the order of the select around it: isOrderedByIndex looks through  *)
(* the pipe and drops the child's order node as well (planner.go:252).     *)
ChildOrderKept == ~Ambiguous => \A c \in Children : KidsInOrder(c)

(* The rows come in the requested order also where an index takes over the *)
(* order and a child select filters: the child then starts groups ahead of *)
(* the parent, and no order node puts them back.                           *)
RowsInOrderAlways == ~Ambiguous => RowsInOrder

(* Documents with different keys are in different groups, also those whose *)
(* keys generateKey writes alike, such as null and the string "<nil>".     *)
KeysKeptApart == OneGroupPerKey
=============================================================================
