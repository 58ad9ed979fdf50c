----------------------------- MODULE MCRequests -----------------------------
(***************************************************************************)
(* A request on its way in and the nodes of the plan that answers it,      *)
(* checked together, one component per behaviour: `part` says which.  Each *)
(* takes what the one below it yields as given, so that this loses         *)
(* nothing, and they share the variables x1 .. x15.                        *)
(***************************************************************************)
EXTENDS Integers, Sequences, FiniteSets

CONSTANT Nil

VARIABLES part, x1, x2, x3, x4, x5, x6, x7, x8, x9, x10, x11, x12, x13, x14, x15

mcvars == <<part, x1, x2, x3, x4, x5, x6, x7, x8, x9, x10, x11, x12, x13, x14, x15>>

Filter == INSTANCE MCFilterPlan WITH
  asked <- x1, sub <- x2, indexed <- x3, doc <- x4, scan <- x5, parent <- x6, todo <- x7,
  turned <- x8, first <- x9, phase <- x10, yielded <- x11, children <- x12, joins <- x13

\* Joins of up to three parents and three children, with foreign keys that are
\* null, lead nowhere or are shared, and two rounds of a join that is run again.
D(i, val, f) == [id |-> i, val |-> val, fk |-> f]
Referring == {<<D(1, 2, f), D(2, 1, g), D(3, 1, h)>> : f, g, h \in {Nil, 1, 2, 9}}
Referred == {<<D(1, p, f), D(2, q, g), D(3, 1, h)>> : p, q \in {1, 2}, f, g, h \in {Nil, 1, 2}}
Bare == <<D(1, 2, Nil), D(2, 1, Nil)>>
OneToOne(s) == \A i, j \in DOMAIN s : i # j => s[i].fk = Nil \/ s[i].fk # s[j].fk

Join == INSTANCE JoinPlan WITH
  Shapes <- {"primary", "one", "many"},
  Collections <- [s \in {"primary", "one", "many"} |->
     IF s = "primary" THEN [parents : Referring, children : {Bare, <<>>}]
     ELSE [parents : {Bare}, children : {c \in Referred : s = "many" \/ OneToOne(c)}]],
  Keeps <- {{1, 2}, {1}}, Rounds <- 2,
  shape <- x1, data <- x2, keep <- x3, subKeep <- x4, turned <- x5, fieldKeep <- x6, dir <- x7,
  exhaustive <- x8, phase <- x9, todo <- x10, orphans <- x11, encountered <- x12, queue <- x13,
  out <- x14, round <- x15

\* Two or three rounds of a group node over at most four documents of three
\* keys, with up to two child selects, of which one is filtered, ordered and
\* limited; one round of a source with two keys of the same text.
Row(i, k, v) == [id |-> i, key |-> k, val |-> v]

Sources ==
  {<<<<Row(1, 1, 2), Row(2, 2, 1), Row(3, 1, 1)>>, <<Row(4, 1, 1), Row(5, 3, 2), Row(6, 2, 2), Row(7, 3, 1)>>>>,
   <<<<Row(1, 1, 1), Row(2, 1, 2), Row(3, 1, 1)>>, <<>>, <<Row(1, 2, 2), Row(2, 1, 1)>>>>,
   <<<<Row(1, 4, 1), Row(2, 3, 2), Row(3, 1, 1)>>>>}

FirstChild == [keep : {{1}, {1, 2}}, order : {Nil, "ASC", "DESC"}, limited : BOOLEAN,
               limit : {0, 1}, offset : {0, 1}]
SecondChild == [keep : {{1, 2}}, order : {Nil, "DESC"}, limited : {FALSE}, limit : {0}, offset : {0}]
Children == {<<>>} \cup {<<c>> : c \in FirstChild} \cup {<<c, d>> : c \in FirstChild, d \in SecondChild}

Group == INSTANCE GroupPlan WITH
  Rounds <- Sources, KeyText <- <<1, 2, 3, 3>>,
  Selects <- {q \in [keep : {{1, 2}, {1}}, childs : Children, order : {Nil, "DESC"},
                     byIndex : BOOLEAN, limit : {0, 2}, offset : {0, 1}] :
                q.byIndex => q.order # Nil /\ q.limit = 0},
  request <- x1, rounds <- x2, round <- x3, docIndex <- x4, source <- x5, lastParent <- x6,
  lastChild <- x7, sorted <- x8, more <- x9, groups <- x10, turn <- x11, values <- x12,
  rowIndex <- x13, rows <- x14

\* Requests of one or two aggregates over an inline array and over a relation,
\* with and without a filter, a window and an order.
T(h, f, l, o) ==
  [host |-> h, child |-> IF h = "books" THEN "rating" ELSE "",
   filter |-> f, limit |-> l, order |-> o]
NF == {<<"none", 0>>}
Targets ==
  {T("numbers", NF, <<>>, ""), T("numbers", {<<"_gt", 1>>}, <<1, 0>>, "DESC"),
   T("books", NF, <<>>, ""), T("books", {<<"_gt", 1>>}, <<1, 0>>, "DESC"),
   T("books", {<<"_neq", Nil>>}, <<1, 0>>, "ASC")}
Any(names, targets) ==
  [name : names, target : targets, keep : {{}}]
    \cup [name : {"_avg"}, target : targets, keep : {{<<"_gt", 1>>}}]
Asked ==
  LET one == Any({"_count", "_sum", "_avg", "_max", "_min"}, Targets)
      other == Any({"_count", "_sum", "_avg"},
                   {T("numbers", NF, <<>>, ""), T("books", {<<"_neq", Nil>>}, <<1, 0>>, "ASC")})
  IN  {<<r>> : r \in one} \cup {<<r, s>> : r \in one, s \in other}
       \cup {<<s, r>> : r \in one, s \in other}

Agg == INSTANCE Aggregates WITH
  Requests <- Asked,
  Selects <- {<<>>, <<T("books", {<<"_gt", 1>>}, <<1, 0>>, "DESC")>>},
  Inline <- {"numbers"},
  Data <- {[h \in {"numbers", "books"} |-> s] : s \in {<<>>, <<Nil, 1>>, <<3, Nil, 2>>}},
  request <- x1, data <- x2, aggs <- x3, at <- x4, hosts <- x5, phase <- x6, value <- x7,
  yielded <- x8

Fetch == INSTANCE MCIndexFetch WITH
  request <- x1, indexes <- x2, docs <- x3, index <- x4, top <- x5, deleted <- x6, crash <- x7,
  out <- x8, phase <- x9

Way == INSTANCE MCTransports WITH
  env <- x1, call <- x2, todo <- x3, ran <- x4, outcome <- x5, txn <- x6, doc <- x7, raced <- x8

\* The variables a part leaves out.
No10to15 == x10 = 0 /\ x11 = 0 /\ x12 = 0 /\ x13 = 0 /\ x14 = 0 /\ x15 = 0

MCInit ==
  \/ part = "way" /\ Way!Init /\ x9 = 0 /\ No10to15
  \/ part = "filter" /\ Filter!Init /\ x14 = 0 /\ x15 = 0
  \/ part = "join" /\ Join!Init
  \/ part = "group" /\ Group!Init /\ x15 = 0
  \/ part = "aggregates" /\ Agg!Init /\ x9 = 0 /\ No10to15
  \/ part = "fetch" /\ Fetch!Init /\ No10to15

MCNext ==
  /\ UNCHANGED part
  /\ \/ part = "way" /\ Way!Next /\ UNCHANGED <<x9, x10, x11, x12, x13, x14, x15>>
     \/ part = "filter" /\ Filter!Next /\ UNCHANGED <<x14, x15>>
     \/ part = "join" /\ Join!Next
     \/ part = "group" /\ Group!Next /\ UNCHANGED x15
     \/ part = "aggregates" /\ Agg!Next /\ UNCHANGED <<x9, x10, x11, x12, x13, x14, x15>>
     \/ part = "fetch" /\ Fetch!Next /\ UNCHANGED <<x10, x11, x12, x13, x14, x15>>

MCSpec == MCInit /\ [][MCNext]_mcvars

-----------------------------------------------------------------------------
\* Whatever way in a call took, what the database runs is the operation the
\* caller asked for, with the arguments given but for the few a way does not
\* carry (NotCarried); as the caller, but for three operations that leave the
\* identity out (IdentityDropped); in the transaction the caller named, but for
\* those that leave it out (OutsideTxn); and saving a document adds or updates
\* it once, unless somebody else changes it between the two calls that it is
\* made of.
RunsAsAsked ==
  part = "way" => Way!SameCall /\ Way!ActsAsCaller /\ Way!StaysInTxn /\ Way!SaveAsOne

\* A caller is not told that a call succeeded when it failed, but for two that
\* hide it (FailureHidden); a call that runs well is not reported as failed, nor
\* one that nothing stands against kept from running, but for the values a way
\* refuses (Refused); and a conflict of transactions is told as one, so that the
\* caller can retry.
AnsweredTruly == part = "way" => Way!FailureReported /\ Way!SuccessReported /\ Way!ConflictTold

\* A select yields a document exactly when it matches the requested filter,
\* although the planner takes the filter apart and may turn a join around, and
\* a to-many join fetches the children that match the child select's filter;
\* apart from filters on children that a child select's own filter hides, on
\* foreign keys inside operators, and several joins of which one is turned.
YieldedAsAsked == part = "filter" => Filter!YieldedAsAsked /\ Filter!ChildrenAsAsked

\* A join yields every parent it was asked for, whatever side it starts from,
\* each once and with exactly the related documents asked for, and in the order
\* that turned it; apart from turned joins to one with a filter on the child.
JoinedAsAsked ==
  part = "join" => Join!OnceWithItsChildren /\ Join!NoneLost /\ Join!InRequestedOrder

\* Every round of a sub-select yields its own groups, in order and in the
\* window; each group holds, for every child select, the documents it asks for,
\* and shows those in its window; apart from keys with one text, and from the
\* orders that an index taking over the order of the select leaves out.
GroupedAsAsked ==
  part = "group" => Group!RowsAsAsked /\ Group!GroupsAsAsked /\ Group!ShownInWindow

\* Each aggregate ends with the value of its own target, and a document is
\* yielded exactly when its aggregate filters are satisfied; apart from requests
\* in which an average borrows an aggregate asked for before it or with another
\* window, or loses its own _neq, and from nulls under _max and _min.
ValuesAsRequested == part = "aggregates" => Agg!ValuesAsRequested /\ Agg!FiltersDecide

\* With an index, a select yields the documents it would yield without one, and
\* where the index takes over the ordering, in that order.
FetchesAsAsked == part = "fetch" => Fetch!FetchesAsAsked /\ Fetch!OrderedByIndex

-----------------------------------------------------------------------------
(* What the code does not keep; TLC finds each of these violated. *)

GoStaysInTxn == part = "way" => Way!GoStaysInTxn
SaveAsOneAlways == part = "way" => Way!SaveAsOneAlways
YieldedWithSubFilter == part = "filter" => Filter!YieldedWithSubFilter
MergeIsAnd == part = "filter" => Filter!MergeIsAnd
HostStillReturned == part = "join" => Join!HostStillReturned
OnlyAskedFor == part = "join" => Join!OnlyAskedFor
ChildOrderKept == part = "group" => Group!ChildOrderKept
RowsInOrderAlways == part = "group" => Group!RowsInOrderAlways
KeysKeptApart == part = "group" => Group!KeysKeptApart
DependenciesFirst == part = "aggregates" => Agg!DependenciesFirst
AveragesStandAlone == part = "aggregates" => Agg!AveragesStandAlone
NullsPassedOver == part = "aggregates" => Agg!NullsPassedOver
FetchesAsAskedAlways == part = "fetch" => Fetch!FetchesAsAskedAlways
OrderedByIndexAlways == part = "fetch" => Fetch!OrderedByIndexAlways
NoCrash == part = "fetch" => Fetch!NoCrash
FetchEnds == part = "fetch" => Fetch!FetchEnds
=============================================================================
