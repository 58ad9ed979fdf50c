----------------------------- MODULE Transports -----------------------------
(***************************************************************************)
(* One call of an operation, made through one of the ways in, on its way   *)
(* to the database and back.  Every layer on the way turns the call into   *)
(* one or more calls of the next layer, as its table says; at the end the  *)
(* database runs them.  Meanwhile somebody else may end the transaction    *)
(* the call is made in, or add or delete the document it is about.         *)
(***************************************************************************)
EXTENDS HTTPTables, BindingTables

CONSTANTS Called,   \* the operations that are called
          Names,    \* the names of the collections they are called on
          Settings  \* the configurations of the node

VARIABLES env,      \* the node: access control, network, development mode
          call,     \* what the caller asked for
          todo,     \* the calls still to be made, the next one first
          ran,      \* what the database has run, in order
          outcome,  \* what the caller was told
          txn,      \* the caller's transaction: "open", "ended", "failed"
          doc,      \* the document: "there", "missing", "deleted"
          raced     \* whether somebody else changed the document meanwhile

vars == <<env, call, todo, ran, outcome, txn, doc, raced>>

-----------------------------------------------------------------------------
(***************************************************************************)
(* Where every way in ends: the methods of the database and of its         *)
(* collections (internal/db), reduced to what they do before and after the *)
(* operation proper: the permission of the caller that is checked, what a  *)
(* node without a network answers, the transaction that is opened when the *)
(* context has none, and whether a collection's method first puts the      *)
(* collection's own transaction on the context.                            *)
(***************************************************************************)

Method ==
  [perm |-> TRUE, p2p |-> "unused", own |-> "rw", binds |-> FALSE]

Methods(ops) == [op \in ops |-> Method]
Reading(methods) == [op \in DOMAIN methods |-> [methods[op] EXCEPT !.own = "ro"]]
NoTxn(methods) == [op \in DOMAIN methods |-> [methods[op] EXCEPT !.own = "none"]]
NoPerm(methods) == [op \in DOMAIN methods |-> [methods[op] EXCEPT !.perm = FALSE]]
NeedsP2P(methods) ==
  [op \in DOMAIN methods |-> [methods[op] EXCEPT !.p2p = "error"]]
Binding(methods) == [op \in DOMAIN methods |-> [methods[op] EXCEPT !.binds = TRUE]]

-----------------------------------------------------------------------------

\* The planner checks the permissions of a request.  GetCollections opens a
\* transaction it could write in, but never commits it.
DBReads ==
  NoPerm(Methods({"ExecRequest"}))
    @@ Reading(Methods({"GetCollections", "GetCollectionByName", "ListIndexes",
                        "ListAllEncryptedIndexes"}))

DBDefinitions ==
  Methods({"AddCollection", "PatchCollection", "DeleteCollection"})

DBLenses ==
  Methods({"SetActiveCollectionVersion", "SetMigration", "AddLens", "AddView"})
    @@ Reading(Methods({"ListLenses"}))

DBBackup ==
  Methods({"RefreshViews"}) @@ NoPerm(Methods({"BasicImport"}))
    @@ NoPerm(Reading(Methods({"BasicExport"})))

\* Without a network PeerInfo answers nothing, without an error, and Connect
\* has no check at all.
DBReplicators ==
  NeedsP2P(Methods({"AddReplicator", "DeleteReplicator"}))
    @@ NeedsP2P(Reading(Methods({"ListReplicators"})))
    @@ [op \in {"PeerInfo", "Connect", "ActivePeers"} |->
          [Method EXCEPT !.own = "none",
                         !.p2p = CASE op = "PeerInfo" -> "nothing"
                                   [] op = "Connect" -> "unchecked"
                                   [] OTHER -> "error"]]

DBP2PCollections ==
  NeedsP2P(Methods({"AddP2PCollections", "DeleteP2PCollections"}))
    @@ NeedsP2P(Reading(Methods({"ListP2PCollections"})))

DBP2PDocuments ==
  NeedsP2P(Methods({"AddP2PDocuments", "DeleteP2PDocuments"}))
    @@ NeedsP2P(Reading(Methods({"ListP2PDocuments"})))

DBSync ==
  NeedsP2P(Methods({"SyncCollectionVersions"}))
    @@ NeedsP2P(NoTxn(Methods({"SyncDocuments", "SyncBranchableCollection"})))

DBNAC ==
  Methods({"ReEnableNAC", "DisableNAC"})
    @@ NoTxn(Methods({"GetNACStatus", "AddNACActorRelationship",
                      "DeleteNACActorRelationship"}))

\* The collection of a relationship is looked up.
DBDAC ==
  NoTxn(Methods({"AddDACPolicy"}))
    @@ Reading(Methods({"AddDACActorRelationship", "DeleteDACActorRelationship"}))

DBNode ==
  NoPerm(NoTxn(Methods({"PrintDump", "GetNodeIdentity"})))

DBVerify == Reading(Methods({"VerifySignature"}))

DBAdd == Binding(Methods({"AddDocument", "AddManyDocuments"}))
DBUpdate == Binding(Methods({"UpdateDocument"}))
DBSave == Binding(Methods({"SaveDocument"}))

\* ExistsDocument does not look at the collection's transaction.
DBDelete ==
  Binding(Methods({"DeleteDocument"})) @@ Methods({"ExistsDocument"})

DBDeleteWithFilter == Binding(Methods({"DeleteDocumentsWithFilter"}))
DBGetDocument == Binding(Reading(Methods({"GetDocument"})))
DBUpdateWithFilter == Binding(Methods({"UpdateDocumentsWithFilter"}))

DBNewIndex == Binding(Methods({"NewIndex"}))
DBDeleteIndex ==
  Binding(Methods({"DeleteIndex"})) @@ NoTxn(Methods({"ListCollectionIndexes"}))
DBEncryptedIndexes ==
  Binding(Methods({"NewEncryptedIndex", "DeleteEncryptedIndex"}))
    @@ NoTxn(Methods({"ListCollectionEncryptedIndexes"}))
DBTruncate == Binding(Methods({"Truncate"}))

DB ==
  DBReads @@ DBDefinitions @@ DBLenses @@ DBBackup @@ DBReplicators
    @@ DBP2PCollections @@ DBP2PDocuments @@ DBSync @@ DBNAC @@ DBDAC @@ DBNode
    @@ DBVerify @@ DBAdd @@ DBUpdate @@ DBSave @@ DBDelete @@ DBDeleteWithFilter
    @@ DBGetDocument @@ DBUpdateWithFilter @@ DBNewIndex @@ DBDeleteIndex
    @@ DBEncryptedIndexes @@ DBTruncate

\* getCollections leaves the transaction out of the collections it makes when
\* it is told that the transaction is an ephemeral one, and
\* getCollectionByName always tells it so.
KeepsTxn == [GetCollections |-> TRUE, GetCollectionByName |-> FALSE]

-----------------------------------------------------------------------------
(***************************************************************************)
(* A transaction's own methods: "init" puts the transaction on the         *)
(* context, "checks" refuses a transaction that has ended.  Both come      *)
(* before the database's method of the same name.                          *)
(***************************************************************************)

Under == [init |-> TRUE, checks |-> TRUE]

TxnUnder(ops) == [op \in ops |-> Under]

GoTxnDAC ==
  TxnUnder({"PrintDump", "AddDACPolicy", "AddDACActorRelationship",
            "DeleteDACActorRelationship", "AddNACActorRelationship",
            "DeleteNACActorRelationship", "ReEnableNAC", "DisableNAC",
            "GetNACStatus"})

\* DeleteCollection neither takes the lock nor looks at isClosed.
GoTxnDefinitions ==
  TxnUnder({"GetNodeIdentity", "VerifySignature", "AddCollection",
            "PatchCollection", "SetActiveCollectionVersion", "AddView",
            "RefreshViews", "SetMigration", "AddLens"})
    @@ [DeleteCollection |-> [Under EXCEPT !.checks = FALSE]]

GoTxnReads ==
  TxnUnder({"ListLenses", "GetCollectionByName", "GetCollections", "ListIndexes",
            "ListAllEncryptedIndexes", "ExecRequest", "BasicImport", "BasicExport"})

GoTxnReplicators ==
  TxnUnder({"AddReplicator", "DeleteReplicator", "ListReplicators",
            "AddP2PCollections", "DeleteP2PCollections", "ListP2PCollections"})
    @@ [op \in {"PeerInfo", "ActivePeers", "Connect"} |->
          [Under EXCEPT !.init = FALSE]]

GoTxnSync ==
  TxnUnder({"AddP2PDocuments", "DeleteP2PDocuments", "ListP2PDocuments",
            "SyncDocuments", "SyncCollectionVersions", "SyncBranchableCollection"})

\* A collection got in a transaction checks that transaction, and does not put
\* it on the context.
GoTxnDocuments ==
  [op \in {"AddDocument", "AddManyDocuments", "UpdateDocument", "SaveDocument",
           "DeleteDocument", "ExistsDocument", "UpdateDocumentsWithFilter",
           "DeleteDocumentsWithFilter", "GetDocument"} |->
     [Under EXCEPT !.init = FALSE]]

GoTxnIndexes ==
  [op \in {"NewIndex", "DeleteIndex", "ListCollectionIndexes",
           "NewEncryptedIndex", "DeleteEncryptedIndex",
           "ListCollectionEncryptedIndexes", "Truncate"} |->
     [Under EXCEPT !.init = FALSE]]

GoTxn ==
  GoTxnDAC @@ GoTxnDefinitions @@ GoTxnReads @@ GoTxnReplicators @@ GoTxnSync
    @@ GoTxnDocuments @@ GoTxnIndexes

-----------------------------------------------------------------------------
NoCall ==
  [way |-> "none", op |-> "none", vals |-> <<>>, ident |-> "none",
   txn |-> FALSE, got |-> "none"]

Ways == {"go", "http", "cli", "c", "js", "jstx"}

Layers(way) ==
  CASE way = "go"   -> <<>>
    [] way = "http" -> <<HTTPClient, HTTPServer>>
    [] way = "cli"  -> <<NewDefraCommand, HTTPClient, HTTPServer>>
    [] way = "c"    -> <<CWrapper, CFunctions>>
    [] way = "js"   -> <<JSClient>>
    [] way = "jstx" -> <<JSTransaction>>

Offered(way) ==
  IF way = "go" THEN Ops
  ELSE {op \in Ops \cap DOMAIN Layers(way)[1] : ~Layers(way)[1][op].panics}

IsCollectionOp(op) == op \in DOMAIN CollectionMethods

-----------------------------------------------------------------------------
(***************************************************************************)
(* The values of a call.  Bound: all are given, all are empty, or exactly  *)
(* one is not given.                                                       *)
(***************************************************************************)

\* A key, its type, the ID of a document and the name of an operation have no
\* empty value.  The command line and C cannot tell an empty option from one
\* that is not set.
Values(way, op, x) ==
  {"val"} \cup (IF \/ x \in {"key", "keyType", "operationName"}
                   \/ x = "docID" /\ IsCollectionOp(op)
                   \/ x \in Immutable /\ way \in {"cli", "c"}
                THEN {} ELSE {"zero"})
          \cup (IF x \in Immutable THEN {"absent"} ELSE {})

Variations(way, op) ==
  LET all == [x \in Args(op) |-> "val"]
      least == [x \in Args(op) |->
                  CHOOSE v \in Values(way, op, x) :
                    Values(way, op, x) # {"val"} => v # "val"]
      given(f) == [x \in {y \in Args(op) : f[y] # "absent"} |-> f[x]]
  IN  {given(all), given(least)}
        \cup UNION {{given([all EXCEPT ![x] = v]) : v \in Values(way, op, x)}
                       : x \in Args(op)}

\* A value of a call that is not an option is empty when it is not there.
Normal(op, vals) ==
  [x \in Args(op) |-> IF x \in DOMAIN vals THEN vals[x]
                      ELSE IF x \in Immutable THEN "absent" ELSE "zero"]

-----------------------------------------------------------------------------

\* The transactions of http and of the C wrapper leave some methods to the
\* client they are made from, which does not know the transaction.
TakesTxn(way, op) ==
  CASE way = "http" -> op \in HTTPTxnMethods
    [] way = "c"    -> op \in CTxnMethods
    [] OTHER        -> TRUE

\* "got" is how the caller got the collection the operation is called on.
Call(way, op, vals, name, ident, inTxn, got) ==
  /\ way = "jstx" => inTxn
  /\ ident # "none" => TakesIdentity(op)
  /\ got # "GetCollections" => IsCollectionOp(op) /\ way \in {"go", "js", "jstx"}
  /\ ~IsCollectionOp(op) => name = "val"
  /\ call' = [way |-> way, op |-> op, vals |-> vals, ident |-> ident,
              txn |-> inTxn, got |-> got]
  /\ todo' = <<[level |-> 1, name |-> op, ident |-> ident,
                vals |-> vals @@ (IF IsCollectionOp(op) THEN [col |-> name] ELSE <<>>),
                txn |-> inTxn /\ TakesTxn(way, op),
                via |-> TRUE, other |-> None, hides |-> {}]>>
  /\ UNCHANGED <<env, ran, outcome, txn, doc, raced>>

\* What the caller can tell apart: ReviveError knows two errors by their text,
\* the C wrapper and the command line keep only the text.
ReviveError == {"ok", "notfound", "conflict"}

Told(out) ==
  CASE call.way = "http"      -> IF out \in ReviveError THEN out ELSE "other"
    [] call.way \in {"cli", "c"} -> IF out = "ok" THEN out ELSE "other"
    [] OTHER              -> out

Return(out, hides) ==
  /\ outcome' = IF out \in hides THEN "ok" ELSE Told(out)
  /\ todo' = <<>>

\* The server forgets a transaction that was committed or discarded, and C
\* also one whose commit failed.
Forgotten ==
  CASE call.way \in {"http", "cli"} -> txn = "ended"
    [] call.way = "c"               -> txn # "open"
    [] OTHER                    -> FALSE

\* chi prefers a route without a parameter: these two are not collections.
Route(m) ==
  CASE m.name = "POST collections/{name}" /\ m.vals.col = "default" ->
         "POST collections/default"
    [] m.name = "POST collections/{name}" /\ m.vals.col = "migrations" ->
         "POST collections/migrations"
    [] OTHER -> m.name

\* The next call passes a layer.
Pass ==
  /\ todo # <<>>
  /\ Head(todo).level <= Len(Layers(call.way))
  /\ LET m == Head(todo)
         row == Layers(call.way)[m.level][Route(m)]
         i == Taken(row, m.vals)
         sub(c, other) ==
           [level |-> m.level + 1, name |-> c.to,
            vals |-> Put(c.put, m.vals)
                       @@ (IF row.col /\ "col" \in DOMAIN m.vals
                           THEN [col |-> m.vals.col] ELSE <<>>),
            ident |-> IF row.id THEN m.ident ELSE "none",
            txn |-> m.txn /\ row.txn, via |-> row.via, other |-> other,
            hides |-> m.hides \cup row.hides]
     IN  IF \/ i = 0
            \/ row.node /\ m.txn
            \/ row.dev /\ ~env.dev
            \/ m.level = Len(Layers(call.way)) /\ m.txn /\ Forgotten
         THEN Return("refused", m.hides)
         ELSE LET way == row.ways[i]
                  firsts == [j \in DOMAIN way.first |-> sub(way.first[j], None)]
                  main == sub([to |-> way.to, put |-> way.put],
                              IF way.other = None THEN None
                              ELSE [to |-> way.other.to,
                                    put |-> Put(way.other.put, m.vals)])
              IN  /\ todo' = firsts \o <<main>> \o Tail(todo)
                  /\ UNCHANGED outcome
  /\ UNCHANGED <<env, call, ran, txn, doc, raced>>

-----------------------------------------------------------------------------
(***************************************************************************)
(* The database runs a call.                                               *)
(***************************************************************************)

\* Whether the operation runs in the caller's transaction: it is on the
\* context, or put there by the transaction's method, or by the collection.
InTxn(m) ==
  /\ m.txn
  /\ \/ call.way \in {"http", "cli", "c"}
     \/ GoTxn[m.name].init
     \/ /\ IsCollectionOp(m.name)
        /\ DB[m.name].binds
        /\ KeepsTxn[call.got]

\* isClosed is not set by a commit that failed; the store then refuses the
\* operations that do run in the transaction.
AfterEnd(m) ==
  /\ m.txn
  /\ \/ txn # "open" /\ InTxn(m)
     \/ txn = "ended" /\ m.via /\ GoTxn[m.name].checks

checkNodeAccess(m) == DB[m.name].perm /\ env.nac => m.ident = "alice"

\* What a document's operation finds, by the state of the document.
OnDocument(m) ==
  CASE m.name = "GetDocument" ->
         LET shown == doc = "there" \/ (doc = "deleted" /\ "showDeleted" \in DOMAIN m.vals
                                          /\ m.vals.showDeleted = "val")
         IN  IF shown THEN "ok" ELSE "notfound"
    [] m.name = "UpdateDocument" ->
         [there |-> "ok", missing |-> "notfound", deleted |-> "other"][doc]
    [] m.name = "AddDocument" ->
         [there |-> "exists", missing |-> "ok", deleted |-> "other"][doc]
    [] m.name = "SaveDocument" /\ doc = "deleted" -> "other"
    [] OTHER -> "ok"

Possible(m) ==
  CASE AfterEnd(m) -> {"other"}
    [] ~AfterEnd(m) /\ ~checkNodeAccess(m) -> {"denied"}
    [] ~AfterEnd(m) /\ checkNodeAccess(m) /\ ~env.p2p
         /\ DB[m.name].p2p # "unused" ->
         [error |-> {"other"}, nothing |-> {"ok"}, unchecked |-> {"panic"}]
           [DB[m.name].p2p]
    [] OTHER -> {OnDocument(m), "other"}
                  \cup (IF DB[m.name].own = "rw" /\ ~InTxn(m) THEN {"conflict"} ELSE {})

\* After a failure the calls that are left are not made, except that a save
\* that does not find the document adds it instead.
AfterFailure(m, out) ==
  LET saves == {i \in 2..Len(todo) : todo[i].other # None}
      i == CHOOSE j \in saves : \A k \in saves : j <= k
  IN  IF out = "notfound" /\ saves # {}
      THEN /\ todo' = <<[todo[i] EXCEPT !.name = todo[i].other.to,
                           !.vals = todo[i].other.put @@ [col |-> todo[i].vals.col],
                           !.other = None]>> \o SubSeq(todo, i + 1, Len(todo))
           /\ UNCHANGED outcome
      ELSE Return(out, m.hides)

\* Mutant: the calls that are left are made in spite of a failure.
RunOn(out) ==
  LET m == Head(todo) IN
  /\ m.level > Len(Layers(call.way))
  /\ out \in Possible(m)
  /\ ran' = Append(ran, [op |-> m.name, vals |-> Normal(m.name, m.vals),
                         ident |-> m.ident, in |-> InTxn(m), out |-> out])
  /\ IF Len(todo) = 1 THEN Return(out, m.hides)
     ELSE todo' = Tail(todo) /\ UNCHANGED outcome
  /\ UNCHANGED <<env, call, txn, doc, raced>>

Run(out) ==
  LET m == Head(todo) IN
  /\ m.level > Len(Layers(call.way))
  /\ out \in Possible(m)
  /\ ran' = Append(ran, [op |-> m.name, vals |-> Normal(m.name, m.vals),
                         ident |-> m.ident, in |-> InTxn(m), out |-> out])
  /\ IF out # "ok" THEN AfterFailure(m, out)
     ELSE IF Len(todo) = 1 THEN Return(out, m.hides)
     ELSE todo' = Tail(todo) /\ UNCHANGED outcome
  /\ UNCHANGED <<env, call, txn, doc, raced>>

\* Somebody else commits or discards the transaction.
EndTxn(how) ==
  /\ todo # <<>>
  /\ call.txn
  /\ txn = "open"
  /\ txn' = how
  /\ UNCHANGED <<env, call, todo, ran, outcome, doc, raced>>

\* Somebody else adds or deletes the document, outside the transaction.
Race(d) ==
  /\ todo # <<>>
  /\ ~raced
  /\ call.op = "SaveDocument"
  /\ d = [there |-> "deleted", missing |-> "there", deleted |-> "none"][doc]
  /\ doc' = d
  /\ raced' = TRUE
  /\ UNCHANGED <<env, call, todo, ran, outcome, txn>>

Done == outcome # "none" /\ UNCHANGED vars

Init ==
  /\ env \in Settings
  /\ call = NoCall /\ todo = <<>> /\ ran = <<>>
  /\ outcome = "none"
  /\ txn = "open"
  /\ doc \in {"there", "missing", "deleted"}
  /\ raced = FALSE

Next ==
  \/ /\ call = NoCall
     /\ \E way \in Ways : \E op \in Called \cap Offered(way) :
          \E vals \in Variations(way, op), name \in Names, inTxn \in BOOLEAN,
             ident \in {"alice", "none"}, got \in DOMAIN KeepsTxn :
            Call(way, op, vals, name, ident, inTxn, got)
  \/ Pass
  \/ todo # <<>> /\ \E out \in {"ok", "notfound", "exists", "conflict", "denied",
                                "other", "panic"} : Run(out)
  \/ \E how \in {"ended", "failed"} : EndTxn(how)
  \/ \E d \in {"there", "deleted"} : Race(d)
  \/ Done

Spec == Init /\ [][Next]_vars

-----------------------------------------------------------------------------
Returned == outcome # "none"

Last == ran[Len(ran)]

\* The calls of the database that do what the caller asked for.
Asked ==
  LET is(op, vals) == [op |-> op, vals |-> Normal(op, vals)]
  IN  {is(call.op, call.vals)}
        \cup CASE call.op = "SaveDocument" ->
                    {is("UpdateDocument", [docID |-> "val", updater |-> call.vals.doc]),
                     is("AddDocument", call.vals)}
               [] call.op = "ExistsDocument" -> {is("GetDocument", call.vals)}
               [] call.op = "GetCollectionByName" ->
                    {is("GetCollections", [collectionName |-> call.vals.name])}
               [] OTHER -> {}

\* What a way does not carry: the collection set, the type of an encrypted
\* index in C, and there also the empty name, which selects every collection.
NotCarried ==
  \/ call.way # "go" /\ "collectionSetID" \in DOMAIN call.vals
  \/ call.way = "c" /\ call.op = "NewEncryptedIndex"
  \/ call.way = "c" /\ call.op = "GetCollectionByName" /\ call.vals.name = "zero"

\* An operation that is reported as done was run by the database under the
\* name, and with the arguments and options, that the caller gave, whatever
\* the layers between them wrote, parsed and defaulted; apart from what a way
\* does not carry.
SameCall ==
  Returned /\ outcome = "ok" /\ ran # <<>> /\ ~NotCarried =>
    [op |-> Last.op, vals |-> Last.vals] \in Asked

\* ListIndexes of the server and ExistsDocument of the HTTP client, and
\* GetCollectionByName of the C wrapper, leave the identity out.
IdentityDropped ==
  \/ call.way \in {"http", "cli"} /\ call.op \in {"ListIndexes", "ExistsDocument"}
  \/ call.way = "c" /\ call.op = "GetCollectionByName"

\* Every operation the database runs for a caller, those that only look
\* something up on the way included, it runs as that caller: access control
\* decides about the identity that was given, and about no other; apart from
\* the operations above.
ActsAsCaller ==
  ~IdentityDropped =>
    \A i \in DOMAIN ran : TakesIdentity(ran[i].op) => ran[i].ident = call.ident

\* Every operation that reads or writes the store for a caller in a
\* transaction does so in that transaction.
StaysInTxnAlways ==
  call.txn => \A i \in DOMAIN ran : DB[ran[i].op].own # "none" => ran[i].in

\* The same of a caller in Go: what Txn promises, that the methods of Store,
\* and those of the collections got from it, are executed under the
\* transaction.
GoStaysInTxn == call.way = "go" => StaysInTxnAlways

\* The methods a transaction leaves to its client, AddManyDocuments in C, and
\* in Go and JavaScript ExistsDocument and the collections got by name.
OutsideTxn ==
  \/ ~TakesTxn(call.way, call.op)
  \/ call.way = "c" /\ call.op = "AddManyDocuments"
  \/ /\ call.way \in {"go", "js", "jstx"} /\ IsCollectionOp(call.op)
     /\ call.got = "GetCollectionByName" \/ call.op = "ExistsDocument"

\* With the exceptions above, an operation called in a transaction runs in it.
StaysInTxn == ~OutsideTxn => StaysInTxnAlways

\* The HTTP client decodes whatever answers ExecRequest as its result, and the
\* C wrapper does not look at the commit of AddCollection.
FailureHidden ==
  \/ call.way \in {"http", "cli"} /\ call.op = "ExecRequest" /\ ran = <<>>
  \/ call.way = "c" /\ call.op = "AddCollection"

\* Nothing is reported as done unless the database ran it and it succeeded,
\* and so did everything that was run on the way (but for not finding the
\* document that a save then adds); apart from the two calls above.
FailureReported ==
  Returned /\ outcome = "ok" /\ ~FailureHidden =>
    /\ ran # <<>>
    /\ \A i \in DOMAIN ran :
         \/ ran[i].out = "ok"
         \/ i < Len(ran) /\ call.op = "SaveDocument" /\ ran[i].out = "notfound"

\* The empty values that a way refuses before the database sees the call.
RefusedWhenEmpty(way) ==
  LET http == {<<"AddManyDocuments", "docs">>, <<"DeleteIndex", "name">>,
               <<"DeleteEncryptedIndex", "field">>, <<"VerifySignature", "cid">>}
      cli == {<<"BasicExport", "format">>, <<"ExecRequest", "request">>,
              <<"SyncCollectionVersions", "versions">>, <<"SyncDocuments", "docIDs">>,
              <<"UpdateDocument", "updater">>, <<"UpdateDocumentsWithFilter", "updater">>,
              <<"UpdateDocumentsWithFilter", "filter">>,
              <<"DeleteDocumentsWithFilter", "filter">>}
  IN  CASE way = "http" -> http
        [] way = "cli"  -> http \cup cli
        [] way = "c"    -> {<<"AddManyDocuments", "docs">>,
                            <<"SyncBranchableCollection", "timeout">>}
        [] OTHER        -> {}

Refused ==
  \/ \E x \in DOMAIN call.vals :
       call.vals[x] = "zero" /\ <<call.op, x>> \in RefusedWhenEmpty(call.way)
  \/ call.way \in {"http", "cli"} /\ ~env.dev /\ call.op \in {"BasicImport", "BasicExport"}
  \/ call.way = "c" /\ call.op = "ExistsDocument"

\* A call that no way refuses reaches the database, and when everything that
\* was run for it succeeded the caller is told so.
SuccessReported ==
  /\ Returned
  /\ txn = "open"
  /\ \A i \in DOMAIN ran : ran[i].out = "ok"
  /\ ~Refused
  => outcome = "ok"

\* A caller that would try again after a conflict learns of it.
ConflictTold ==
  /\ Returned /\ ran # <<>> /\ Last.out = "conflict"
  /\ call.way \in {"go", "http", "js", "jstx"}
  => outcome = "conflict"

\* A save adds or updates, whichever fits.
SaveAsOneAlways ==
  Returned /\ call.op = "SaveDocument" /\ ran # <<>> /\ txn = "open" =>
    Last.out \notin {"notfound", "exists"}

\* The ways that look for the document first and then add or update it, in
\* two requests, do so as well as long as nobody else changes it in between.
SaveAsOne == ~raced => SaveAsOneAlways
=============================================================================
