------------------------------ MODULE StoreAPI ------------------------------
(***************************************************************************)
(* The operations a DefraDB user can call, whatever the way in: the        *)
(* methods of client.Store, client.Collection and client.P2P with their    *)
(* positional arguments, and the optional arguments their option builders  *)
(* can set.  An argument is "zero" (the empty string, an empty list,       *)
(* false), "val" (anything else), or, when it is an immutable.Option, also *)
(* absent.                                                                 *)
(*                                                                         *)
(* The module also fixes the shape shared by every layer a call passes     *)
(* through: a layer is a table of rows, and a row says which operation of  *)
(* the next layer it calls and from which of its own inputs each input of  *)
(* that operation is taken.                                                *)
(***************************************************************************)
EXTENDS Naturals, TLC, Sequences, FiniteSets

(***************************************************************************)
(* Positional arguments.                                                   *)
(***************************************************************************)

AccessMethods ==
  [ PrintDump |-> {}, AddDACPolicy |-> {"policy"},
    AddDACActorRelationship |-> {"collection", "docID", "relation", "actor"},
    DeleteDACActorRelationship |-> {"collection", "docID", "relation", "actor"},
    AddNACActorRelationship |-> {"relation", "actor"},
    DeleteNACActorRelationship |-> {"relation", "actor"},
    ReEnableNAC |-> {}, DisableNAC |-> {}, GetNACStatus |-> {},
    GetNodeIdentity |-> {}, VerifySignature |-> {"cid", "key", "keyType"} ]

StoreMethods ==
  [ AddCollection |-> {"sdl"}, PatchCollection |-> {"patch", "migration"},
    DeleteCollection |-> {"names"}, SetActiveCollectionVersion |-> {"version"},
    AddView |-> {"query", "sdl"}, RefreshViews |-> {},
    SetMigration |-> {"config"}, AddLens |-> {"lens"}, ListLenses |-> {},
    GetCollectionByName |-> {"name"}, GetCollections |-> {},
    ListIndexes |-> {}, ListAllEncryptedIndexes |-> {},
    ExecRequest |-> {"request"}, BasicImport |-> {"filepath"},
    BasicExport |-> {"filepath"} ]

CollectionMethods ==
  [ AddDocument |-> {"doc"}, AddManyDocuments |-> {"docs"},
    UpdateDocument |-> {"docID", "updater"}, SaveDocument |-> {"docID", "doc"},
    DeleteDocument |-> {"docID"}, ExistsDocument |-> {"docID"},
    UpdateDocumentsWithFilter |-> {"filter", "updater"},
    DeleteDocumentsWithFilter |-> {"filter"}, GetDocument |-> {"docID"},
    NewIndex |-> {"name", "fields", "unique"}, DeleteIndex |-> {"name"},
    ListCollectionIndexes |-> {}, NewEncryptedIndex |-> {"field", "type"},
    DeleteEncryptedIndex |-> {"field"}, ListCollectionEncryptedIndexes |-> {},
    Truncate |-> {} ]

P2PMethods ==
  [ PeerInfo |-> {}, ActivePeers |-> {}, Connect |-> {"addresses"},
    AddReplicator |-> {"addresses"}, DeleteReplicator |-> {"id"},
    ListReplicators |-> {},
    AddP2PCollections |-> {"names"}, DeleteP2PCollections |-> {"names"},
    ListP2PCollections |-> {},
    AddP2PDocuments |-> {"docIDs"}, DeleteP2PDocuments |-> {"docIDs"},
    ListP2PDocuments |-> {},
    SyncDocuments |-> {"collection", "docIDs", "timeout"},
    SyncCollectionVersions |-> {"versions", "timeout"},
    SyncBranchableCollection |-> {"collection", "timeout"} ]

Positional == AccessMethods @@ StoreMethods @@ CollectionMethods @@ P2PMethods

Ops == DOMAIN Positional

(***************************************************************************)
(* What the option builders of each operation can set.                     *)
(***************************************************************************)

OnlyIdentity(ops) == [op \in ops |-> {"identity"}]

DACOptions ==
  OnlyIdentity({"AddDACPolicy", "AddDACActorRelationship",
                "DeleteDACActorRelationship", "AddNACActorRelationship"})

NACOptions ==
  OnlyIdentity({"DeleteNACActorRelationship", "ReEnableNAC", "DisableNAC",
                "GetNACStatus", "VerifySignature"})

CollectionsOptions ==
  {"identity", "versionID", "collectionID", "collectionSetID",
   "collectionName", "getInactive"}

ViewOptions ==
  [AddView |-> {"identity", "transformCID"}, RefreshViews |-> CollectionsOptions]
    @@ OnlyIdentity({"GetCollectionByName"})

DefinitionOptions ==
  OnlyIdentity({"ListIndexes", "AddCollection", "PatchCollection",
                "SetActiveCollectionVersion"})
    @@ [GetCollections |-> CollectionsOptions,
        DeleteCollection |-> {"identity", "activeOnly"}]

RequestOptions ==
  [ExecRequest |-> {"identity", "operationName", "variables"},
   BasicExport |-> {"format", "pretty", "collections"}]

LensOptions ==
  OnlyIdentity({"AddLens", "ListLenses", "SetMigration",
                "ListAllEncryptedIndexes"})

DocumentOptions ==
  [op \in {"AddDocument", "AddManyDocuments", "SaveDocument"} |->
     {"identity", "encryptDoc", "encryptedFields"}]
    @@ OnlyIdentity({"UpdateDocument", "DeleteDocument"})

ByFilterOptions ==
  [GetDocument |-> {"identity", "showDeleted"}]
    @@ OnlyIdentity({"UpdateDocumentsWithFilter", "DeleteDocumentsWithFilter",
                     "NewIndex"})

IndexOptions ==
  OnlyIdentity({"DeleteIndex", "ListCollectionIndexes", "ExistsDocument",
                "Truncate"})

EncryptedIndexOptions ==
  OnlyIdentity({"NewEncryptedIndex", "ListCollectionEncryptedIndexes",
                "DeleteEncryptedIndex"})

ReplicatorOptions ==
  [op \in {"AddReplicator", "DeleteReplicator"} |-> {"identity", "collections"}]
    @@ OnlyIdentity({"ActivePeers", "Connect", "PeerInfo"})

P2PCollectionOptions ==
  OnlyIdentity({"ListReplicators", "AddP2PCollections", "DeleteP2PCollections",
                "ListP2PCollections"})

SyncOptions ==
  OnlyIdentity({"AddP2PDocuments", "SyncCollectionVersions",
                "SyncBranchableCollection", "DeleteP2PDocuments",
                "ListP2PDocuments", "SyncDocuments"})

Settable ==
  DACOptions @@ NACOptions @@ ViewOptions @@ DefinitionOptions
    @@ RequestOptions @@ LensOptions @@ DocumentOptions @@ ByFilterOptions
    @@ IndexOptions @@ EncryptedIndexOptions @@ ReplicatorOptions
    @@ P2PCollectionOptions @@ SyncOptions

Options(op) == IF op \in DOMAIN Settable THEN Settable[op] ELSE {}

TakesIdentity(op) == "identity" \in Options(op)

Args(op) == Positional[op] \cup (Options(op) \ {"identity"})

\* The arguments that are immutable.Options.
Immutable ==
  {"migration", "transformCID", "versionID", "collectionID",
   "collectionSetID", "collectionName", "getInactive", "operationName"}

-----------------------------------------------------------------------------
(***************************************************************************)
(* Rows.  The values of a call are a function on the names that are set.   *)
(***************************************************************************)

Raw(x) == [from |-> x, rule |-> "raw"]          \* as it is, when it is set
NonZero(x) == [from |-> x, rule |-> "nonzero"]  \* only when it is not zero
Always == [from |-> "", rule |-> "val"]         \* a constant of the code

Same(names) == [x \in names |-> Raw(x)]

Put(put, vals) ==
  LET Set(y) ==
        \/ put[y].rule = "val"
        \/ /\ put[y].from \in DOMAIN vals
           /\ put[y].rule = "nonzero" => vals[put[y].from] # "zero"
  IN  [y \in {z \in DOMAIN put : Set(z)} |->
         IF put[y].rule = "val" THEN "val" ELSE vals[put[y].from]]

(***************************************************************************)
(* One way a row can go: "when" is what must be given (not zero) for it to *)
(* be taken and "has" what must be there, zero or not; "to" is the         *)
(* operation called on the next layer, "first" the operations called       *)
(* before it, and "other" the one called instead of it when the first one  *)
(* does not find the document.                                             *)
(***************************************************************************)
None == [to |-> "none", put |-> <<>>]

Way(when, first, to, put) ==
  [when |-> when, has |-> {}, first |-> first, to |-> to, put |-> put,
   other |-> None]

\* "id", "txn" and "col": whether the caller's identity, transaction and
\* collection go along; "via": whether the transaction's own methods are
\* called; "dev": only in development mode; "node": not with the handle of a
\* transaction; "hides": the outcomes the row does not report; "panics": the
\* row has no body but a panic.
Row(ways) ==
  [ways |-> ways, id |-> TRUE, txn |-> TRUE, col |-> TRUE, via |-> TRUE,
   dev |-> FALSE, node |-> FALSE, hides |-> {}, panics |-> FALSE]

Hop(to, put) == Row(<<Way({}, <<>>, to, put)>>)
Needs(when, to, put) == Row(<<Way(when, <<>>, to, put)>>)
After(first, to, put) == Row(<<Way({}, first, to, put)>>)

Anonymous(row) == [row EXCEPT !.id = FALSE]
Outside(row) == [row EXCEPT !.txn = FALSE]
ViaDB(row) == [row EXCEPT !.via = FALSE]
NoCollection(row) == [row EXCEPT !.col = FALSE]
NodeOnly(row) == [row EXCEPT !.node = TRUE]
Panics(row) == [row EXCEPT !.panics = TRUE]
DevOnly(row) == [row EXCEPT !.dev = TRUE]
Hides(row, outcomes) == [row EXCEPT !.hides = outcomes]

\* The way a row goes, 0 when it refuses the call.
Taken(row, vals) ==
  LET given(x) == x \in DOMAIN vals /\ vals[x] # "zero"
      open == {i \in DOMAIN row.ways : /\ \A x \in row.ways[i].when : given(x)
                                      /\ row.ways[i].has \subseteq DOMAIN vals}
  IN  IF open = {} THEN 0 ELSE CHOOSE i \in open : \A j \in open : i <= j
=============================================================================
