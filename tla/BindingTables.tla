--------------------------- MODULE BindingTables ---------------------------
(***************************************************************************)
(* The ways in that are built on another one: the command line, the C      *)
(* functions and the methods for JavaScript.                               *)
(***************************************************************************)
EXTENDS StoreAPI

-----------------------------------------------------------------------------
(***************************************************************************)
(* The commands of "defradb client" (cli/): what each takes from its flags *)
(* and arguments and which methods of the HTTP client it calls with them.  *)
(* A flag that is not given is empty, and an argument, a file and standard *)
(* input are alike once they are read.                                     *)
(***************************************************************************)

MakeDocumentACPPolicyAddCommand == Hop("AddDACPolicy", Same({"policy"}))

Relationship == Same({"collection", "docID", "relation", "actor"})

MakeDocumentACPRelationshipAddCommand == Hop("AddDACActorRelationship", Relationship)
MakeDocumentACPRelationshipDeleteCommand ==
  Hop("DeleteDACActorRelationship", Relationship)

MakeNodeACPRelationshipAddCommand ==
  Hop("AddNACActorRelationship", Same({"relation", "actor"}))
MakeNodeACPRelationshipDeleteCommand ==
  Hop("DeleteNACActorRelationship", Same({"relation", "actor"}))
MakeNodeACPDisableCommand == Hop("DisableNAC", <<>>)
MakeNodeACPReEnableCommand == Hop("ReEnableNAC", <<>>)
MakeNodeACPStatusCommand == Hop("GetNACStatus", <<>>)

\* Only the format "json" is let through.
MakeBackupExportCommand ==
  Needs({"format"}, "BasicExport",
        Same({"filepath", "format", "pretty", "collections"}))
MakeBackupImportCommand == Hop("BasicImport", Same({"filepath"}))

MakeBlockVerifySignatureCommand ==
  Hop("VerifySignature", Same({"cid", "key"}) @@ [keyType |-> Always])
MakeDumpCommand == Hop("PrintDump", <<>>)
MakeNodeIdentityCommand == Hop("GetNodeIdentity", <<>>)

-----------------------------------------------------------------------------
(***************************************************************************)
(* The commands under "collection" but for "add", and those under          *)
(* "document", first look the collection up with the flags they inherit.   *)
(* A subcommand with flags of the same names hides those.                  *)
(***************************************************************************)

MakeCollectionCommand(flags) == [to |-> "GetCollections", put |-> flags]

MakeCollectionAddCommand == Hop("AddCollection", Same({"sdl"}))

MakeCollectionDeleteCommand ==
  After(<<MakeCollectionCommand(<<>>)>>, "DeleteCollection",
        Same({"names", "activeOnly"}))

MakeCollectionDescribeCommand ==
  After(<<MakeCollectionCommand(<<>>)>>, "GetCollections",
        [x \in {"versionID", "collectionID", "collectionName", "getInactive"}
           |-> NonZero(x)])

MakeCollectionPatchCommand ==
  After(<<MakeCollectionCommand(<<>>)>>, "PatchCollection",
        [patch |-> Raw("patch"), migration |-> NonZero("migration")])

MakeCollectionSetActiveCommand ==
  After(<<MakeCollectionCommand(<<>>)>>, "SetActiveCollectionVersion",
        Same({"version"}))

MakeCollectionTruncateCommand ==
  After(<<MakeCollectionCommand([collectionName |-> Raw("col")])>>, "Truncate", <<>>)

MakeDocumentCommand == [to |-> "GetCollections", put |-> [collectionName |-> Raw("col")]]

MakeDocumentAddCommand ==
  LET encryption == Same({"encryptDoc", "encryptedFields"})
  IN  Row(<<[Way({}, <<MakeDocumentCommand>>, "AddManyDocuments",
                 Same({"docs"}) @@ encryption) EXCEPT !.has = {"docs"}],
            Way({}, <<MakeDocumentCommand>>, "AddDocument",
                Same({"doc"}) @@ encryption)>>)

MakeDocumentDeleteCommand ==
  Row(<<Way({"docID"}, <<MakeDocumentCommand>>, "DeleteDocument", Same({"docID"})),
        Way({"filter"}, <<MakeDocumentCommand>>, "DeleteDocumentsWithFilter",
            Same({"filter"}))>>)

MakeDocumentGetCommand ==
  After(<<MakeDocumentCommand>>, "GetDocument", Same({"docID", "showDeleted"}))

MakeDocumentUpdateCommand ==
  LET get == [to |-> "GetDocument",
              put |-> Same({"docID"}) @@ [showDeleted |-> Always]]
  IN  Row(<<Way({"filter", "updater"}, <<MakeDocumentCommand>>,
                "UpdateDocumentsWithFilter", Same({"filter", "updater"})),
            Way({"docID", "updater"}, <<MakeDocumentCommand, get>>,
                "UpdateDocument", Same({"docID", "updater"}))>>)

-----------------------------------------------------------------------------
(***************************************************************************)
(* Indexes: the collection is looked up by its name.                       *)
(***************************************************************************)

ColByName == [to |-> "GetCollectionByName", put |-> [name |-> Raw("col")]]

MakeIndexNewCommand ==
  After(<<ColByName>>, "NewIndex", Same({"name", "fields", "unique"}))
MakeIndexDeleteCommand ==
  Row(<<Way({"name"}, <<ColByName>>, "DeleteIndex", Same({"name"}))>>)
MakeIndexListCommand ==
  Row(<<Way({"col"}, <<ColByName>>, "ListCollectionIndexes", <<>>),
        Way({}, <<>>, "ListIndexes", <<>>)>>)

MakeEncryptedIndexNewCommand ==
  After(<<ColByName>>, "NewEncryptedIndex", Same({"field", "type"}))
MakeEncryptedIndexDeleteCommand ==
  After(<<ColByName>>, "DeleteEncryptedIndex", Same({"field"}))
MakeEncryptedIndexListCommand ==
  Row(<<Way({"col"}, <<ColByName>>, "ListCollectionEncryptedIndexes", <<>>),
        Way({}, <<>>, "ListAllEncryptedIndexes", <<>>)>>)

-----------------------------------------------------------------------------

MakeLensAddCommand == Hop("AddLens", Same({"lens"}))
MakeLensListCommand == Hop("ListLenses", <<>>)
MakeLensSetCommand == Hop("SetMigration", Same({"config"}))

MakeViewAddCommand ==
  Hop("AddView", Same({"query", "sdl"}) @@ [transformCID |-> NonZero("transformCID")])
MakeViewRefreshCommand ==
  Hop("RefreshViews",
      [x \in {"versionID", "collectionID", "collectionName", "getInactive"}
         |-> NonZero(x)])

\* The errors of a request are printed with its result: the command itself
\* does not fail.
MakeRequestCommand ==
  Needs({"request"}, "ExecRequest",
        [request |-> Raw("request"), operationName |-> NonZero("operationName"),
         variables |-> NonZero("variables")])

-----------------------------------------------------------------------------

MakeP2PInfoCommand == Hop("PeerInfo", <<>>)
MakeP2PActivePeersCommand == Hop("ActivePeers", <<>>)
MakeP2PConnectCommand == Hop("Connect", Same({"addresses"}))
MakeP2PReplicatorAddCommand == Hop("AddReplicator", Same({"addresses", "collections"}))
MakeP2PReplicatorDeleteCommand == Hop("DeleteReplicator", Same({"id", "collections"}))
MakeP2PReplicatorListCommand == Hop("ListReplicators", <<>>)
MakeP2PCollectionAddCommand == Hop("AddP2PCollections", Same({"names"}))
MakeP2PCollectionDeleteCommand == Hop("DeleteP2PCollections", Same({"names"}))
MakeP2PCollectionListCommand == Hop("ListP2PCollections", <<>>)
MakeP2PDocumentAddCommand == Hop("AddP2PDocuments", Same({"docIDs"}))
MakeP2PDocumentDeleteCommand == Hop("DeleteP2PDocuments", Same({"docIDs"}))
MakeP2PDocumentListCommand == Hop("ListP2PDocuments", <<>>)
MakeP2PDocumentSyncCommand ==
  Needs({"docIDs"}, "SyncDocuments",
        Same({"collection", "docIDs"}) @@ [timeout |-> NonZero("timeout")])
MakeP2PCollectionSyncVersionsCommand ==
  Needs({"versions"}, "SyncCollectionVersions",
        Same({"versions"}) @@ [timeout |-> NonZero("timeout")])
MakeP2PCollectionSyncBranchableCommand ==
  Hop("SyncBranchableCollection",
      Same({"collection"}) @@ [timeout |-> NonZero("timeout")])

-----------------------------------------------------------------------------

\* The command to give for each operation.
NewDefraCommand ==
  [ AddDACPolicy |-> MakeDocumentACPPolicyAddCommand,
    AddDACActorRelationship |-> MakeDocumentACPRelationshipAddCommand,
    DeleteDACActorRelationship |-> MakeDocumentACPRelationshipDeleteCommand,
    AddNACActorRelationship |-> MakeNodeACPRelationshipAddCommand,
    DeleteNACActorRelationship |-> MakeNodeACPRelationshipDeleteCommand,
    DisableNAC |-> MakeNodeACPDisableCommand,
    ReEnableNAC |-> MakeNodeACPReEnableCommand,
    GetNACStatus |-> MakeNodeACPStatusCommand,
    BasicExport |-> MakeBackupExportCommand,
    BasicImport |-> MakeBackupImportCommand,
    VerifySignature |-> MakeBlockVerifySignatureCommand,
    PrintDump |-> MakeDumpCommand, GetNodeIdentity |-> MakeNodeIdentityCommand,
    AddCollection |-> MakeCollectionAddCommand,
    DeleteCollection |-> MakeCollectionDeleteCommand,
    GetCollections |-> MakeCollectionDescribeCommand,
    PatchCollection |-> MakeCollectionPatchCommand,
    SetActiveCollectionVersion |-> MakeCollectionSetActiveCommand,
    Truncate |-> MakeCollectionTruncateCommand,
    AddDocument |-> MakeDocumentAddCommand,
    AddManyDocuments |-> MakeDocumentAddCommand,
    DeleteDocument |-> MakeDocumentDeleteCommand,
    DeleteDocumentsWithFilter |-> MakeDocumentDeleteCommand,
    GetDocument |-> MakeDocumentGetCommand,
    UpdateDocument |-> MakeDocumentUpdateCommand,
    UpdateDocumentsWithFilter |-> MakeDocumentUpdateCommand,
    NewIndex |-> MakeIndexNewCommand, DeleteIndex |-> MakeIndexDeleteCommand,
    ListIndexes |-> MakeIndexListCommand,
    ListCollectionIndexes |-> MakeIndexListCommand,
    NewEncryptedIndex |-> MakeEncryptedIndexNewCommand,
    DeleteEncryptedIndex |-> MakeEncryptedIndexDeleteCommand,
    ListAllEncryptedIndexes |-> MakeEncryptedIndexListCommand,
    ListCollectionEncryptedIndexes |-> MakeEncryptedIndexListCommand,
    AddLens |-> MakeLensAddCommand, ListLenses |-> MakeLensListCommand,
    SetMigration |-> MakeLensSetCommand, AddView |-> MakeViewAddCommand,
    RefreshViews |-> MakeViewRefreshCommand, ExecRequest |-> MakeRequestCommand,
    PeerInfo |-> MakeP2PInfoCommand, ActivePeers |-> MakeP2PActivePeersCommand,
    Connect |-> MakeP2PConnectCommand,
    AddReplicator |-> MakeP2PReplicatorAddCommand,
    DeleteReplicator |-> MakeP2PReplicatorDeleteCommand,
    ListReplicators |-> MakeP2PReplicatorListCommand,
    AddP2PCollections |-> MakeP2PCollectionAddCommand,
    DeleteP2PCollections |-> MakeP2PCollectionDeleteCommand,
    ListP2PCollections |-> MakeP2PCollectionListCommand,
    AddP2PDocuments |-> MakeP2PDocumentAddCommand,
    DeleteP2PDocuments |-> MakeP2PDocumentDeleteCommand,
    ListP2PDocuments |-> MakeP2PDocumentListCommand,
    SyncDocuments |-> MakeP2PDocumentSyncCommand,
    SyncCollectionVersions |-> MakeP2PCollectionSyncVersionsCommand,
    SyncBranchableCollection |-> MakeP2PCollectionSyncBranchableCommand ]

-----------------------------------------------------------------------------
(***************************************************************************)
(* The C way in (cbindings/): the exported functions, which take strings,  *)
(* flags and handles, and the Go wrapper that offers them as a client.     *)
(* Lists and maps are joined or marshalled into strings and an optional    *)
(* string that is not set is the empty one, so that an empty value and no  *)
(* value are the same on the other side.                                   *)
(***************************************************************************)

(***************************************************************************)
(* The exported functions.                                                 *)
(***************************************************************************)

ACPAddDACPolicy == Hop("AddDACPolicy", Same({"policy"}))
ACPAddDACActorRelationship ==
  Hop("AddDACActorRelationship", Same({"collection", "docID", "relation", "actor"}))
ACPDeleteDACActorRelationship ==
  Hop("DeleteDACActorRelationship", Same({"collection", "docID", "relation", "actor"}))
ACPAddNACActorRelationship ==
  Hop("AddNACActorRelationship", Same({"relation", "actor"}))
ACPDeleteNACActorRelationship ==
  Hop("DeleteNACActorRelationship", Same({"relation", "actor"}))
ACPDisableNAC == Hop("DisableNAC", <<>>)
ACPReEnableNAC == Hop("ReEnableNAC", <<>>)
ACPGetNACStatus == Hop("GetNACStatus", <<>>)

VerifyBlockSignature == Hop("VerifySignature", Same({"cid", "key", "keyType"}))
CGetNodeIdentity == Anonymous(Hop("GetNodeIdentity", <<>>))

CAddCollection == Hop("AddCollection", Same({"sdl"}))
CPatchCollection ==
  Hop("PatchCollection", [patch |-> Raw("patch"), migration |-> NonZero("migration")])
CDeleteCollection == Hop("DeleteCollection", Same({"names", "activeOnly"}))
SetActiveCollection == Hop("SetActiveCollectionVersion", Same({"version"}))

\* Each option is set only when it is not zero.
parseCollectionOptions ==
  [x \in {"versionID", "collectionID", "collectionName", "getInactive"} |-> NonZero(x)]

DescribeCollection == Hop("GetCollections", parseCollectionOptions)

\* The one collection the options select.  A store with several collections
\* has no such collection when the options select nothing.
getCollection == [to |-> "GetCollections", put |-> [collectionName |-> Raw("col")]]

OnCollection(when, first, to, put) ==
  Way({"col"} \cup when, <<getCollection>> \o first, to, put)

TruncateCollection == Row(<<OnCollection({}, <<>>, "Truncate", <<>>)>>)

CAddView ==
  Hop("AddView", Same({"query", "sdl"}) @@ [transformCID |-> NonZero("transformCID")])
RefreshView == Hop("RefreshViews", parseCollectionOptions)
CAddLens == Hop("AddLens", Same({"lens"}))
CListLenses == Hop("ListLenses", <<>>)
SetLens == Hop("SetMigration", Same({"config"}))

\* An encryption setting reaches the collection in the context.
CAddDocument ==
  LET encryption == Same({"encryptDoc", "encryptedFields"})
  IN  Row(<<OnCollection({"isArray"}, <<>>, "AddManyDocuments",
                         [docs |-> Raw("json")] @@ encryption),
            OnCollection({"isObject"}, <<>>, "AddDocument",
                         [doc |-> Raw("json")] @@ encryption)>>)

CDeleteDocument ==
  Row(<<OnCollection({"docID"}, <<>>, "DeleteDocument", Same({"docID"})),
        OnCollection({"hasFilter"}, <<>>, "DeleteDocumentsWithFilter",
                     Same({"filter"}))>>)

CGetDocument == Row(<<OnCollection({}, <<>>, "GetDocument",
                                   Same({"docID", "showDeleted"}))>>)

CUpdateDocument ==
  LET get == [to |-> "GetDocument",
              put |-> Same({"docID"}) @@ [showDeleted |-> Always]]
  IN  Row(<<OnCollection({"hasFilter"}, <<>>, "UpdateDocumentsWithFilter",
                         Same({"filter", "updater"})),
            OnCollection({"docID"}, <<get>>, "UpdateDocument",
                         Same({"docID", "updater"}))>>)

NameOf == <<[to |-> "GetCollectionByName", put |-> [name |-> Raw("col")]]>>

CNewIndex == After(NameOf, "NewIndex", Same({"name", "fields", "unique"}))
CDeleteIndex == After(NameOf, "DeleteIndex", Same({"name"}))
CListIndexes ==
  Row(<<Way({"col"}, NameOf, "ListCollectionIndexes", <<>>),
        Way({}, <<>>, "ListIndexes", <<>>)>>)
CNewEncryptedIndex == After(NameOf, "NewEncryptedIndex", Same({"field"}))
CDeleteEncryptedIndex == After(NameOf, "DeleteEncryptedIndex", Same({"field"}))
CListEncryptedIndexes ==
  Row(<<Way({"col"}, NameOf, "ListCollectionEncryptedIndexes", <<>>),
        Way({}, <<>>, "ListAllEncryptedIndexes", <<>>)>>)

ExecuteQuery ==
  Hop("ExecRequest",
      [request |-> Raw("request"), operationName |-> NonZero("operationName"),
       variables |-> NonZero("variables")])

\* The functions of the network take the handle of a node, never that of a
\* transaction.
GetP2PInfo == NodeOnly(Hop("PeerInfo", <<>>))
ListP2PActivePeers == NodeOnly(Hop("ActivePeers", <<>>))
ConnectP2PPeers == NodeOnly(Hop("Connect", Same({"addresses"})))
AddP2PReplicator == NodeOnly(Hop("AddReplicator", Same({"addresses", "collections"})))
DeleteP2PReplicator == NodeOnly(Hop("DeleteReplicator", Same({"id", "collections"})))
ListP2PReplicators == NodeOnly(Hop("ListReplicators", <<>>))
AddP2PCollection == NodeOnly(Hop("AddP2PCollections", Same({"names"})))
DeleteP2PCollection == NodeOnly(Hop("DeleteP2PCollections", Same({"names"})))
CListP2PCollections == NodeOnly(Hop("ListP2PCollections", <<>>))
AddP2PDocument == NodeOnly(Hop("AddP2PDocuments", Same({"docIDs"})))
DeleteP2PDocument == NodeOnly(Hop("DeleteP2PDocuments", Same({"docIDs"})))
CListP2PDocuments == NodeOnly(Hop("ListP2PDocuments", <<>>))
SyncP2PDocuments ==
  NodeOnly(Hop("SyncDocuments",
               Same({"collection", "docIDs"}) @@ [timeout |-> NonZero("timeout")]))
SyncP2PCollectionVersions ==
  NodeOnly(Hop("SyncCollectionVersions",
               Same({"versions"}) @@ [timeout |-> NonZero("timeout")]))
\* The timeout is parsed whether or not it is empty.
SyncP2PBranchableCollection ==
  NodeOnly(Needs({"timeout"}, "SyncBranchableCollection",
                 Same({"collection", "timeout"})))

CFunctions ==
  [ ACPAddDACPolicy |-> ACPAddDACPolicy,
    ACPAddDACActorRelationship |-> ACPAddDACActorRelationship,
    ACPDeleteDACActorRelationship |-> ACPDeleteDACActorRelationship,
    ACPAddNACActorRelationship |-> ACPAddNACActorRelationship,
    ACPDeleteNACActorRelationship |-> ACPDeleteNACActorRelationship,
    ACPDisableNAC |-> ACPDisableNAC, ACPReEnableNAC |-> ACPReEnableNAC,
    ACPGetNACStatus |-> ACPGetNACStatus,
    VerifyBlockSignature |-> VerifyBlockSignature,
    GetNodeIdentity |-> CGetNodeIdentity, AddCollection |-> CAddCollection,
    PatchCollection |-> CPatchCollection, DeleteCollection |-> CDeleteCollection,
    SetActiveCollection |-> SetActiveCollection,
    DescribeCollection |-> DescribeCollection,
    TruncateCollection |-> TruncateCollection, AddView |-> CAddView,
    RefreshView |-> RefreshView, AddLens |-> CAddLens, ListLenses |-> CListLenses,
    SetLens |-> SetLens, AddDocument |-> CAddDocument,
    DeleteDocument |-> CDeleteDocument, GetDocument |-> CGetDocument,
    UpdateDocument |-> CUpdateDocument, NewIndex |-> CNewIndex,
    DeleteIndex |-> CDeleteIndex, ListIndexes |-> CListIndexes,
    NewEncryptedIndex |-> CNewEncryptedIndex,
    DeleteEncryptedIndex |-> CDeleteEncryptedIndex,
    ListEncryptedIndexes |-> CListEncryptedIndexes, ExecuteQuery |-> ExecuteQuery,
    GetP2PInfo |-> GetP2PInfo, ListP2PActivePeers |-> ListP2PActivePeers,
    ConnectP2PPeers |-> ConnectP2PPeers, AddP2PReplicator |-> AddP2PReplicator,
    DeleteP2PReplicator |-> DeleteP2PReplicator,
    ListP2PReplicators |-> ListP2PReplicators,
    AddP2PCollection |-> AddP2PCollection,
    DeleteP2PCollection |-> DeleteP2PCollection,
    ListP2PCollections |-> CListP2PCollections, AddP2PDocument |-> AddP2PDocument,
    DeleteP2PDocument |-> DeleteP2PDocument, ListP2PDocuments |-> CListP2PDocuments,
    SyncP2PDocuments |-> SyncP2PDocuments,
    SyncP2PCollectionVersions |-> SyncP2PCollectionVersions,
    SyncP2PBranchableCollection |-> SyncP2PBranchableCollection ]

-----------------------------------------------------------------------------
(***************************************************************************)
(* CWrapper and its Collection.  Most methods call with the handle of the  *)
(* transaction on the context; those of the network use the node's.        *)
(***************************************************************************)

WrapReplicators ==
  [ PeerInfo |-> Outside(Hop("GetP2PInfo", <<>>)),
    ActivePeers |-> Outside(Hop("ListP2PActivePeers", <<>>)),
    AddReplicator |-> Outside(Hop("AddP2PReplicator", Same({"addresses", "collections"}))),
    DeleteReplicator |-> Outside(Hop("DeleteP2PReplicator", Same({"id", "collections"}))),
    ListReplicators |-> Outside(Hop("ListP2PReplicators", <<>>)) ]

WrapTopics ==
  [ AddP2PCollections |-> Outside(Hop("AddP2PCollection", Same({"names"}))),
    DeleteP2PCollections |-> Outside(Hop("DeleteP2PCollection", Same({"names"}))),
    ListP2PCollections |-> Outside(Hop("ListP2PCollections", <<>>)),
    AddP2PDocuments |-> Outside(Hop("AddP2PDocument", Same({"docIDs"}))),
    DeleteP2PDocuments |-> Outside(Hop("DeleteP2PDocument", Same({"docIDs"}))),
    ListP2PDocuments |-> Outside(Hop("ListP2PDocuments", <<>>)) ]

WrapSync ==
  [ SyncDocuments |-> Outside(Hop("SyncP2PDocuments",
      Same({"collection", "docIDs", "timeout"}))),
    SyncCollectionVersions |-> Outside(Hop("SyncP2PCollectionVersions",
      Same({"versions", "timeout"}))),
    SyncBranchableCollection |-> Outside(Hop("SyncP2PBranchableCollection",
      Same({"collection", "timeout"}))) ]

\* Without a transaction AddCollection opens one and commits it, and leaves
\* the error of that commit out.
WrapAddCollection ==
  [ BasicImport |-> Panics(Hop("none", <<>>)),
    BasicExport |-> Panics(Hop("none", <<>>)),
    AddCollection |-> Hides(Hop("AddCollection", Same({"sdl"})), {"conflict"}) ]

WrapDAC ==
  LET relationship == Same({"collection", "docID", "relation", "actor"})
  IN  [ AddDACPolicy |-> Hop("ACPAddDACPolicy", Same({"policy"})),
        AddDACActorRelationship |-> Hop("ACPAddDACActorRelationship", relationship),
        DeleteDACActorRelationship |->
          Hop("ACPDeleteDACActorRelationship", relationship) ]

WrapNAC ==
  [ GetNACStatus |-> Hop("ACPGetNACStatus", <<>>),
    ReEnableNAC |-> Hop("ACPReEnableNAC", <<>>),
    DisableNAC |-> Hop("ACPDisableNAC", <<>>),
    AddNACActorRelationship |->
      Hop("ACPAddNACActorRelationship", Same({"relation", "actor"})),
    DeleteNACActorRelationship |->
      Hop("ACPDeleteNACActorRelationship", Same({"relation", "actor"})) ]

WrapDefinitions ==
  [ PatchCollection |-> Hop("PatchCollection", Same({"patch", "migration"})),
    DeleteCollection |-> Hop("DeleteCollection", Same({"names", "activeOnly"})),
    SetActiveCollectionVersion |-> Hop("SetActiveCollection", Same({"version"})),
    AddView |-> Hop("AddView", Same({"query", "sdl", "transformCID"})) ]

\* getCollectionsOptionsToCOptions: there is no option for the collection set.
COptions == Same({"versionID", "collectionID", "collectionName", "getInactive"})

WrapLens ==
  [ RefreshViews |-> Hop("RefreshView", COptions),
    SetMigration |-> Hop("SetLens", Same({"config"})),
    AddLens |-> Hop("AddLens", Same({"lens"})),
    ListLenses |-> Hop("ListLenses", <<>>) ]

\* GetCollectionByName calls GetCollections with an option of its own only.
WrapReads ==
  [ GetCollectionByName |->
      Anonymous(Hop("DescribeCollection", [collectionName |-> Raw("name")])),
    GetCollections |-> Hop("DescribeCollection", COptions),
    ListIndexes |-> Hop("ListIndexes", <<>>),
    ListAllEncryptedIndexes |-> Hop("ListEncryptedIndexes", <<>>) ]

WrapExec ==
  [ ExecRequest |-> Hop("ExecuteQuery", Same({"request", "operationName", "variables"})),
    PrintDump |-> Panics(Hop("none", <<>>)),
    Connect |-> Hop("ConnectP2PPeers", Same({"addresses"})),
    GetNodeIdentity |-> Anonymous(Hop("GetNodeIdentity", <<>>)),
    VerifySignature |-> Hop("VerifyBlockSignature", Same({"cid", "key", "keyType"})) ]

\* AddManyDocuments is the one method that does not put the collection's
\* transaction on the context.
WrapAdd ==
  LET encryption == Same({"encryptDoc", "encryptedFields"})
  IN  [ AddDocument |-> Hop("AddDocument",
          [isObject |-> Always, json |-> Raw("doc")] @@ encryption),
        AddManyDocuments |-> Outside(Hop("AddDocument",
          [isArray |-> NonZero("docs"), json |-> Raw("docs")] @@ encryption)) ]

WrapSave ==
  LET get == [to |-> "GetDocument",
              put |-> Same({"docID"}) @@ [showDeleted |-> Always]]
  IN  [ UpdateDocument |-> Hop("UpdateDocument", Same({"docID", "updater"})),
        SaveDocument |-> Row(<<
          [Way({}, <<get>>, "UpdateDocument",
               Same({"docID"}) @@ [updater |-> Raw("doc")])
             EXCEPT !.other =
               [to |-> "AddDocument",
                put |-> [isObject |-> Always, json |-> Raw("doc")]
                          @@ Same({"encryptDoc", "encryptedFields"})]]>>) ]

\* ExistsDocument leaves the name of its collection out.
WrapDelete ==
  [ DeleteDocument |-> Hop("DeleteDocument", Same({"docID"})),
    ExistsDocument |-> NoCollection(Hop("GetDocument", Same({"docID"}))) ]

WrapFilters ==
  [ UpdateDocumentsWithFilter |-> Hop("UpdateDocument",
      Same({"filter", "updater"}) @@ [hasFilter |-> Always]),
    DeleteDocumentsWithFilter |-> Hop("DeleteDocument",
      Same({"filter"}) @@ [hasFilter |-> Always]),
    GetDocument |-> Hop("GetDocument", Same({"docID", "showDeleted"})) ]

WrapIndexes ==
  [ NewIndex |-> Hop("NewIndex", Same({"name", "fields", "unique"})),
    DeleteIndex |-> Hop("DeleteIndex", Same({"name"})),
    ListCollectionIndexes |-> Hop("ListIndexes", <<>>) ]

WrapEncryptedIndexes ==
  [ NewEncryptedIndex |-> Hop("NewEncryptedIndex", Same({"field"})),
    DeleteEncryptedIndex |-> Hop("DeleteEncryptedIndex", Same({"field"})),
    ListCollectionEncryptedIndexes |-> Hop("ListEncryptedIndexes", <<>>),
    Truncate |-> Hop("TruncateCollection", <<>>) ]

CWrapper ==
  WrapReplicators @@ WrapTopics @@ WrapSync @@ WrapAddCollection @@ WrapDAC
    @@ WrapNAC @@ WrapDefinitions @@ WrapLens @@ WrapReads @@ WrapExec @@ WrapAdd
    @@ WrapSave @@ WrapDelete @@ WrapFilters @@ WrapIndexes @@ WrapEncryptedIndexes

\* The wrapper's Transaction: the methods that put it on the context.
CTxnMethods ==
  {"VerifySignature", "AddCollection", "PatchCollection", "DeleteCollection",
   "SetActiveCollectionVersion", "AddView", "RefreshViews", "SetMigration",
   "AddLens", "ListLenses", "GetCollectionByName", "GetCollections",
   "ListIndexes", "ExecRequest", "BasicImport", "BasicExport"}
    \cup DOMAIN CollectionMethods

-----------------------------------------------------------------------------
(***************************************************************************)
(* The JavaScript way in (js/).  A method reads its arguments, takes the   *)
(* identity from the context argument and calls either the node's database *)
(* or, when the context argument names a transaction, that transaction.    *)
(* There are no methods for the network, for backups and for saving.       *)
(***************************************************************************)

JSDatabase ==
  LET relationship == Same({"collection", "docID", "relation", "actor"})
  IN  [ AddDACPolicy |-> Hop("AddDACPolicy", Same({"policy"})),
        AddDACActorRelationship |-> Hop("AddDACActorRelationship", relationship),
        DeleteDACActorRelationship |-> Hop("DeleteDACActorRelationship", relationship) ]

JSNode ==
  [ GetNACStatus |-> Hop("GetNACStatus", <<>>),
    ReEnableNAC |-> Hop("ReEnableNAC", <<>>),
    DisableNAC |-> Hop("DisableNAC", <<>>),
    AddNACActorRelationship |->
      Hop("AddNACActorRelationship", Same({"relation", "actor"})),
    DeleteNACActorRelationship |->
      Hop("DeleteNACActorRelationship", Same({"relation", "actor"})),
    GetNodeIdentity |-> Hop("GetNodeIdentity", <<>>) ]

JSVerify ==
  [ VerifySignature |-> Hop("VerifySignature", Same({"cid", "key", "keyType"})) ]

JSDefinitions ==
  [ AddCollection |-> Hop("AddCollection", Same({"sdl"})),
    PatchCollection |-> Hop("PatchCollection", Same({"patch", "migration"})),
    DeleteCollection |-> Hop("DeleteCollection", Same({"names", "activeOnly"})),
    SetActiveCollectionVersion |->
      Hop("SetActiveCollectionVersion", Same({"version"})),
    AddView |-> Hop("AddView", Same({"query", "sdl", "transformCID"})) ]

\* There is no option for the collection set.
collectionFetchOptions ==
  Same({"collectionName", "versionID", "collectionID", "getInactive"})

JSLenses ==
  [ RefreshViews |-> Hop("RefreshViews", collectionFetchOptions),
    SetMigration |-> Hop("SetMigration", Same({"config"})),
    AddLens |-> Hop("AddLens", Same({"lens"})),
    ListLenses |-> Hop("ListLenses", <<>>) ]

JSReads ==
  [ GetCollectionByName |-> Hop("GetCollectionByName", Same({"name"})),
    GetCollections |-> Hop("GetCollections", collectionFetchOptions),
    ListIndexes |-> Hop("ListIndexes", <<>>),
    ListAllEncryptedIndexes |-> Hop("ListAllEncryptedIndexes", <<>>),
    ExecRequest |-> Hop("ExecRequest",
      [request |-> Raw("request"), operationName |-> NonZero("operationName"),
       variables |-> NonZero("variables")]) ]

JSIndexes ==
  [ NewIndex |-> Hop("NewIndex", Same({"name", "fields", "unique"})),
    DeleteIndex |-> Hop("DeleteIndex", Same({"name"})),
    ListCollectionIndexes |-> Hop("ListCollectionIndexes", <<>>),
    NewEncryptedIndex |-> Hop("NewEncryptedIndex", Same({"field", "type"})),
    DeleteEncryptedIndex |-> Hop("DeleteEncryptedIndex", Same({"field"})),
    ListCollectionEncryptedIndexes |-> Hop("ListCollectionEncryptedIndexes", <<>>),
    Truncate |-> Hop("Truncate", <<>>) ]

JSAdd ==
  LET encryption == [encryptDoc |-> NonZero("encryptDoc"),
                     encryptedFields |-> NonZero("encryptedFields")]
  IN  [ AddDocument |-> Hop("AddDocument", Same({"doc"}) @@ encryption),
        AddManyDocuments |-> Hop("AddManyDocuments", Same({"docs"}) @@ encryption) ]

JSDocuments ==
  LET get == [to |-> "GetDocument",
              put |-> Same({"docID"}) @@ [showDeleted |-> Always]]
  IN  [ UpdateDocument |-> After(<<get>>, "UpdateDocument", Same({"docID", "updater"})),
        DeleteDocument |-> Hop("DeleteDocument", Same({"docID"})),
        ExistsDocument |-> Hop("ExistsDocument", Same({"docID"})),
        UpdateDocumentsWithFilter |->
          Hop("UpdateDocumentsWithFilter", Same({"filter", "updater"})),
        DeleteDocumentsWithFilter |->
          Hop("DeleteDocumentsWithFilter", Same({"filter"})),
        GetDocument |-> Hop("GetDocument", Same({"docID", "showDeleted"})) ]

JSClient ==
  JSDatabase @@ JSNode @@ JSVerify @@ JSDefinitions @@ JSLenses @@ JSReads
    @@ JSIndexes @@ JSAdd @@ JSDocuments

-----------------------------------------------------------------------------
(***************************************************************************)
(* The transaction object has the same methods and calls its own           *)
(* transaction with them, whatever the context argument says.              *)
(***************************************************************************)

JSTxnDefinitions ==
  [op \in {"AddCollection", "PatchCollection", "DeleteCollection",
           "SetActiveCollectionVersion", "AddView", "RefreshViews"} |->
     (JSDefinitions @@ JSLenses)[op]]

JSTxnLenses ==
  [op \in {"SetMigration", "AddLens", "ListLenses"} |-> JSLenses[op]]

JSTxnReads == [op \in DOMAIN JSReads |-> JSReads[op]]

JSTxnDAC == [op \in DOMAIN JSDatabase |-> JSDatabase[op]]

JSTxnNAC == [op \in DOMAIN JSNode |-> JSNode[op]] @@ JSVerify

\* A collection is got from the transaction and keeps its methods.
JSTransaction ==
  JSTxnDefinitions @@ JSTxnLenses @@ JSTxnReads @@ JSTxnDAC @@ JSTxnNAC
    @@ JSIndexes @@ JSAdd @@ JSDocuments
=============================================================================
