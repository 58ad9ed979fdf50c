----------------------------- MODULE HTTPTables -----------------------------
(***************************************************************************)
(* The HTTP way in (http/): what each method of the client writes into its *)
(* request, and what the handler of that route reads from it and calls.    *)
(* The names a request's values go by (JSON fields, query and path         *)
(* parameters) are those of the code.                                      *)
(***************************************************************************)
EXTENDS StoreAPI

-----------------------------------------------------------------------------
(***************************************************************************)
(* http.Client.                                                            *)
(***************************************************************************)

ClientBackup ==
  [ BasicImport |-> Hop("POST backup/import", [Filepath |-> Raw("filepath")]),
    BasicExport |-> Hop("POST backup/export",
      [Filepath |-> Raw("filepath"), Format |-> Raw("format"),
       Pretty |-> Raw("pretty"), Collections |-> Raw("collections")]) ]

ClientDefinitions ==
  [ AddCollection |-> Hop("POST collections", [body |-> Raw("sdl")]),
    PatchCollection |-> Hop("PATCH collections",
      [Patch |-> Raw("patch"), Migration |-> Raw("migration")]),
    DeleteCollection |-> Hop("DELETE collections",
      [name |-> Raw("names"), active_only |-> NonZero("activeOnly")]),
    SetActiveCollectionVersion |->
      Hop("POST collections/default", [body |-> Raw("version")]) ]

\* Mutant: whether inactive collections are wanted is not written.
ActiveParams ==
  [ name |-> Raw("collectionName"), version_id |-> Raw("versionID"),
    collection_id |-> Raw("collectionID") ]

\* The query parameters that select collections.  There is none for the
\* collection set.
FetchParams ==
  [ name |-> Raw("collectionName"), version_id |-> Raw("versionID"),
    collection_id |-> Raw("collectionID"), get_inactive |-> Raw("getInactive") ]

ClientViews ==
  [ AddView |-> Hop("POST view", [Query |-> Raw("query"), SDL |-> Raw("sdl"),
                                  TransformCID |-> Raw("transformCID")]),
    RefreshViews |-> Hop("POST view/refresh", FetchParams) ]

ClientLens ==
  [ SetMigration |-> Hop("POST collections/migrations", [body |-> Raw("config")]),
    AddLens |-> Hop("POST lens", [Lens |-> Raw("lens")]),
    ListLenses |-> Hop("GET lens", <<>>) ]

ClientReads ==
  [ GetCollectionByName |-> Hop("GET collections", [name |-> Raw("name")]),
    GetCollections |-> Hop("GET collections", FetchParams),
    ListIndexes |-> Hop("GET collections/indexes", <<>>),
    ListAllEncryptedIndexes |-> Hop("GET encrypted-indexes", <<>>) ]

\* The response is decoded as a result whatever its status: an object with
\* the one field "error", which is what the middleware answers, decodes to
\* a result without errors.
ClientExecRequest ==
  [ ExecRequest |-> Hides(Hop("POST graphql",
      [query |-> Raw("request"), operationName |-> Raw("operationName"),
       variables |-> Raw("variables")]), {"refused"}) ]

ClientNode ==
  [ PrintDump |-> Anonymous(Hop("GET debug/dump", <<>>)),
    GetNodeIdentity |-> Anonymous(Hop("GET node/identity", <<>>)),
    VerifySignature |-> Hop("GET block/verify-signature",
      [cid |-> Raw("cid"), public_key |-> Raw("key"), type |-> Raw("keyType")]) ]

ClientDAC ==
  LET relationship ==
        [CollectionName |-> Raw("collection"), DocID |-> Raw("docID"),
         Relation |-> Raw("relation"), TargetActor |-> Raw("actor")]
  IN  [ AddDACPolicy |-> Hop("POST acp/document/policy", [body |-> Raw("policy")]),
        AddDACActorRelationship |-> Hop("POST acp/document/relationship", relationship),
        DeleteDACActorRelationship |->
          Hop("DELETE acp/document/relationship", relationship) ]

ClientNAC ==
  LET relationship == [Relation |-> Raw("relation"), TargetActor |-> Raw("actor")]
  IN  [ AddNACActorRelationship |-> Hop("POST acp/node/relationship", relationship),
        DeleteNACActorRelationship |-> Hop("DELETE acp/node/relationship", relationship),
        ReEnableNAC |-> Hop("POST acp/node/re-enable", <<>>),
        DisableNAC |-> Hop("POST acp/node/disable", <<>>),
        GetNACStatus |-> Hop("GET acp/node/status", <<>>) ]

ClientReplicators ==
  [ PeerInfo |-> Hop("GET p2p/info", <<>>),
    ActivePeers |-> Hop("GET p2p/active-peers", <<>>),
    Connect |-> Hop("POST p2p/connect", [body |-> Raw("addresses")]),
    AddReplicator |-> Hop("POST p2p/replicators",
      [Addresses |-> Raw("addresses"), Collections |-> Raw("collections")]),
    DeleteReplicator |-> Hop("DELETE p2p/replicators",
      [ID |-> Raw("id"), Collections |-> Raw("collections")]),
    ListReplicators |-> Hop("GET p2p/replicators", <<>>) ]

ClientTopics ==
  [ AddP2PCollections |-> Hop("POST p2p/collections", [body |-> Raw("names")]),
    DeleteP2PCollections |-> Hop("DELETE p2p/collections", [body |-> Raw("names")]),
    ListP2PCollections |-> Hop("GET p2p/collections", <<>>),
    AddP2PDocuments |-> Hop("POST p2p/documents", [body |-> Raw("docIDs")]),
    DeleteP2PDocuments |-> Hop("DELETE p2p/documents", [body |-> Raw("docIDs")]),
    ListP2PDocuments |-> Hop("GET p2p/documents", <<>>) ]

\* The deadline of the caller's context travels in the body.  Two of the
\* requests are made on a context of their own, which has no transaction.
ClientSync ==
  [ SyncDocuments |-> Outside(Hop("POST p2p/documents/sync",
      [collectionName |-> Raw("collection"), docIDs |-> Raw("docIDs"),
       timeout |-> NonZero("timeout")])),
    SyncCollectionVersions |-> Hop("POST p2p/collections/sync-versions",
      [versionIDs |-> Raw("versions"), timeout |-> NonZero("timeout")]),
    SyncBranchableCollection |-> Outside(Hop("POST p2p/collections/sync-branchable",
      [collectionID |-> Raw("collection"), timeout |-> NonZero("timeout")])) ]

(***************************************************************************)
(* http.Collection.                                                        *)
(***************************************************************************)

ClientIndexes ==
  [ NewIndex |-> Hop("POST collections/{name}/indexes",
      [Name |-> Raw("name"), Fields |-> Raw("fields"), Unique |-> Raw("unique")]),
    DeleteIndex |-> Needs({"name"}, "DELETE collections/{name}/indexes/{index}",
      [index |-> Raw("name")]),
    ListCollectionIndexes |-> Hop("GET collections/{name}/indexes", <<>>) ]

ClientEncryptedIndexes ==
  [ NewEncryptedIndex |-> Hop("POST collections/{name}/encrypted-indexes",
      [FieldName |-> Raw("field"), Type |-> Raw("type")]),
    ListCollectionEncryptedIndexes |->
      Hop("GET collections/{name}/encrypted-indexes", <<>>),
    DeleteEncryptedIndex |->
      Hop("DELETE collections/{name}/encrypted-indexes/{field}",
          [field |-> Raw("field")]),
    Truncate |-> Hop("DELETE collections/{name}/truncate", <<>>) ]

\* A list without documents is a nil slice, which is written as null and not
\* as an array.
ClientAdd ==
  LET encryption == [encrypt |-> NonZero("encryptDoc"),
                     encryptFields |-> NonZero("encryptedFields")]
  IN  [ AddDocument |-> Hop("POST collections/{name}",
          [isObject |-> Always, body |-> Raw("doc")] @@ encryption),
        AddManyDocuments |-> Hop("POST collections/{name}",
          [isArray |-> NonZero("docs"), body |-> Raw("docs")] @@ encryption) ]

ClientDocuments ==
  LET get == [to |-> "GET collections/{name}/document/{docID}",
              put |-> [docID |-> Raw("docID"), show_deleted |-> Always]]
  IN  [ UpdateDocument |-> Hop("PATCH collections/{name}/document/{docID}",
          [docID |-> Raw("docID"), body |-> Raw("updater")]),
        SaveDocument |-> Row(<<
          [Way({}, <<get>>, "PATCH collections/{name}/document/{docID}",
               [docID |-> Raw("docID"), body |-> Raw("doc")])
             EXCEPT !.other =
               [to |-> "POST collections/{name}",
                put |-> [isObject |-> Always, body |-> Raw("doc"),
                         encrypt |-> NonZero("encryptDoc"),
                         encryptFields |-> NonZero("encryptedFields")]]]>>),
        DeleteDocument |-> Hop("DELETE collections/{name}/document/{docID}",
          [docID |-> Raw("docID")]),
        \* GetDocument without options: its identity is the empty one.
        ExistsDocument |-> Anonymous(
          Hop("GET collections/{name}/document/{docID}", [docID |-> Raw("docID")])) ]

ClientFilters ==
  [ UpdateDocumentsWithFilter |-> Hop("PATCH collections/{name}",
      [filter |-> Raw("filter"), updater |-> Raw("updater")]),
    DeleteDocumentsWithFilter |-> Hop("DELETE collections/{name}",
      [filter |-> Raw("filter")]),
    GetDocument |-> Hop("GET collections/{name}/document/{docID}",
      [docID |-> Raw("docID"), show_deleted |-> NonZero("showDeleted")]) ]

HTTPClient ==
  ClientBackup @@ ClientDefinitions @@ ClientViews @@ ClientLens @@ ClientReads
    @@ ClientExecRequest @@ ClientNode @@ ClientDAC @@ ClientNAC
    @@ ClientReplicators @@ ClientTopics @@ ClientSync @@ ClientIndexes
    @@ ClientEncryptedIndexes @@ ClientAdd @@ ClientDocuments @@ ClientFilters

(***************************************************************************)
(* http.Transaction: the methods that put the transaction on the context   *)
(* of the client's method of that name.  The others are the client's own,  *)
(* promoted from the embedded field.                                       *)
(***************************************************************************)

TxnAccess ==
  {"PrintDump", "AddDACPolicy", "AddDACActorRelationship",
   "DeleteDACActorRelationship", "GetNodeIdentity", "VerifySignature",
   "AddCollection", "PatchCollection", "DeleteCollection",
   "SetActiveCollectionVersion", "AddView", "RefreshViews"}

TxnDefinitions ==
  {"SetMigration", "AddLens", "ListLenses", "GetCollectionByName",
   "GetCollections", "ListIndexes", "ListAllEncryptedIndexes", "ExecRequest",
   "BasicImport", "BasicExport"}

\* A collection keeps the transaction it was got in and puts it on the
\* context of each of its operations.
HTTPTxnMethods == TxnAccess \cup TxnDefinitions \cup DOMAIN CollectionMethods

-----------------------------------------------------------------------------
(***************************************************************************)
(* The handlers.                                                           *)
(***************************************************************************)

HandleBackup ==
  [r \in {"POST backup/import"} |-> DevOnly(Anonymous(ViaDB(
     Hop("BasicImport", [filepath |-> Raw("Filepath")]))))]
  @@ [r \in {"POST backup/export"} |-> DevOnly(Anonymous(ViaDB(
     Hop("BasicExport",
         [filepath |-> Raw("Filepath"), format |-> Raw("Format"),
          pretty |-> Raw("Pretty"), collections |-> Raw("Collections")]))))]

HandleDefinitions ==
  [r \in {"POST collections"} |-> Hop("AddCollection", [sdl |-> Raw("body")])]
  @@ [r \in {"PATCH collections"} |-> Hop("PatchCollection",
        [patch |-> Raw("Patch"), migration |-> Raw("Migration")])]
  @@ [r \in {"DELETE collections"} |-> Hop("DeleteCollection",
        [names |-> Raw("name"), activeOnly |-> NonZero("active_only")])]
  @@ [r \in {"POST collections/default"} |->
        Hop("SetActiveCollectionVersion", [version |-> Raw("body")])]

HandleAddView ==
  [r \in {"POST view"} |-> Hop("AddView",
     [query |-> Raw("Query"), sdl |-> Raw("SDL"), transformCID |-> Raw("TransformCID")])]

HandleLens ==
  [r \in {"POST collections/migrations"} |->
     Hop("SetMigration", [config |-> Raw("body")])]
  @@ [r \in {"POST lens"} |-> Hop("AddLens", [lens |-> Raw("Lens")])]
  @@ [r \in {"GET lens"} |-> Hop("ListLenses", <<>>)]

HandleReads ==
  LET filters == [collectionName |-> Raw("name"), versionID |-> Raw("version_id"),
                  collectionID |-> Raw("collection_id"),
                  getInactive |-> Raw("get_inactive")]
  IN  [r \in {"GET collections"} |-> Hop("GetCollections", filters)]
      @@ [r \in {"POST view/refresh"} |-> Hop("RefreshViews", filters)]

HandleListIndexes ==
  [r \in {"GET collections/indexes"} |-> Anonymous(Hop("ListIndexes", <<>>))]
  @@ [r \in {"GET encrypted-indexes"} |-> Hop("ListAllEncryptedIndexes", <<>>)]
  @@ [r \in {"GET debug/dump"} |-> Anonymous(ViaDB(Hop("PrintDump", <<>>)))]

\* extractGraphQLRequest: an empty name and empty variables are not set.
HandleExecRequest ==
  [r \in {"POST graphql"} |-> Hop("ExecRequest",
     [request |-> Raw("query"), operationName |-> NonZero("operationName"),
      variables |-> NonZero("variables")])]

HandleVerify ==
  [r \in {"GET block/verify-signature"} |-> ViaDB(Needs({"cid", "public_key"},
     "VerifySignature",
     [cid |-> Raw("cid"), key |-> Raw("public_key"), keyType |-> Raw("type")]))]

HandleNodeIdentity ==
  [r \in {"GET node/identity"} |-> Anonymous(ViaDB(Hop("GetNodeIdentity", <<>>)))]

HandleACP ==
  LET dac == [collection |-> Raw("CollectionName"), docID |-> Raw("DocID"),
              relation |-> Raw("Relation"), actor |-> Raw("TargetActor")]
      nac == [relation |-> Raw("Relation"), actor |-> Raw("TargetActor")]
  IN  [r \in {"POST acp/document/policy"} |->
         ViaDB(Hop("AddDACPolicy", [policy |-> Raw("body")]))]
      @@ [r \in {"POST acp/document/relationship"} |->
            ViaDB(Hop("AddDACActorRelationship", dac))]
      @@ [r \in {"DELETE acp/document/relationship"} |->
            ViaDB(Hop("DeleteDACActorRelationship", dac))]
      @@ [r \in {"POST acp/node/relationship"} |->
            ViaDB(Hop("AddNACActorRelationship", nac))]
      @@ [r \in {"DELETE acp/node/relationship"} |->
            ViaDB(Hop("DeleteNACActorRelationship", nac))]
      @@ [r \in {"POST acp/node/re-enable"} |-> ViaDB(Hop("ReEnableNAC", <<>>))]
      @@ [r \in {"POST acp/node/disable"} |-> ViaDB(Hop("DisableNAC", <<>>))]
      @@ [r \in {"GET acp/node/status"} |-> ViaDB(Hop("GetNACStatus", <<>>))]

HandleReplicators ==
  [r \in {"GET p2p/info"} |-> ViaDB(Hop("PeerInfo", <<>>))]
  @@ [r \in {"GET p2p/active-peers"} |-> ViaDB(Hop("ActivePeers", <<>>))]
  @@ [r \in {"POST p2p/connect"} |->
        ViaDB(Hop("Connect", [addresses |-> Raw("body")]))]
  @@ [r \in {"POST p2p/replicators"} |-> ViaDB(Hop("AddReplicator",
        [addresses |-> Raw("Addresses"), collections |-> Raw("Collections")]))]
  @@ [r \in {"DELETE p2p/replicators"} |-> ViaDB(Hop("DeleteReplicator",
        [id |-> Raw("ID"), collections |-> Raw("Collections")]))]
  @@ [r \in {"GET p2p/replicators"} |-> ViaDB(Hop("ListReplicators", <<>>))]

HandleTopics ==
  LET names == [names |-> Raw("body")]
      docIDs == [docIDs |-> Raw("body")]
  IN  [r \in {"POST p2p/collections"} |-> ViaDB(Hop("AddP2PCollections", names))]
      @@ [r \in {"DELETE p2p/collections"} |-> ViaDB(Hop("DeleteP2PCollections", names))]
      @@ [r \in {"GET p2p/collections"} |-> ViaDB(Hop("ListP2PCollections", <<>>))]
      @@ [r \in {"POST p2p/documents"} |-> ViaDB(Hop("AddP2PDocuments", docIDs))]
      @@ [r \in {"DELETE p2p/documents"} |-> ViaDB(Hop("DeleteP2PDocuments", docIDs))]
      @@ [r \in {"GET p2p/documents"} |-> ViaDB(Hop("ListP2PDocuments", <<>>))]

HandleSync ==
  [r \in {"POST p2p/documents/sync"} |-> ViaDB(Hop("SyncDocuments",
     [collection |-> Raw("collectionName"), docIDs |-> Raw("docIDs"),
      timeout |-> NonZero("timeout")]))]
  @@ [r \in {"POST p2p/collections/sync-versions"} |->
        ViaDB(Hop("SyncCollectionVersions",
          [versions |-> Raw("versionIDs"), timeout |-> NonZero("timeout")]))]
  @@ [r \in {"POST p2p/collections/sync-branchable"} |->
        ViaDB(Hop("SyncBranchableCollection",
          [collection |-> Raw("collectionID"), timeout |-> NonZero("timeout")]))]

(***************************************************************************)
(* The handlers of a collection's operations.  CollectionMiddleware gets   *)
(* the collection by its name before any of them runs.                     *)
(***************************************************************************)

ByName == [to |-> "GetCollectionByName", put |-> [name |-> Raw("col")]]

CollectionMiddleware(to, put) == After(<<ByName>>, to, put)

\* A route with one more path parameter, which an empty one does not match.
WithParam(param, to, put) == Row(<<Way({param}, <<ByName>>, to, put)>>)

HandleCollection ==
  [r \in {"DELETE collections/{name}"} |->
     CollectionMiddleware("DeleteDocumentsWithFilter", [filter |-> Raw("filter")])]
  @@ [r \in {"PATCH collections/{name}"} |->
        CollectionMiddleware("UpdateDocumentsWithFilter",
          [filter |-> Raw("filter"), updater |-> Raw("updater")])]
  @@ [r \in {"POST collections/{name}/indexes"} |->
        CollectionMiddleware("NewIndex",
          [name |-> Raw("Name"), fields |-> Raw("Fields"), unique |-> Raw("Unique")])]
  @@ [r \in {"GET collections/{name}/indexes"} |->
        ViaDB(CollectionMiddleware("ListCollectionIndexes", <<>>))]
  @@ [r \in {"DELETE collections/{name}/indexes/{index}"} |->
        WithParam("index", "DeleteIndex", [name |-> Raw("index")])]
  @@ [r \in {"POST collections/{name}/encrypted-indexes"} |->
        CollectionMiddleware("NewEncryptedIndex",
          [field |-> Raw("FieldName"), type |-> Raw("Type")])]
  @@ [r \in {"GET collections/{name}/encrypted-indexes"} |->
        CollectionMiddleware("ListCollectionEncryptedIndexes", <<>>)]
  @@ [r \in {"DELETE collections/{name}/encrypted-indexes/{field}"} |->
        WithParam("field", "DeleteEncryptedIndex", [field |-> Raw("field")])]
  @@ [r \in {"DELETE collections/{name}/truncate"} |->
        CollectionMiddleware("Truncate", <<>>)]

HandleAddDocument ==
  LET encryption == [encryptDoc |-> NonZero("encrypt"),
                     encryptedFields |-> NonZero("encryptFields")]
  IN  [r \in {"POST collections/{name}"} |-> Row(<<
         Way({"isArray"}, <<ByName>>, "AddManyDocuments",
             [docs |-> Raw("body")] @@ encryption),
         Way({"isObject"}, <<ByName>>, "AddDocument",
             [doc |-> Raw("body")] @@ encryption)>>)]

HandleDocument ==
  LET get == [to |-> "GetDocument",
              put |-> [docID |-> Raw("docID"), showDeleted |-> Always]]
  IN  [r \in {"PATCH collections/{name}/document/{docID}"} |->
         Row(<<Way({"docID"}, <<ByName, get>>, "UpdateDocument",
                   [docID |-> Raw("docID"), updater |-> Raw("body")])>>)]
      @@ [r \in {"DELETE collections/{name}/document/{docID}"} |->
            WithParam("docID", "DeleteDocument", [docID |-> Raw("docID")])]
      @@ [r \in {"GET collections/{name}/document/{docID}"} |->
            WithParam("docID", "GetDocument",
                  [docID |-> Raw("docID"), showDeleted |-> NonZero("show_deleted")])]

HTTPServer ==
  HandleBackup @@ HandleDefinitions @@ HandleAddView @@ HandleLens
    @@ HandleReads @@ HandleListIndexes @@ HandleExecRequest @@ HandleVerify
    @@ HandleNodeIdentity @@ HandleACP @@ HandleReplicators @@ HandleTopics
    @@ HandleSync @@ HandleCollection @@ HandleAddDocument @@ HandleDocument
=============================================================================
