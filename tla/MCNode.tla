------------------------------- MODULE MCNode -------------------------------
(***************************************************************************)
(* The services of a node and what it stores, checked together, one        *)
(* component per behaviour: `part` says which.  The services share no      *)
(* state in the code, and what is stored is checked apart, each against    *)
(* what the others promise it, so that this loses nothing.  The components *)
(* share the variables x1 .. x14.                                          *)
(***************************************************************************)
EXTENDS Integers, FiniteSetsExt, TLC

CONSTANTS Nil, d1, d2, h1, o1,
          u1, u2     \* the transactions, requests, peers or subscribers of a part

Two == {u1, u2}

\* The parts treat u1 and u2 alike.
Symmetry == Permutations(Two)

VARIABLES part, x1, x2, x3, x4, x5, x6, x7, x8, x9, x10, x11, x12, x13, x14

mcvars == <<part, x1, x2, x3, x4, x5, x6, x7, x8, x9, x10, x11, x12, x13, x14>>

-----------------------------------------------------------------------------
(* The services. *)

Bus == INSTANCE EventBus WITH
    Publishers <- {"p1"}, Subscribers <- Two, Names <- {"n1"}, WildCard <- "*",
    CommandBuffer <- 1, EventBuffer <- 1, MaxPublished <- 2,
    commands <- x1, msg <- x2, todo <- x3, subs <- x4, events <- x5, value <- x6, closed <- x7,
    closing <- x8, ppc <- x9, published <- x10, spc <- x11, wants <- x12, seen <- x13, order <- x14

Sync == INSTANCE DocSync WITH
    Peers <- Two, Docs <- {"d1", "d2"}, Cids <- {"c1", "c2"}, MaxAnswers <- 2,
    mode <- x1, requested <- x2, heads <- x3, answer <- x4, pending <- x5, results <- x6,
    merged <- x7, failed <- x8, status <- x9, answers <- x10, gaveUp <- x11, told <- x12

Topics == INSTANCE P2PTopics WITH
    Ids <- {"c", "x", "d", "bad"}, Known <- {"c", "d"}, Collections <- {"c", "x"},
    Txns <- Two, MaxCalls <- 3,
    up <- x1, persisted <- x2, topics <- x3, mark <- x4, queued <- x5, running <- x6,
    calls <- x7, unsettled <- x8

Tags == INSTANCE SearchTags WITH
    Peers <- Two, Docs <- {"d1"}, Fields <- {"f", "g"}, MaxUpdates <- 2,
    MaxVersions <- 1, Restarts <- TRUE,
    value <- x1, updates <- x2, pushes <- x3, loop <- x4, entry <- x5, tags <- x6,
    missed <- x7, version <- x8, later <- x9

\* Two updates of the document, or an update and a patch of the collection.
MaxChanges == 2
TagsNext == Tags!Next /\ x2' + x8' <= MaxChanges

Comm == INSTANCE CommChannel WITH
    Request <- Two,
    call <- x1, table <- x2, chan <- x3, buffer <- x4, server <- x5, applied <- x6, net <- x7,
    handlers <- x8, panicked <- x9

\* A document of two commits, encrypted as a whole with k1, one field of which
\* has a key k2 of its own.
KeyReq == INSTANCE KeyRequest WITH
    Requests <- Two, Peers <- {"p1", "p2"}, NoKey <- "none",
    Blocks <- {"c1", "c2", "f1"}, Composites <- {"c1", "c2"},
    AllLinks <- [c1 |-> <<"f1">>, c2 |-> <<"c1">>, f1 |-> <<>>],
    Encryption <- [c1 |-> "k1", c2 |-> "k1", f1 |-> "k2"],
    has <- x1, allows <- x2, stored <- x3, merged <- x4, encstore <- x5, head <- x6,
    stack <- x7, key <- x8, status <- x9, refused <- x10

\* p1 gives what it has, p2 has all keys and gives none.
KeyReqInit ==
    /\ KeyReq!Init
    /\ x2 = [p1 |-> KeyReq!EncryptionKeys, p2 |-> {}]
    /\ x1["p2"] = KeyReq!EncryptionKeys

-----------------------------------------------------------------------------
(* What is stored. *)

\* Two documents of a collection with an array, under a unique index of one
\* field and an index of two.
Index == INSTANCE Indexing WITH
    Fields <- {"a", "t"}, Arrays <- {"t"},
    FieldValues <- [a |-> {1, 2}, t |-> {{1, 2}}],
    Initial <- (d1 :> [f \in {"a"} |-> 1]) @@ (d2 :> [a |-> 2, t |-> {1, 2}]),
    Handles <- {h1}, Objects <- {o1},
    IndexRequests <- {[fields |-> <<"a">>, unique |-> TRUE],
                      [fields |-> <<"t", "a">>, unique |-> FALSE]},
    MaxIndexID <- 2,
    store <- x1, saved <- x2, handles <- x3, objects <- x4, cleaning <- x5, outcome <- x6

MaxCalls == 5

\* Nothing is asked of what follows once the entries may have gone astray.
IndexNext ==
    /\ x7 < MaxCalls /\ x7' = x7 + 1
    /\ x1.loose \subseteq {"deletedByFilter"}
    /\ Index!Next

\* Two versions of a collection, of which the second adds a field.
Repo == INSTANCE CollectionRepo WITH
    Txns <- Two, Versions <- <<"v1", "v2">>, MaxCalls <- 2,
    FieldsOf <- [v1 |-> {"f1"}, v2 |-> {"f1", "f2"}],
    Initial <- {<<>>, <<"v1">>, <<"v1", "v2">>}, MaxShortID <- 2,
    db <- x1, forbidden <- x2, writer <- x3, readers <- x4, txn <- x5, torn <- x6, handles <- x7

\* Calls of transactions that are open at the same time.
MaxRepoCalls == 3
RepoNext == Repo!Next /\ x5'[u1].calls + x5'[u2].calls <= MaxRepoCalls

\* All ways in which three collections may refer to each other; the name of the
\* second begins with that of the first.
Sets == INSTANCE CollectionSets WITH
    Names <- 1..3, Longer <- <<{2}, {}, {}>>, Graphs <- [1..3 -> SUBSET (1..3)],
    graph <- x1, operations <- x2, relations <- x3, sets <- x4, index <- x5, ids <- x6, phase <- x7

\* Truncating a collection whose document d has two versions (c1, c2) of one
\* field (f1, f2) and a signature; d2 is a deleted document, e one of another
\* collection, k a block of the collection itself and k10 one of the other, whose
\* short ID begins with this one's.
LinksOf == [c1 |-> {"f1"}, c2 |-> {"c1", "f2"}, f1 |-> {}, f2 |-> {"f1"}, sig |-> {},
            g1 |-> {}, e1 |-> {"ef"}, ef |-> {}, k |-> {"c2", "g1"},
            k10 |-> {"e1"}]
H(o, c) == [owner |-> o, cid |-> c]
KeysOf(kind, doc, n) == {[kind |-> kind, doc |-> doc, n |-> i] : i \in 1..n}
If(b, s) == IF b THEN s ELSE {}
Stores ==
  {[keys |-> KeysOf("value", "d", v) \cup KeysOf("priority", "d", v)
               \cup KeysOf("deleted", "d2", x) \cup KeysOf("primary", "d", 1)
               \cup KeysOf("index", "d", i) \cup KeysOf("unique", "d", u)
               \cup KeysOf("uniqueLong", "d2", l) \cup KeysOf("se", "d", s) \cup KeysOf("view", "d", s),
    heads |-> {H("d", "c2"), H("d", "f2"), H("e", "e1"), H("e", "ef")}
                \cup If(x = 1, {H("d2", "g1")}) \cup If(b, {H("col", "k")})
                \cup If(t, {H("col10", "k10")}),
    blocks |-> {"c1", "c2", "f1", "f2", "sig", "e1", "ef"}
                 \cup If(x = 1, {"g1"}) \cup If(b, {"k"}) \cup If(t, {"k10"})] :
   v \in 1..2, x \in 0..1, i \in 0..2, u \in 0..1, l \in 0..1, s \in {0, 3}, b \in BOOLEAN,
   t \in BOOLEAN}

Trunc == INSTANCE Truncate WITH
    Datasets <- Stores, Links <- LinksOf,
    Side <- [b \in DOMAIN LinksOf |-> If(b = "c2", {"sig"})],
    FieldBlocks <- {"f1", "f2", "ef"},
    Owner <- [c1 |-> "d", c2 |-> "d", f1 |-> "d", f2 |-> "d", sig |-> "d", g1 |-> "d2",
              e1 |-> "e", ef |-> "e", k |-> "col", k10 |-> "col10"],
    DocsOf <- {"d", "d2"}, ChunkSizes <- {2, 4}, Col <- "col", ColsBelow <- {"col10"},
    store <- x1, before <- x2, hardDeleteChunkSize <- x3, phase <- x4

Codec == INSTANCE MCKeys WITH universe <- x1, stored <- x2, scan <- x3, found <- x4

-----------------------------------------------------------------------------
\* the variables a part leaves out
No5to7 == x5 = 0 /\ x6 = 0 /\ x7 = 0
No10to14 == x10 = 0 /\ x11 = 0 /\ x12 = 0 /\ x13 = 0 /\ x14 = 0
No8to14 == x8 = 0 /\ x9 = 0 /\ No10to14

MCInit ==
    \/ part = "bus" /\ Bus!Init
    \/ part = "sync" /\ Sync!Init /\ x13 = 0 /\ x14 = 0
    \/ part = "topics" /\ Topics!Init /\ x9 = 0 /\ No10to14
    \/ part = "tags" /\ Tags!Init /\ No10to14
    \/ part = "comm" /\ Comm!Init /\ No10to14
    \/ part = "keyrequest" /\ KeyReqInit /\ x11 = 0 /\ x12 = 0 /\ x13 = 0 /\ x14 = 0
    \/ part = "index" /\ Index!Init /\ x7 = 0 /\ No8to14
    \/ part = "repo" /\ Repo!Init /\ No8to14
    \/ part = "sets" /\ Sets!Init /\ No8to14
    \/ part = "truncate" /\ Trunc!Init /\ No5to7 /\ No8to14
    \/ part = "keys" /\ Codec!Init /\ No5to7 /\ No8to14

DataNext ==
    \/ part = "index" /\ IndexNext
    \/ part = "repo" /\ RepoNext
    \/ part = "sets" /\ Sets!Next
    \/ part = "truncate" /\ Trunc!Next /\ UNCHANGED <<x5, x6, x7>>
    \/ part = "keys" /\ Codec!Next /\ UNCHANGED <<x5, x6, x7>>

ServiceNext ==
    \/ part = "bus" /\ Bus!Next
    \/ part = "sync" /\ Sync!Next /\ UNCHANGED <<x13, x14>>
    \/ part = "topics" /\ Topics!Next /\ UNCHANGED <<x9, x10, x11, x12, x13, x14>>
    \/ part = "tags" /\ TagsNext /\ UNCHANGED <<x10, x11, x12, x13, x14>>
    \/ part = "comm" /\ Comm!Next /\ UNCHANGED <<x10, x11, x12, x13, x14>>
    \/ part = "keyrequest" /\ KeyReq!Next /\ UNCHANGED <<x11, x12, x13, x14>>

MCNext ==
    /\ UNCHANGED part
    /\ \/ ServiceNext
       \/ DataNext /\ UNCHANGED <<x8, x9, x10, x11, x12, x13, x14>>

MCSpec == MCInit /\ [][MCNext]_mcvars

-----------------------------------------------------------------------------
\* Every subscriber of the bus is sent, once and in order, what was published
\* between its subscription and its leaving; the handler sends only to open
\* channels of known subscriptions; and when Close has returned, every
\* subscription that was handed out is closed (channel_bus.go).
BusDelivers == part = "bus" => Bus!BusDelivers

\* A document or collection sync that succeeds has merged every head it was
\* told of, except heads whose merge was given up after too many conflicts and
\* a document's heads that could not be fetched or merged.
SuccessMeansMerged == part = "sync" => Sync!SuccessMeansMerged

\* Once its callbacks have run, a node follows the topic of an id exactly when
\* the store says so, unless two callbacks of the id overlapped or the host
\* failed in one.
TopicsFollowStore == part = "topics" => Topics!TopicsFollowStore

\* A search by the values a document has finds it on every replicator that all
\* its pushes reached, unless it was pushed after the collection was patched.
SearchFinds == part = "tags" => Tags!SearchFinds

\* A handler of responses finds in the table only channels that are open, and
\* the table keeps no channel of a Send that has returned, unless a handler is
\* about to delete it (message.go).
TableIsTrue == part = "comm" => Comm!TableIsTrue

\* A sync that has succeeded has the keys of all blocks the merge will apply,
\* or was refused them (loadBlockLinks); and what is merged could be read, and
\* so could all that it builds on (processEncryptedBlock).
KeysBeforeMerge == part = "keyrequest" => KeyReq!KeysBeforeMerge

\* After calls through current handles and objects that did not fail halfway,
\* an index has exactly the entries that the documents call for; no two
\* documents share the values of a unique index (addNewUniqueKey); and no call
\* finds an entry missing that it has to delete (ErrCorruptedIndex).
IndexesAgree ==
    part = "index" => Index!IndexMatches /\ Index!UniqueHolds /\ Index!NeverCorrupted

\* However transactions add, activate and delete versions while others add
\* documents: a document is of a collection that exists (collectionHasDocuments),
\* short IDs exist for exactly the collections and fields of some version
\* (FieldIDsToDelete), the name leads to the one active version, and what a
\* transaction's cache holds is what its store holds.
VersionsAgree ==
    part = "repo" =>
        /\ Repo!DocumentsHaveCollection
        /\ Repo!ShortIDsMatchVersions
        /\ Repo!NameLeadsToActive
        /\ Repo!CacheIsTrue

\* A collection's ID depends on its definition and those it refers to, not on
\* the order in which maps are walked or operations given, where no collection's
\* name begins with one of theirs; getCollectionSets puts two collections into
\* one set exactly when each leads to the other, and the sorting of the sets ends.
IDsDependOnDefinitions ==
    part = "sets" => Sets!IDsDependOnDefinitions /\ Sets!SetsAreCircles /\ Sets!SortEnds

\* Truncate leaves no key, head or block of the collection, deletes nothing of
\* another one where there is no unique index and no other collection's short ID
\* begins with this one's, and ends where the index entries do not fill a chunk.
TruncatesItsOwn ==
    part = "truncate" => Trunc!NothingLeft /\ Trunc!OthersKeepTheirs /\ Trunc!TruncateEnds

\* The entries of an index are stored in the order of their values; a scan with
\* a partial key finds every key it is a part of and no other, except for heads;
\* and a key that is read is the one that was written, apart from numbers with a
\* slash in them and the heads of collection sets.
KeysAreFaithful ==
    part = "keys" => Codec!IndexInOrder /\ Codec!ScanFindsOwn /\ Codec!ReadsBack

-----------------------------------------------------------------------------
(* What the code does not keep; TLC finds each of these violated. *)

NoPanic == part = "comm" => Comm!NoPanic
SuccessMeansAllMerged == part = "sync" => Sync!SuccessMeansAllMerged
TopicsAlwaysFollowStore == part = "topics" => Topics!TopicsAlwaysFollowStore
AllAnswered == part = "sync" => Sync!AllAnswered
MissingIsRecorded == part = "tags" => Tags!MissingIsRecorded
SameValueSameTag == part = "tags" => Tags!SameValueSameTag
KeyIsFound == part = "keyrequest" => KeyReq!KeyIsFound
IndexMatchesAlways == part = "index" => Index!IndexMatchesAlways
StoredIsUsable == part = "repo" => Repo!StoredIsUsable
SameIDs == part = "sets" => Sets!SameIDs
GoneIsUnusable == part = "repo" => Repo!GoneIsUnusable
SurvivorsKeepHeads == part = "repo" => Repo!SurvivorsKeepHeads
EveryFieldIsFiled == part = "repo" => Repo!EveryFieldIsFiled
TruncateEndsAlways == part = "truncate" => Trunc!TruncateEndsAlways
OthersKeepTheirsAlways == part = "truncate" => Trunc!OthersKeepTheirsAlways
ReadsBackAlways == part = "keys" => Codec!ReadsBackAlways
=============================================================================
