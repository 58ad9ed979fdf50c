--------------------------- MODULE CollectionRepo ---------------------------
(***************************************************************************)
(* The repository of collection definitions: a cache per transaction       *)
(* (internal/db/cache, internal/db/description) above the system store,    *)
(* the short identifiers of the collection and of its fields               *)
(* (internal/db/id), and what adds, patches, activates and deletes         *)
(* versions (internal/db/collection_define.go) while documents are added.  *)
(*                                                                         *)
(* There is one collection.  A transaction works on its own view of the    *)
(* store; its calls are broken into repository calls, and a call at every  *)
(* point where another transaction's commit can be noticed: between the    *)
(* look below the cache and the entry in the cache, and where it waits for *)
(* the collection's lock.  Listing the versions at the start of a call is  *)
(* one step.                                                               *)
(***************************************************************************)
EXTENDS Integers, Sequences, FiniteSets, SequencesExt

CONSTANTS Txns,        \* the transactions, each used once
          Versions,    \* the version IDs, first to last; the first is the CollectionID
          FieldsOf,    \* for each version, its fields
          Nil,         \* no value
          Initial,     \* the version IDs a database may start with, the last one active
          MaxCalls,    \* bound: calls made in one transaction
          MaxShortID   \* bound: short collection IDs handed out

VersionIDs == Range(Versions)
Fields == UNION {FieldsOf[v] : v \in VersionIDs}
Root == Versions[1]

VARIABLES db,          \* what is committed
          forbidden,   \* collectionStore.forbiddenCollectionIDs has the collection
          writer,      \* who holds the collection's lock
          readers,     \* who holds its read lock
          txn,         \* the transactions
          torn,        \* a transaction was committed after one of its calls failed
          handles      \* the versions that callers may hold a collection handle on

vars == <<db, forbidden, writer, readers, txn, torn, handles>>

-----------------------------------------------------------------------------
(***************************************************************************)
(* The store.  versions holds "none", "inactive" or "active" for each ID,  *)
(* name the ID filed under the collection's name, short the short          *)
(* collection ID (0: none), fields the fields that have a short ID, blocks *)
(* the versions and fields whose definition blocks (for a field, with its  *)
(* head) are there, heads the versions that are heads of the definition,   *)
(* docs the short IDs that documents are stored under, unfiled whether one *)
(* has a field that had no short ID and was stored as field 0.             *)
(***************************************************************************)

Stored(s) == {v \in VersionIDs : s.versions[v] # "none"}

EmptyCache == [byVersion |-> [v \in VersionIDs |-> "none"], byName |-> Nil,
               byCollection |-> Nil, forbids |-> FALSE]

Idle == [call |-> "none"]

StoreOf(vs) ==
  LET last == vs[Len(vs)]
  IN  [ versions |-> [v \in VersionIDs |-> IF vs # <<>> /\ v = last THEN "active"
                                           ELSE IF v \in Range(vs) THEN "inactive"
                                           ELSE "none"],
        name |-> IF vs = <<>> THEN Nil ELSE last,
        short |-> IF vs = <<>> THEN 0 ELSE 1,
        seq |-> IF vs = <<>> THEN 0 ELSE 1,
        fields |-> UNION {FieldsOf[v] : v \in Range(vs)},
        blocks |-> Range(vs) \cup UNION {FieldsOf[v] : v \in Range(vs)},
        heads |-> IF vs = <<>> THEN {} ELSE {last},
        docs |-> {},
        unfiled |-> FALSE ]

NewTxn == [ phase |-> "idle", view |-> StoreOf(<<>>), cache |-> EmptyCache, touched |-> {},
            wrote |-> {}, dug |-> {}, stale |-> {}, callbacks |-> <<>>, todo |-> <<>>,
            step |-> Idle, failed |-> FALSE, calls |-> 0 ]

Init == /\ db \in {StoreOf(vs) : vs \in Initial}
        /\ forbidden = FALSE
        /\ writer = Nil
        /\ readers = {}
        /\ txn = [t \in Txns |-> NewTxn]
        /\ torn = FALSE
        /\ handles = {}

-----------------------------------------------------------------------------
(* The cache of one transaction (description/collection_cache.go).         *)

Status(c, kind, v) ==
  LET id == IF kind = "version" THEN v
            ELSE IF kind = "name" THEN c.byName ELSE c.byCollection
  IN  IF c.forbids \/ id = Nil THEN Nil
      ELSE IF kind # "version" THEN [id |-> id, active |-> TRUE]
      ELSE IF c.byVersion[id] = "none" THEN Nil
      ELSE [id |-> id, active |-> c.byVersion[id] = "active"]

Cache(c, value) ==
  LET now == [c EXCEPT !.byVersion[value.id] = IF value.active THEN "active" ELSE "inactive",
                       !.forbids = FALSE]
  IN  IF value.active THEN [now EXCEPT !.byName = value.id, !.byCollection = value.id]
      ELSE IF c.byVersion[value.id] = "active"
      THEN [now EXCEPT !.byName = Nil, !.byCollection = Nil]
      ELSE now

Uncache(c, v) ==
  IF Status(c, "version", v) = Nil THEN c
  ELSE [c EXCEPT !.byName = Nil, !.byCollection = Nil, !.byVersion[v] = "none"]

-----------------------------------------------------------------------------
(* The store below the caches (description/collection_store.go).  x is a   *)
(* transaction; what it reads and writes of the store is noted, for the    *)
(* store refuses to commit what has changed under it.                      *)

Key(n) == <<n, "">>
VersionKeys(vs) == {<<"version", v>> : v \in vs}
FieldKeys(fs) == {<<"field", f>> : f \in fs}
HeadKeys(vs) == {<<"head", v>> : v \in vs}

Touch(x, ks) == [x EXCEPT !.touched = @ \cup ks]
Wrote(x, ks) == [x EXCEPT !.touched = @ \cup ks, !.wrote = @ \cup ks]

\* registerTxn: the first use makes the cache and registers its end.
registerTxn(x) ==
  IF \E i \in DOMAIN x.callbacks : x.callbacks[i] = "dropCache" THEN x
  ELSE [x EXCEPT !.callbacks = Append(@, "dropCache")]

getCollectionByVersionID(x, v) ==
  IF x.view.versions[v] = "none" THEN Nil
  ELSE [id |-> v, active |-> x.view.versions[v] = "active"]

\* One look through the cache at a version, and the transaction after it.
Look(x, v) ==
  LET hit == Status(x.cache, "version", v)
      stored == getCollectionByVersionID(x, v)
      found == IF hit # Nil THEN hit ELSE IF forbidden THEN Nil ELSE stored
      seen == IF hit # Nil THEN x ELSE Touch(x, VersionKeys({v}))
  IN  [value |-> found,
       after |-> IF found = Nil THEN seen ELSE [seen EXCEPT !.cache = Cache(@, found)]]

\* Several looks one after the other, up to the one that satisfies.
LookThrough(x, vs, activeOnly) ==
  FoldLeft(LAMBDA acc, v :
      IF acc.value # Nil THEN acc
      ELSE LET l == Look(acc.after, v)
           IN  [value |-> IF l.value # Nil /\ activeOnly /\ l.value.active THEN l.value ELSE Nil,
                after |-> l.after],
    [value |-> Nil, after |-> x], vs)

getCollectionByName(x) ==
  LET y == Touch(x, {Key("name")})
  IN  IF x.view.name = Nil THEN [value |-> Nil, after |-> y] ELSE Look(y, x.view.name)

\* The first version is not indexed by collection: it is looked at directly.
Indexed(x) ==
  SelectSeq(Versions, LAMBDA v : v = Root \/ x.view.versions[v] # "none")

getActiveCollectionByCollectionID(x) == LookThrough(x, Indexed(x), TRUE)

LowerTryGet(x, kind, v) ==
  LET l == IF kind = "version"
             THEN [value |-> getCollectionByVersionID(x, v), after |-> Touch(x, VersionKeys({v}))]
           ELSE IF kind = "name" THEN getCollectionByName(x)
           ELSE getActiveCollectionByCollectionID(x)
  IN  IF forbidden THEN [l EXCEPT !.value = Nil] ELSE l

\* All versions, the root through the cache and the others from the store.
getCollectionsByCollectionID(x) ==
  LET l == Look(x, Root)
      rest == {v \in VersionIDs \ {Root} : x.view.versions[v] # "none"}
  IN  [versions |-> rest \cup (IF l.value = Nil THEN {} ELSE {Root}),
       after |-> Touch(l.after, VersionKeys(rest))]

-----------------------------------------------------------------------------
(* Short identifiers (internal/db/id) and definition blocks.               *)

SetShortCollectionID(x) ==
  IF x.view.short # 0 THEN Touch(x, {Key("short")})
  ELSE Wrote([x EXCEPT !.view.seq = @ + 1, !.view.short = x.view.seq + 1],
             {Key("short"), Key("seq")})

SetShortFieldIDs(x, v) ==
  Wrote(Touch([x EXCEPT !.view.fields = @ \cup FieldsOf[v]], FieldKeys(FieldsOf[v])),
        FieldKeys(FieldsOf[v] \ x.view.fields))

\* A new version has a block, and so has every field that is new with it.  The block
\* of the version takes the place of the heads of the definition.
saveBlocks(x, v, olds) ==
  LET new == {v} \cup (FieldsOf[v] \ olds)
  IN  Wrote([x EXCEPT !.view.blocks = @ \cup new, !.dug = @ \cup new, !.view.heads = {v}],
            HeadKeys(x.view.heads \cup {v}))

FieldIDsToDelete(v, others) == FieldsOf[v] \ UNION {FieldsOf[u] : u \in others}

\* The name is freed only by the version that has it.
LowerWrite(x, v, active) ==
  LET y == SetShortFieldIDs(SetShortCollectionID(x), v)
      z == [y EXCEPT !.view.versions[v] = IF active THEN "active" ELSE "inactive",
                     !.view.name = IF active THEN v ELSE IF @ = v THEN Nil ELSE @]
  IN  Wrote(Touch(z, {Key("name")}),
            VersionKeys({v}) \cup IF z.view.name = x.view.name THEN {} ELSE {Key("name")})

\* The records of the version go, and its name if it is active.
DeleteRecords(x, value) ==
  Wrote([x EXCEPT !.view.versions[value.id] = "none",
                  !.view.name = IF value.active THEN Nil ELSE @],
        VersionKeys({value.id}) \cup IF value.active THEN {Key("name")} ELSE {})

\* deleteCollectionBlocks and deleteCollectionDefinitionHeads.
DeleteBlocks(x, v) ==
  LET gone == {v} \cup FieldsOf[v]
  IN  Wrote(Touch([x EXCEPT !.view.blocks = @ \ gone, !.dug = @ \cup gone,
                            !.view.heads = @ \ {v}],
                  HeadKeys({v})),
            HeadKeys(x.view.heads \cap {v}))

-----------------------------------------------------------------------------
(* Locks: an outline of LockSet, for one collection.                       *)

CanRead(t) == writer \in {Nil, t}
CanWrite(t) == writer \in {Nil, t} /\ readers \subseteq {t}

OnClose(x, fn) ==
  IF \E i \in DOMAIN x.callbacks : x.callbacks[i] = fn THEN x
  ELSE [x EXCEPT !.callbacks = Append(@, fn)]

-----------------------------------------------------------------------------
(* The calls of a transaction.                                             *)

Ready(t) == /\ txn[t].phase = "open"
            /\ txn[t].step = Idle
            /\ txn[t].todo = <<>>
            /\ txn[t].calls < MaxCalls

Begin(t) ==
  /\ txn[t].phase = "idle"
  /\ txn' = [txn EXCEPT ![t].phase = "open", ![t].view = db]
  /\ handles' = handles \cup Stored(db)
  /\ UNCHANGED <<db, forbidden, writer, readers, torn>>

\* The versions a transaction sees, and the transaction after it looked.
GetCollections(x) ==
  LET all == LookThrough(registerTxn(x), Indexed(x), FALSE).after
  IN  [seen |-> {v \in VersionIDs : Look(all, v).value # Nil}, after |-> all]

IsActive(x, v) == LET l == Look(x, v).value IN l # Nil /\ l.active

Call(t, x, todo) ==
  /\ txn' = [txn EXCEPT ![t] = [x EXCEPT !.calls = @ + 1, !.todo = todo]]
  /\ UNCHANGED <<db, forbidden, writer, readers, torn, handles>>

WriteCall(v, active) == [call |-> "write", v |-> v, active |-> active]
DeleteCall(v) == [call |-> "delete", v |-> v]

\* addCollections: refused if the name is taken by an active version.  While an
\* inactive root is there its heads make the new one another collection.
addCollections(t) ==
  LET g == GetCollections(txn[t])
  IN  /\ Ready(t)
      /\ ~\E v \in g.seen : IsActive(g.after, v)
      /\ Root \notin g.seen
      /\ g.after.view.seq < MaxShortID
      /\ Call(t, saveBlocks(g.after, Root, {}), <<WriteCall(Root, TRUE)>>)

\* patchCollection with a new version after v: it is saved before the one it replaces.
patchCollection(t, i, activate) ==
  LET g == GetCollections(txn[t])
      v == Versions[i]
      old == SelectSeq(Versions, LAMBDA u : u \in g.seen /\ IsActive(g.after, u))
  IN  /\ Ready(t)
      /\ v \in g.seen
      /\ Versions[i + 1] \notin g.seen
      /\ Call(t, saveBlocks(g.after, Versions[i + 1], FieldsOf[v]),
              <<WriteCall(Versions[i + 1], activate)>>
                \o (IF activate THEN [j \in DOMAIN old |-> WriteCall(old[j], FALSE)] ELSE <<>>))

\* patchCollection with nothing but IsActive taken from version v.
deactivate(t, v) ==
  LET g == GetCollections(txn[t])
  IN  /\ Ready(t)
      /\ v \in g.seen
      /\ IsActive(g.after, v)
      /\ Call(t, g.after, <<WriteCall(v, FALSE)>>)

\* The versions that setActiveCollectionVersion saves, in the order of the list.
Activation(x, seen, v) ==
  LET changed == SelectSeq(Versions, LAMBDA u : u \in seen /\ IsActive(x, u) # (u = v))
  IN  [j \in DOMAIN changed |-> WriteCall(changed[j], changed[j] = v)]

setActiveCollectionVersion(t, v) ==
  LET g == GetCollections(txn[t])
  IN  /\ Ready(t)
      /\ v \in g.seen
      /\ Call(t, g.after, Activation(g.after, g.seen, v))

\* deleteCollection: every version, the newest first, or the active one.
deleteCollection(t, activeOnly) ==
  LET g == GetCollections(txn[t])
      gone == SelectSeq(Reverse(Versions),
                LAMBDA v : v \in g.seen /\ (activeOnly => IsActive(g.after, v)))
  IN  /\ Ready(t)
      /\ \E v \in g.seen : IsActive(g.after, v)
      /\ Call(t, g.after, [j \in DOMAIN gone |-> DeleteCall(gone[j])])

\* A collection is asked for, by one of the three keys.
GetCollection(t, kind, v) ==
  /\ Ready(t)
  /\ Call(t, txn[t], <<[call |-> "get", kind |-> kind, v |-> v]>>)

\* A document is added through a handle on version v, however old; then the
\* collection is looked for.
AddDocument(t, v) ==
  /\ Ready(t)
  /\ v \in handles \cup Stored(txn[t].view)
  /\ Call(t, txn[t], <<[call |-> "doc", v |-> v], [call |-> "get", kind |-> "stillExists", v |-> Root]>>)

-----------------------------------------------------------------------------
(* The repository calls, one step after the other.                         *)

At(t, call) == /\ txn[t].phase = "open"
               /\ txn[t].step = Idle
               /\ txn[t].todo # <<>>
               /\ Head(txn[t].todo).call = call

Finish(x) == [x EXCEPT !.step = Idle, !.todo = Tail(@)]
Fail(x) == [x EXCEPT !.step = Idle, !.todo = <<>>, !.failed = TRUE]

\* TxnRepository.TryGet: from the cache, else from below.
TryGet(t) ==
  /\ At(t, "get")
  /\ LET c == Head(txn[t].todo)
         kind == IF c.kind = "stillExists" THEN "collection" ELSE c.kind
         x == registerTxn(txn[t])
         l == LowerTryGet(x, kind, c.v)
     IN  txn' = [txn EXCEPT ![t] =
           IF Status(x.cache, kind, c.v) # Nil THEN Finish(x)
           ELSE IF l.value = Nil
           THEN IF c.kind = "stillExists" THEN Fail(l.after) ELSE Finish(l.after)
           ELSE [l.after EXCEPT !.step = [call |-> "cache", value |-> l.value]]]
  /\ UNCHANGED <<db, forbidden, writer, readers, torn, handles>>

\* Then the value is cached, which forbids nothing any more to this transaction.
CacheValue(t) ==
  /\ txn[t].step.call = "cache"
  /\ txn' = [txn EXCEPT ![t] = Finish([@ EXCEPT !.cache = Cache(@, txn[t].step.value)])]
  /\ UNCHANGED <<db, forbidden, writer, readers, torn, handles>>

\* TxnRepository.Write: below first, which forbids the collection to no one any more.
Write(t) ==
  /\ At(t, "write")
  /\ LET c == Head(txn[t].todo)
         x == registerTxn(LowerWrite(txn[t], c.v, c.active))
     IN  txn' = [txn EXCEPT ![t] =
           [x EXCEPT !.step = [call |-> "cache", value |-> [id |-> c.v, active |-> c.active]]]]
  /\ forbidden' = FALSE
  /\ UNCHANGED <<db, writer, readers, torn, handles>>

\* deleteCollectionVersion, up to where the collection must be locked.
Delete(t) ==
  /\ At(t, "delete")
  /\ LET v == Head(txn[t].todo).v
         l == Look(registerTxn(txn[t]), v)
         g == getCollectionsByCollectionID(Touch(l.after, {Key("short")}))
         newer == \E i \in 1..(Len(Versions) - 1) :
                    Versions[i] = v /\ Versions[i + 1] \in g.versions
         fields == FieldIDsToDelete(v, g.versions \ {v})
         last == Cardinality(g.versions) = 1
         x == [DeleteRecords(g.after, l.value) EXCEPT
                 !.step = [call |-> "locked", v |-> v, fields |-> fields, last |-> last]]
     IN  /\ txn' = [txn EXCEPT ![t] =
              IF newer THEN Fail(g.after)
              ELSE IF l.value = Nil THEN Finish([l.after EXCEPT !.cache = Uncache(@, v)])
              ELSE x]
         /\ readers' = IF ~newer /\ l.value # Nil /\ (fields # {} \/ last)
                         THEN readers \ {t} ELSE readers
  /\ UNCHANGED <<db, forbidden, writer, torn, handles>>

NeedsLock(t) ==
  (txn[t].step.fields # {} \/ txn[t].step.last) => CanWrite(t)

\* Mutant: only what the transaction sees is asked for documents.
HasDocumentsTxn(x) == x.view.short \in x.view.docs

collectionHasDocuments(x) == x.view.short \in x.view.docs \cup db.docs

\* ... and from there.  The last version takes the short ID with it.
DeleteLocked(t) ==
  /\ txn[t].step.call = "locked"
  /\ NeedsLock(t)
  /\ LET s == txn[t].step
         locked == s.fields # {} \/ s.last
         y == Wrote([txn[t] EXCEPT !.view.fields = @ \ s.fields], FieldKeys(s.fields))
         x == IF locked THEN OnClose(y, "unlock") ELSE y
         z == Wrote([x EXCEPT !.view.short = 0, !.callbacks = Append(@, "forbid")],
                    {Key("short")})
         done(w) == Finish(DeleteBlocks([w EXCEPT !.cache = Uncache(@, s.v)], s.v))
     IN  /\ writer' = IF locked THEN t ELSE writer
         /\ txn' = [txn EXCEPT ![t] = IF ~s.last THEN done(x)
                                      ELSE IF collectionHasDocuments(x) THEN Fail(x)
                                      ELSE done(z)]
  /\ UNCHANGED <<db, forbidden, readers, torn, handles>>

\* The short ID first, then the read lock, then the document, field by field: a
\* field without a short ID is given 0.
WriteDocument(t) ==
  /\ At(t, "doc")
  /\ LET fields == FieldsOf[Head(txn[t].todo).v]
         x == Touch(txn[t], {Key("short")} \cup FieldKeys(fields \cap txn[t].view.fields))
     IN  IF x.view.short = 0
           THEN txn' = [txn EXCEPT ![t] = Fail(x)] /\ UNCHANGED readers
           ELSE /\ CanRead(t)
                /\ readers' = IF writer = t THEN readers ELSE readers \cup {t}
                /\ txn' = [txn EXCEPT ![t] = Finish(OnClose(
                     [x EXCEPT !.view.docs = @ \cup {x.view.short},
                               !.view.unfiled = @ \/ ~(fields \subseteq x.view.fields)],
                     "rUnlock"))]
  /\ UNCHANGED <<db, forbidden, writer, torn, handles>>

-----------------------------------------------------------------------------
(* The end of a transaction.                                               *)

Quiet(t) == /\ txn[t].phase = "open"
            /\ txn[t].step = Idle
            /\ txn[t].todo = <<>>

\* The committed store with what the transaction wrote.
Merged(x) ==
  LET wrote(k) == k \in x.wrote
      merge(kind, S, T) == {e \in S \cup T : IF wrote(<<kind, e>>) THEN e \in T ELSE e \in S}
      pick(n, a, b) == IF wrote(Key(n)) THEN b ELSE a
  IN  [ versions |-> [v \in VersionIDs |-> IF wrote(<<"version", v>>) THEN x.view.versions[v]
                                           ELSE db.versions[v]],
        name |-> pick("name", db.name, x.view.name),
        short |-> pick("short", db.short, x.view.short),
        seq |-> pick("seq", db.seq, x.view.seq),
        fields |-> merge("field", db.fields, x.view.fields),
        heads |-> merge("head", db.heads, x.view.heads),
        blocks |-> (db.blocks \ x.dug) \cup (x.view.blocks \cap x.dug),
        docs |-> db.docs \cup x.view.docs,
        unfiled |-> db.unfiled \/ x.view.unfiled ]

\* External: the store refuses what it read or wrote and others have changed.
Conflicts(x) == x.touched \cap x.stale # {}

Commit(t) ==
  /\ Quiet(t)
  /\ IF Conflicts(txn[t])
       THEN txn' = [txn EXCEPT ![t].phase = "closing"] /\ UNCHANGED <<db, torn, handles>>
       ELSE /\ db' = Merged(txn[t])
            /\ torn' = (torn \/ txn[t].failed)
            /\ txn' = [u \in Txns |->
                 IF u = t THEN [txn[t] EXCEPT !.phase = "committing"]
                 ELSE IF txn[u].phase = "open"
                 THEN [txn[u] EXCEPT !.stale = @ \cup txn[t].wrote]
                 ELSE txn[u]]
  /\ UNCHANGED <<forbidden, writer, readers, handles>>

Discard(t) ==
  /\ Quiet(t)
  /\ txn' = [txn EXCEPT ![t].phase = "closing"]
  /\ UNCHANGED <<db, forbidden, writer, readers, torn, handles>>

Callback(t, fn) ==
  /\ txn[t].phase \in {"committing", "closing"}
  /\ txn[t].callbacks # <<>>
  /\ Head(txn[t].callbacks) = fn

Called(t) == [txn EXCEPT ![t].callbacks = Tail(@)]

DropCache(t) ==
  /\ Callback(t, "dropCache")
  /\ txn' = [Called(t) EXCEPT ![t].cache = EmptyCache]
  /\ UNCHANGED <<db, forbidden, writer, readers, torn, handles>>

Unlock(t) ==
  /\ Callback(t, "unlock")
  /\ writer' = Nil
  /\ txn' = Called(t)
  /\ UNCHANGED <<db, forbidden, readers, torn, handles>>

RUnlock(t) ==
  /\ Callback(t, "rUnlock")
  /\ readers' = readers \ {t}
  /\ txn' = Called(t)
  /\ UNCHANGED <<db, forbidden, writer, torn, handles>>

\* Only a success forbids: below, and in the cache of every transaction that has one.
Forbid(t) ==
  /\ Callback(t, "forbid")
  /\ IF txn[t].phase = "closing" THEN txn' = Called(t) /\ UNCHANGED forbidden
     ELSE /\ forbidden' = TRUE
          /\ txn' = [u \in Txns |->
               IF u = t THEN Called(t)[t]
               ELSE IF "dropCache" \in Range(txn[u].callbacks)
               THEN [txn[u] EXCEPT !.cache.forbids = TRUE]
               ELSE txn[u]]
  /\ UNCHANGED <<db, writer, readers, torn, handles>>

Close(t) ==
  /\ txn[t].phase \in {"committing", "closing"}
  /\ txn[t].callbacks = <<>>
  /\ txn' = [txn EXCEPT ![t] = [NewTxn EXCEPT !.phase = "done"]]
  /\ UNCHANGED <<db, forbidden, writer, readers, torn, handles>>

Step(t) ==
  \/ Begin(t)
  \/ addCollections(t)
  \/ \E i \in 1..(Len(Versions) - 1), activate \in BOOLEAN : patchCollection(t, i, activate)
  \/ \E v \in VersionIDs : setActiveCollectionVersion(t, v) \/ deactivate(t, v)
  \/ \E activeOnly \in BOOLEAN : deleteCollection(t, activeOnly)
  \/ \E kind \in {"version", "name", "collection"} : GetCollection(t, kind, Root)
  \/ \E v \in VersionIDs : AddDocument(t, v)
  \/ TryGet(t) \/ CacheValue(t) \/ Write(t)
  \/ Delete(t) \/ DeleteLocked(t) \/ WriteDocument(t)
  \/ Commit(t) \/ Discard(t)
  \/ DropCache(t) \/ Unlock(t) \/ RUnlock(t) \/ Forbid(t) \/ Close(t)

Next == \E t \in Txns : Step(t)

Spec == Init /\ [][Next]_vars

-----------------------------------------------------------------------------
(* Properties.                                                             *)

\* Whoever adds documents while the last version is deleted, in whatever order the
\* two commit, no document is left without its collection: the deletion looks for
\* documents under the collection's lock, in its own view and in the committed store
\* (collection_store.go:322-345), and the adder has read the short ID.  A caller who
\* commits a transaction whose deletion failed is on their own.
DocumentsHaveCollection ==
  ~torn => \A s \in db.docs : s = db.short /\ Stored(db) # {}

\* Versions share the short IDs of their fields: however versions are added and
\* deleted, exactly the fields of the stored versions have one, and the collection
\* has one while there is a version (id/field.go:199-214, collection_store.go:322).
ShortIDsMatchVersions ==
  ~torn => /\ db.fields = UNION {FieldsOf[v] : v \in Stored(db)}
           /\ (db.short # 0) = (Stored(db) # {})

\* After any commits there is at most one active version, and the collection's name
\* leads to it (collectionStore.Write, setActiveCollectionVersion).
NameLeadsToActive ==
  {v \in VersionIDs : db.versions[v] = "active"} = {db.name} \ {Nil}

\* What the cache of a transaction answers is what the transaction's own view of the
\* store holds, whatever it wrote and deleted before (collection_cache.go:81-112), as
\* long as the transaction can be committed: Forbid may come between a deletion below
\* and in the cache, which then keeps the version.
CacheIsTrue ==
  \A t \in Txns :
    Quiet(t) /\ ~txn[t].failed /\ ~txn[t].cache.forbids /\ ~Conflicts(txn[t]) =>
    LET c == txn[t].cache
        s == txn[t].view
    IN  /\ \A v \in VersionIDs : c.byVersion[v] \in {"none", s.versions[v]}
        /\ c.byName \in {Nil, s.name}
        /\ c.byCollection = Nil \/ s.versions[c.byCollection] = "active"

\* The comment of forbiddenCollectionIDs: "They will become unforbidden if they are
\* re-added" (collection_store.go:33).  With every transaction closed, a stored
\* collection can be used.
StoredIsUsable ==
  (\A t \in Txns : txn[t].phase \in {"idle", "done"}) /\ Stored(db) # {} => ~forbidden

\* The comment in Delete: "If the last local version of a collection is deleted, we
\* must immediately prevent its usage by other transactions" (collection_store.go:350).
\* A transaction that wrote no version itself does not see it once Forbid has run.
GoneIsUnusable ==
  (db.short = 0 /\ \A t \in Txns : "forbid" \notin Range(txn[t].callbacks)) =>
    \A t \in Txns : Quiet(t) /\ txn[t].wrote = {} => GetCollections(txn[t]).seen = {}

\* The comment of deleteCollectionDefinitionHeads: "the surviving version still owns
\* that head and we must not touch it" (collection_define.go:758).  The blocks and
\* heads that a stored version's definition is made of are there.
SurvivorsKeepHeads ==
  \A v \in Stored(db) : {v} \cup FieldsOf[v] \subseteq db.blocks

\* No document has a field stored under the short ID 0, which belongs to no field.
EveryFieldIsFiled == ~db.unfiled
=============================================================================
