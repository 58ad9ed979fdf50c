------------------------------ MODULE Truncate ------------------------------
(***************************************************************************)
(* Truncating a collection (internal/db/collection_truncate.go): the keys  *)
(* of the collection are read in chunks and deleted, and for each document *)
(* key the heads and the blocks of its document.  Everything happens in    *)
(* one transaction that holds the collection's lock; a step is one pass    *)
(* over a chunk.                                                           *)
(*                                                                         *)
(* A key is a record of its kind and the document it belongs to; iteration *)
(* is in the order of the encoded keys.  What keys/datastore_doc.go makes  *)
(* of a key that is no document key is modelled by what it decodes to.     *)
(***************************************************************************)
EXTENDS Integers, Sequences, FiniteSets, SequencesExt

CONSTANTS Datasets,  \* what may be stored: [keys, heads, blocks]
          Links,     \* for each block, the blocks it links to
          Side,      \* for each block, its encryption and signature blocks
          FieldBlocks,  \* the blocks of fields
          Owner,     \* for each block, the document or collection that it belongs to
          DocsOf,    \* the documents of the collection
          ChunkSizes, \* bound: what hardDeleteChunkSize may be
          Col,       \* the collection itself, as the owner of its own heads
          ColsBelow  \* others whose short ID begins with its digits (1: 10, 11, ...)

VARIABLES store,   \* [keys, heads, blocks]: heads are records [owner, cid]
          before,  \* what was stored at the start
          hardDeleteChunkSize,
          phase    \* the part of truncate that runs

vars == <<store, before, hardDeleteChunkSize, phase>>

Init == /\ before \in Datasets
        /\ store = before
        /\ hardDeleteChunkSize \in ChunkSizes
        /\ phase = "documents"

-----------------------------------------------------------------------------
(* Keys.                                                                   *)

\* The kinds under the collection's prefix, in the order of their encoding: the
\* instance types d, p and v, then the bytes of index IDs.
Order == <<"deleted", "priority", "value", "index", "unique", "uniqueLong">>
Documents == {"deleted", "priority", "value"}
Position(k) == CHOOSE i \in DOMAIN Order : Order[i] = k.kind

\* The document that DecodeDataStoreKey reads: an index key too short to hold a
\* document ID has none, a longer one gives bytes that are no document's ID.
DecodedDocID(k) == IF k.kind \in Documents THEN k.doc
                   ELSE IF k.kind = "unique" THEN "" ELSE "garbage"

\* The key that is deleted: an index key encodes to another key than it came from,
\* for its index ID was read as an instance type.
Reencoded(k) == IF k.kind \in Documents THEN {k} ELSE {}

-----------------------------------------------------------------------------
(* Heads and blocks.                                                       *)

RECURSIVE Deleted(_, _)

\* Mutant: the links of composites are not followed.
LinksOfHeads(b) == {}

\* Field blocks are not followed.
Followed(b) == IF b \in FieldBlocks THEN {} ELSE Links[b]

\* The blocks that deleteBlocks leaves: a block that is not there ends the walk.
Deleted(todo, blocks) ==
  IF todo = {} THEN blocks
  ELSE LET b == CHOOSE c \in todo : TRUE
       IN  IF b \notin blocks THEN Deleted(todo \ {b}, blocks)
           ELSE Deleted((todo \ {b}) \cup Followed(b), blocks \ ({b} \cup Side[b]))

DeleteHeads(s, hs) ==
  [s EXCEPT !.heads = @ \ hs, !.blocks = Deleted({h.cid : h \in hs}, @)]

\* The heads with the prefixes that the document IDs make: all of them if one is empty.
hardDeleteDocumentBlocks(s, docs) ==
  DeleteHeads(s, {h \in s.heads : /\ h.owner \notin {Col} \cup ColsBelow
                                  /\ "" \in docs \/ h.owner \in docs})

-----------------------------------------------------------------------------
(* truncate.                                                               *)

Below(a, b) == \/ Position(a) < Position(b)
               \/ Position(a) = Position(b) /\ a.n < b.n

\* The first keys of the collection, as many as a chunk holds.
Chunk(ks) ==
  {k \in ks : Cardinality({j \in ks : Below(j, k)}) < hardDeleteChunkSize}

Prefixed(kinds) == {k \in store.keys : k.kind \in kinds}

WithoutChunk(chunk) ==
  hardDeleteDocumentBlocks([store EXCEPT !.keys = @ \ UNION {Reencoded(k) : k \in chunk}],
                           {DecodedDocID(k) : k \in chunk})

\* A full chunk is followed by another pass; one that changed nothing, by the same
\* pass for ever.
hardDeleteDocKeysAndHeadstore ==
  LET chunk == Chunk(Prefixed(Range(Order)))
  IN  /\ phase = "documents"
      /\ store' = WithoutChunk(chunk)
      /\ phase' = IF Cardinality(chunk) < hardDeleteChunkSize THEN "primary"
                  ELSE IF store' = store THEN "endless" ELSE "documents"
      /\ UNCHANGED <<before, hardDeleteChunkSize>>

\* The prefixes deleted next, one after the other, as raw keys; which keys make a
\* chunk does not matter here.
PrefixParts == [primary |-> [kinds |-> {"primary"}, then |-> "index"],
             index |-> [kinds |-> Range(Order), then |-> "se"],
             se |-> [kinds |-> {"se"}, then |-> "view"],
             view |-> [kinds |-> {"view"}, then |-> "collection"]]

hardDeleteDatastorePrefix ==
  /\ phase \in DOMAIN PrefixParts
  /\ LET all == Prefixed(PrefixParts[phase].kinds)
         more == Cardinality(all) >= hardDeleteChunkSize
     IN  /\ \E gone \in SUBSET all :
              /\ Cardinality(gone) = IF more THEN hardDeleteChunkSize ELSE Cardinality(all)
              /\ store' = [store EXCEPT !.keys = @ \ gone]
         /\ phase' = IF more THEN phase ELSE PrefixParts[phase].then
  /\ UNCHANGED <<before, hardDeleteChunkSize>>

\* The heads with the prefix /c/<shortID>, which has no end.
hardDeleteCollectionBlocks ==
  /\ phase = "collection"
  /\ store' = DeleteHeads(store, {h \in store.heads : h.owner \in {Col} \cup ColsBelow})
  /\ phase' = "done"
  /\ UNCHANGED <<before, hardDeleteChunkSize>>

Next == \/ hardDeleteDocKeysAndHeadstore
        \/ hardDeleteDatastorePrefix
        \/ hardDeleteCollectionBlocks

Spec == Init /\ [][Next]_vars

-----------------------------------------------------------------------------
(* Properties.                                                             *)

Owned == DocsOf \cup {Col}

IndexKeys(s) == {k \in s.keys : k.kind \notin Documents /\ k.kind \in Range(Order)}

\* When truncate is done nothing of the collection is left: no key, no head and, of
\* the documents that had a document key, no block.
NothingLeft ==
  phase = "done" => /\ store.keys = {}
                    /\ \A h \in store.heads : h.owner \notin Owned
                    /\ \A b \in store.blocks : Owner[b] \notin Owned

\* No head or block of another collection or of its documents is gone.
OthersKeepTheirsAlways ==
  /\ \A h \in before.heads : h.owner \notin Owned => h \in store.heads
  /\ \A b \in before.blocks : Owner[b] \notin Owned => b \in store.blocks

\* "deletes both them, *and* the headstore keys for those found documents"
\* (collection_truncate.go:117): other collections keep their heads and blocks, if the
\* collection has no unique index and no collection with heads of its own has a short
\* ID that begins with this one's.
OthersKeepTheirs ==
  \/ \E k \in before.keys : k.kind = "unique"
  \/ \E h \in before.heads : h.owner \in ColsBelow
  \/ OthersKeepTheirsAlways

\* Truncating ends, while fewer index entries are stored than a chunk holds.
TruncateEnds ==
  Cardinality(IndexKeys(before)) < hardDeleteChunkSize => phase # "endless"

\* The same for any number of index entries.
TruncateEndsAlways == phase # "endless"
=============================================================================
