-------------------------------- MODULE Keys --------------------------------
(***************************************************************************)
(* The keys of the node's stores (internal/keys) and what the code relies  *)
(* on when it scans a store: that the keys which begin with the bytes of a *)
(* partial key are the keys that share its parts, that each is read back   *)
(* from its bytes, and that index entries come in the order of their       *)
(* values.                                                                 *)
(*                                                                         *)
(* A key is a record [kind, n, s, vals]: its numbers, its texts and, for   *)
(* an index entry, its values.  In a partial key the missing numbers are 0 *)
(* and the missing texts and values are empty.  Letters and digits are     *)
(* their bytes.  A word fixed in the code ("collection", "shortID") and    *)
(* a content identifier stand for texts of which none begins another and   *)
(* are numbers above 255.                                                  *)
(*                                                                         *)
(* The store is external (corekv): an ordered map whose iterators yield    *)
(* the keys that begin with a prefix, or those from a start key up to an   *)
(* end key, in byte order.                                                 *)
(***************************************************************************)
EXTENDS Encoding, FiniteSets

CONSTANTS
  docKeyLength,  \* the length of a document's ID (40 in the code)
  Universes,     \* sets of [keys, prefixes, descending]: what may be stored
                 \* together, the partial keys scanned, the index's directions
  MaxKeys

VARIABLES
  universe, \* the choice made at the start
  stored,   \* the keys in the store
  scan,     \* the partial key scanned for, <<>> before
  found     \* what the iterator yields: each key and what is read from its bytes

vars == <<universe, stored, scan, found>>

Word == [vi |-> 1001, se |-> 1002, pk |-> 1003, d |-> 1004, c |-> 1005, f |-> 1006,
         g |-> 1007, s |-> 1008, shortID |-> 1009, name |-> 1010, version |-> 1011,
         id |-> 1012, field |-> 1013, p2pcol |-> 1014, p2pdoc |-> 1015,
         seqcol |-> 1016, seqindex |-> 1017, seqfield |-> 1018, nac |-> 1019,
         rep |-> 1020, retryid |-> 1021, retrydoc |-> 1022, seretry |-> 1023]

Key(kind, n, s) == [kind |-> kind, n |-> n, s |-> s, vals |-> <<>>]
ErrInvalidKey == Key("error", <<>>, <<>>)

-----------------------------------------------------------------------------
(***************************************************************************)
(* Writing keys.                                                           *)
(***************************************************************************)

Digits[n \in Nat] ==
  IF n < 10 THEN <<48 + n>> ELSE Append(Digits[n \div 10], 48 + (n % 10))

Lead(word) == <<Slash, word>>
Always(text) == <<Slash>> \o text
Unless0(n, text) == IF n = 0 THEN <<>> ELSE <<Slash>> \o text
IfAny(text) == IF text = <<>> THEN <<>> ELSE <<Slash>> \o text

EncodeDataStoreKey(k) ==
  Unless0(k.n[1], EncodeUvarintAscending(k.n[1]))
    \o IfAny(k.s[1]) \o IfAny(k.s[2]) \o IfAny(k.s[3])

PrimaryDataStoreKey(k) ==
  Unless0(k.n[1], Digits[k.n[1]]) \o Lead(Word.pk) \o IfAny(k.s[1])

\* The last value of an entry may be the document's ID, which goes upwards.
EncodeIndexDataStoreKey(k, descending) ==
  Unless0(k.n[1], EncodeUvarintAscending(k.n[1]))
    \o Unless0(k.n[2], EncodeUvarintAscending(k.n[2])
         \o FlattenSeq([i \in DOMAIN k.vals |->
              Always(EncodeFieldValue(k.vals[i],
                                      i \in DOMAIN descending /\ descending[i]))]))

ViewCacheKey(k) ==
  Lead(Word.vi) \o Unless0(k.n[1], EncodeUvarintAscending(k.n[1]))
    \o Unless0(k.n[2], EncodeUvarintAscending(k.n[2]))

\* Each part only if the one before it is there.
DatastoreSE(k) ==
  LET rest == IF k.s[1] = <<>> THEN <<>>
              ELSE Always(k.s[1]) \o (IF k.s[2] = <<>> THEN <<>>
                                      ELSE Always(k.s[2]) \o IfAny(k.s[3]))
  IN  Lead(Word.se) \o Unless0(k.n[1], EncodeUvarintAscending(k.n[1]) \o rest)

HeadstoreDocKey(k) ==
  Lead(Word.d) \o IfAny(k.s[1]) \o IfAny(k.s[2]) \o IfAny(k.s[3])

HeadstoreColKey(k) ==
  Lead(Word.c) \o Unless0(k.n[1], Digits[k.n[1]]) \o IfAny(k.s[1])

HeadstoreFieldDefinition(k) ==
  Lead(Word.f) \o IfAny(k.s[1]) \o IfAny(k.s[2]) \o IfAny(k.s[3])

HeadstoreCollectionDefinition(k) == Lead(Word.g) \o IfAny(k.s[1]) \o IfAny(k.s[2])

HeadstoreCollectionSetDefinition(k) == Lead(Word.s) \o IfAny(k.s[1]) \o IfAny(k.s[2])

CollectionID(k) == Lead(Word.shortID) \o IfAny(k.s[1])
CollectionKey(k) == Lead(Word.id) \o Always(k.s[1])
CollectionNameKey(k) == Lead(Word.name) \o Always(k.s[1])
CollectionVersionKey(k) == Lead(Word.version) \o IfAny(k.s[1]) \o IfAny(k.s[2])

FieldID(k) ==
  Lead(Word.field) \o Unless0(k.n[1], EncodeUvarintAscending(k.n[1])) \o IfAny(k.s[1])

P2PCollectionKey(k) == Lead(Word.p2pcol) \o IfAny(k.s[1])
P2PDocumentKey(k) == Lead(Word.p2pdoc) \o IfAny(k.s[1])
CollectionIDSequenceKey(k) == Lead(Word.seqcol)
IndexIDSequenceKey(k) == Lead(Word.seqindex) \o Always(k.s[1])
FieldIDSequenceKey(k) == Lead(Word.seqfield) \o Always(Digits[k.n[1]])
NodeACPKey(k) == <<Word.nac>>

ReplicatorKey(k) == Lead(Word.rep) \o IfAny(k.s[1])
ReplicatorRetryIDKey(k) == Lead(Word.retryid) \o Always(k.s[1])
ReplicatorRetryDocIDKey(k) == Lead(Word.retrydoc) \o Always(k.s[1]) \o IfAny(k.s[2])

PeerstoreSERetry(k) ==
  Lead(Word.seretry)
    \o (IF k.s[1] = <<>> THEN <<>>
        ELSE Always(k.s[1]) \o (IF k.s[2] = <<>> THEN <<>>
                                ELSE Always(k.s[2]) \o IfAny(k.s[3])))

Bytes(k) ==
  CASE k.kind = "data" -> EncodeDataStoreKey(k)
    [] k.kind = "primary" -> PrimaryDataStoreKey(k)
    [] k.kind = "index" -> EncodeIndexDataStoreKey(k, universe.descending)
    [] k.kind = "view" -> ViewCacheKey(k)
    [] k.kind = "se" -> DatastoreSE(k)
    [] k.kind = "docHead" -> HeadstoreDocKey(k)
    [] k.kind = "colHead" -> HeadstoreColKey(k)
    [] k.kind = "fieldDef" -> HeadstoreFieldDefinition(k)
    [] k.kind = "colDef" -> HeadstoreCollectionDefinition(k)
    [] k.kind = "setDef" -> HeadstoreCollectionSetDefinition(k)
    [] k.kind = "shortID" -> CollectionID(k)
    [] k.kind = "collection" -> CollectionKey(k)
    [] k.kind = "name" -> CollectionNameKey(k)
    [] k.kind = "version" -> CollectionVersionKey(k)
    [] k.kind = "field" -> FieldID(k)
    [] k.kind = "p2pCollection" -> P2PCollectionKey(k)
    [] k.kind = "p2pDocument" -> P2PDocumentKey(k)
    [] k.kind = "seqCollection" -> CollectionIDSequenceKey(k)
    [] k.kind = "seqIndex" -> IndexIDSequenceKey(k)
    [] k.kind = "seqField" -> FieldIDSequenceKey(k)
    [] k.kind = "nac" -> NodeACPKey(k)
    [] k.kind = "replicator" -> ReplicatorKey(k)
    [] k.kind = "retryID" -> ReplicatorRetryIDKey(k)
    [] k.kind = "retryDoc" -> ReplicatorRetryDocIDKey(k)
    [] k.kind = "seRetry" -> PeerstoreSERetry(k)

-----------------------------------------------------------------------------
(***************************************************************************)
(* Reading keys.                                                           *)
(***************************************************************************)

Split(b) ==
  FoldLeft(LAMBDA parts, x :
             IF x = Slash THEN Append(parts, <<>>)
             ELSE [parts EXCEPT ![Len(parts)] = Append(@, x)],
           <<<<>>>>, b)

\* b without the slash it may begin with.
Skip(b) == IF Head(b) = Slash THEN Tail(b) ELSE b

DecodeDataStoreKey(b) ==
  LET col == DecodeUvarintAscending(Tail(b))
      after1 == IF Len(col[1]) > 1 THEN Skip(col[1]) ELSE col[1]
      instance == IF Len(col[1]) > 1 THEN <<Head(after1)>> ELSE <<>>
      rest1 == IF Len(col[1]) > 1 THEN Tail(after1) ELSE after1
      long == Len(rest1) > docKeyLength
      after2 == IF long THEN Skip(rest1) ELSE rest1
      doc == IF long THEN SubSeq(after2, 1, docKeyLength) ELSE <<>>
      rest2 == IF long THEN From(after2, docKeyLength + 1) ELSE after2
      field == IF Len(rest2) > 1 THEN Skip(rest2) ELSE <<>>
  IN  IF b = <<>> \/ Head(b) # Slash \/ Len(col) = 1 THEN ErrInvalidKey
      ELSE Key("data", <<col[2]>>, <<instance, doc, field>>)

\* r is what was read of the next value, at slash or not.
RECURSIVE IndexValues(_, _, _)
IndexValue(b, r, vals, descending) ==
  IF Head(b) # Slash \/ Len(vals) > Len(descending) \/ Len(r) = 1 THEN <<Failed>>
  ELSE IndexValues(r[1], Append(vals, r[2]), descending)

IndexValues(b, vals, descending) ==
  LET i == Len(vals) + 1
  IN  IF b = <<>> THEN vals
      ELSE IndexValue(b, DecodeFieldValue(Tail(b), i \in DOMAIN descending /\ descending[i]),
                      vals, descending)

IndexKey(col, index, vals) ==
  IF vals = <<Failed>> THEN ErrInvalidKey
  ELSE [kind |-> "index", n |-> <<col, index>>, s |-> <<>>, vals |-> vals]

DecodeIndexDataStoreKey(b, descending) ==
  LET col == DecodeUvarintAscending(Tail(b))
      index == DecodeUvarintAscending(Tail(col[1]))
  IN  IF Len(col) = 1 \/ Head(col[1]) # Slash \/ Len(index) = 1 THEN ErrInvalidKey
      ELSE IndexKey(col[2], index[2], IndexValues(index[1], <<>>, descending))

\* The parts of a view item's key are told by the slashes between them.
NewViewCacheKeyFromRaw(b) ==
  LET parts == Split(From(b, 4))
      col == DecodeUvarintAscending(parts[1])
      item == IF Len(parts) = 2 THEN DecodeUvarintAscending(parts[2]) ELSE <<<<>>, 0>>
  IN  IF Len(parts) > 2 \/ Len(col) = 1 \/ Len(item) = 1 THEN ErrInvalidKey
      ELSE Key("view", <<col[2], item[2]>>, <<>>)

NewDatastoreSEFromString(b) ==
  LET parts == Split(b)
      col == DecodeUvarintAscending(parts[3])
      part(i) == IF Len(parts) >= i THEN parts[i] ELSE <<>>
  IN  IF Len(col) = 1 THEN ErrInvalidKey
      ELSE Key("se", <<col[2]>>, <<part(4), part(5), part(6)>>)

NewFieldIDFromBytes(b) ==
  LET col == DecodeUvarintAscending(From(b, 4))
  IN  IF Len(col) = 1 THEN ErrInvalidKey
      ELSE Key("field", <<col[2]>>,
               <<IF Len(col[1]) > 1 THEN Skip(col[1]) ELSE <<>> >>)

\* The heads: the parts between slashes, of which there must be so many.
Elements(b, kind, many) ==
  IF Len(Split(b)) # many THEN ErrInvalidKey
  ELSE Key(kind, <<>>, From(Split(b), 3))

ReadDigits(text) == FoldLeft(LAMBDA acc, x : acc * 10 + (x - 48), 0, text)

NewHeadstoreDocKey(b) == Elements(b, "docHead", 5)
NewHeadstoreFieldDefinitionFromString(b) == Elements(b, "fieldDef", 5)
NewHeadstoreCollectionDefinitionFromString(b) == Elements(b, "colDef", 4)
NewHeadstoreColKeyFromString(b) ==
  IF Len(Split(b)) # 4 THEN ErrInvalidKey
  ELSE Key("colHead", <<ReadDigits(Split(b)[3])>>, <<Split(b)[4]>>)

\* The heads of sets of definitions have no case of their own.
NewHeadstoreKey(b) ==
  IF b[2] = Word.d THEN NewHeadstoreDocKey(b)
  ELSE IF b[2] = Word.c THEN NewHeadstoreColKeyFromString(b)
  ELSE IF b[2] = Word.f THEN NewHeadstoreFieldDefinitionFromString(b)
  ELSE IF b[2] = Word.g THEN NewHeadstoreCollectionDefinitionFromString(b)
  ELSE ErrInvalidKey

\* Other stores.  The words before the parts count as one here.
NewCollectionVersionKeyFromString(b) == Elements(b, "version", 4)
NewCollectionIDFromString(b) == Elements(b, "shortID", 3)
NewCollectionKeyFromString(b) == Key("collection", <<>>, <<From(b, 4)>>)
NewP2PCollectionKeyFromString(b) == Elements(b, "p2pCollection", 3)
NewP2PDocumentKeyFromString(b) == Elements(b, "p2pDocument", 3)
NewReplicatorRetryIDKeyFromString(b) ==
  IF From(b, 4) = <<>> THEN ErrInvalidKey ELSE Key("retryID", <<>>, <<From(b, 4)>>)
NewReplicatorRetryDocIDKeyFromString(b) == Elements(b, "retryDoc", 4)
NewPeerstoreSERetryFromString(b) ==
  IF Len(Split(b)) < 5 THEN ErrInvalidKey
  ELSE Key("seRetry", <<>>, SubSeq(Split(b), 3, 5))

\* Key k as the loop that scans for keys of this kind reads it from its bytes; keys that no
\* loop reads back are taken as they are.
Read(kind, k, b) ==
  CASE kind = "data" -> DecodeDataStoreKey(b)
    [] kind = "index" -> DecodeIndexDataStoreKey(b, universe.descending)
    [] kind = "view" -> NewViewCacheKeyFromRaw(b)
    [] kind = "se" -> NewDatastoreSEFromString(b)
    [] kind = "field" -> NewFieldIDFromBytes(b)
    [] kind \in {"docHead", "colHead", "fieldDef", "colDef", "setDef"} ->
         NewHeadstoreKey(b)
    [] kind = "version" -> NewCollectionVersionKeyFromString(b)
    [] kind = "shortID" -> NewCollectionIDFromString(b)
    [] kind = "collection" -> NewCollectionKeyFromString(b)
    [] kind = "p2pCollection" -> NewP2PCollectionKeyFromString(b)
    [] kind = "p2pDocument" -> NewP2PDocumentKeyFromString(b)
    [] kind = "retryID" -> NewReplicatorRetryIDKeyFromString(b)
    [] kind = "retryDoc" -> NewReplicatorRetryDocIDKeyFromString(b)
    [] kind = "seRetry" -> NewPeerstoreSERetryFromString(b)
    [] OTHER -> k

-----------------------------------------------------------------------------
(***************************************************************************)
(* Scanning.                                                               *)
(***************************************************************************)

Less(a, b) ==
  \E i \in DOMAIN b :
    /\ i = Len(a) + 1 \/ (i \in DOMAIN a /\ a[i] < b[i])
    /\ \A j \in 1..(i - 1) : a[j] = b[j]

\* The first bytes after all that begin with b.
bytesPrefixEnd(b) ==
  LET raisable == {i \in DOMAIN b : b[i] # 255}
      last == CHOOSE i \in raisable : \A j \in raisable : j <= i
  IN  IF raisable = {} THEN b
      ELSE [SubSeq(b, 1, last) EXCEPT ![last] = @ + 1]

\* The end of what a partial key begins.  The key of a document's value has
\* its last part raised, an index entry its bytes.
PrefixEnd(p) ==
  LET part == CHOOSE i \in 0..3 :
                /\ i # 0 => p.s[i] # <<>>
                /\ \A j \in (i + 1)..3 : p.s[j] = <<>>
  IN  IF p.kind = "index" THEN bytesPrefixEnd(Bytes(p))
      ELSE EncodeDataStoreKey(IF part = 0 THEN [p EXCEPT !.n[1] = @ + 1]
                              ELSE [p EXCEPT !.s[part] = bytesPrefixEnd(@)])

Yield(kind, keys) ==
  LET order == SetToSortSeq(keys, LAMBDA x, y : Less(Bytes(x), Bytes(y)))
  IN  [i \in DOMAIN order |-> [key |-> order[i], read |-> Read(kind, order[i], Bytes(order[i]))]]

Set(k) ==
  /\ scan = <<>>
  /\ Cardinality(stored) < MaxKeys
  /\ k \notin stored
  /\ stored' = stored \cup {k}
  /\ UNCHANGED <<universe, scan, found>>

\* An iterator over the keys that begin with a partial key.
Iterate(p) ==
  /\ scan = <<>>
  /\ found' = Yield(p.kind, {k \in stored : IsPrefix(Bytes(p), Bytes(k))})
  /\ scan' = <<p>>
  /\ UNCHANGED <<universe, stored>>

\* An iterator from a partial key up to the end of what begins with it.
IterateRange(p) ==
  /\ scan = <<>>
  /\ p.kind \in {"data", "index"}
  /\ found' = Yield(p.kind, {k \in stored : /\ ~Less(Bytes(k), Bytes(p))
                                            /\ Less(Bytes(k), PrefixEnd(p))})
  /\ scan' = <<p>>
  /\ UNCHANGED <<universe, stored>>

Init ==
  /\ universe \in Universes
  /\ stored = {}
  /\ scan = <<>>
  /\ found = <<>>

Next ==
  \/ \E k \in universe.keys : Set(k)
  \/ \E p \in universe.prefixes : Iterate(p) \/ IterateRange(p)

Spec == Init /\ [][Next]_vars

-----------------------------------------------------------------------------
(***************************************************************************)
(* What the scans rely on.                                                 *)
(***************************************************************************)

\* k has the parts that the partial key p has.
Extends(k, p) ==
  /\ k.kind = p.kind
  /\ \A i \in DOMAIN p.n : p.n[i] # 0 => k.n[i] = p.n[i]
  /\ \A i \in DOMAIN p.s : p.s[i] # <<>> => k.s[i] = p.s[i]
  /\ IsPrefix(p.vals, k.vals)

\* The heads of a field, of a branchable collection and of a definition are
\* listed by a text that nothing ends: field 1 and field 10 of a document,
\* collections 1 and 10, definitions "U" and "Us".
Straddles(k, p) ==
  /\ k.kind = p.kind
  /\ p.kind \in {"docHead", "colHead", "fieldDef", "colDef"}
  /\ IsPrefix(Bytes(p), Bytes(k))
  /\ ~Extends(k, p)

\* A scan yields every stored key that has the parts of the partial key it
\* scans for, and no other, of no other kind of the same store either: a
\* fetch returns the fields of its own document, an index fetch the entries
\* of its own values, a search tag its own documents, and clearing a view
\* clears that view.
ScanFindsOwn ==
  scan # <<>> =>
    LET p == scan[1]
        own == {k \in stored : Extends(k, p)}
    IN  /\ own \subseteq {found[i].key : i \in DOMAIN found}
        /\ \A i \in DOMAIN found : found[i].key \in own \/ Straddles(found[i].key, p)

\* The heads listed for a field, a branchable collection or a definition are
\* its own.  It fails: the prefix also begins the keys of another one whose
\* number or name only begins the same, whose heads become the parents of
\* the next block, so that the block, and with it the ID of a definition,
\* depends on what else the node holds.
HeadsAreOwn ==
  scan # <<>> =>
    \A i \in DOMAIN found :
      found[i].key.kind \in {"docHead", "colHead", "fieldDef", "colDef"} =>
        Extends(found[i].key, scan[1])

\* The numbers of view items and of search tags are told apart by the
\* slashes between them, though their own bytes may be slashes.
SlashInNumber(k) ==
  /\ k.kind \in {"view", "se"}
  /\ \E i \in DOMAIN k.n : Slash \in Range(EncodeUvarintAscending(k.n[i]))

\* The decoder of floats takes a first byte that is a slash for no value.
SlashInFloat(k) ==
  \E i \in DOMAIN k.vals :
    LET val == IF k.vals[i].t = "json" THEN k.vals[i].leaf ELSE k.vals[i]
        bytes == EncodeScalar(val, i \in DOMAIN universe.descending
                                   /\ universe.descending[i])
    IN  val.t = "f32" /\ Len(bytes) > 1 /\ bytes[2] = Slash

\* The loops read from the bytes of each key the key that was stored: the
\* document of an index entry, the item of a view, the head of a field.
ReadsBack ==
  \A i \in DOMAIN found :
    \/ found[i].read = found[i].key
    \/ SlashInNumber(found[i].key)
    \/ SlashInFloat(found[i].key)
    \/ found[i].key.kind = "setDef"

\* The same without the exceptions: it fails for each of the three.
ReadsBackAlways ==
  \A i \in DOMAIN found : found[i].read = found[i].key

\* The order the index promises: of its fields, upwards or downwards, with
\* null below all values.
Zeroth(f) == IF f = <<>> THEN -2 ELSE IF IsNegative(f) THEN -1 ELSE IF f = Zero THEN 0 ELSE 1
FloatLess(f, g) ==
  \/ Zeroth(f) < Zeroth(g)
  \/ Zeroth(f) = Zeroth(g) /\ Zeroth(f) = 1 /\ Less(f, g)
  \/ Zeroth(f) = Zeroth(g) /\ Zeroth(f) = -1 /\ Less(g, f)
ScalarLess(v, w) ==
  IF v.t = "null" \/ w.t = "null" THEN v.t = "null" /\ w.t # "null"
  ELSE v.t = w.t /\ (IF v.t = "f32" THEN FloatLess(v.v, w.v) ELSE Less(v.v, w.v))
ValueLess(v, w) ==
  IF v.t = "json" /\ w.t = "json" THEN v.path = w.path /\ ScalarLess(v.leaf, w.leaf)
  ELSE ScalarLess(v, w)
EntryLess(x, y) ==
  \E i \in DOMAIN x.vals \cap DOMAIN y.vals :
    /\ \A j \in 1..(i - 1) : x.vals[j] = y.vals[j]
    /\ IF i \in DOMAIN universe.descending /\ universe.descending[i]
       THEN ValueLess(y.vals[i], x.vals[i]) ELSE ValueLess(x.vals[i], y.vals[i])

\* The entries of an index come in the order of its fields, each in its own
\* direction, for every pair of values of a type: this is what an ordered
\* request and the ends of a range rely on.
IndexInOrder ==
  \A i, j \in DOMAIN found :
    (found[i].key.kind = "index" /\ i < j) => ~EntryLess(found[j].key, found[i].key)
=============================================================================
