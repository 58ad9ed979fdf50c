------------------------------ MODULE Indexing ------------------------------
(***************************************************************************)
(* Documents and the secondary indexes over them (db/document*.go,         *)
(* db/collection_index.go, db/index.go).  A client holds collection        *)
(* handles, each with its own copy of the index definitions, and document  *)
(* objects, each with its own copy of the values and a mark on those it    *)
(* has set; the store has the documents, the definitions and the entries.  *)
(*                                                                         *)
(* Calls run one at a time, either each in a transaction of its own or in  *)
(* the transaction the client opened.  Access control, encryption,         *)
(* embeddings and JSON fields are left out; the history of a document is   *)
(* in MerkleDoc.                                                           *)
(***************************************************************************)
EXTENDS Integers, Sequences, FiniteSets, SequencesExt

CONSTANTS Fields,     \* fields of the collection
          Arrays,     \* those that hold an array, given as the set of its elements
          FieldValues,\* field -> values a client sets it to
          Initial,    \* docID -> the values it was computed from
          Handles, Objects,
          IndexRequests,  \* [fields: sequence of fields, unique: BOOLEAN]
          MaxIndexID, \* bound on the index ID sequence
          Nil

VARIABLES store,      \* what a call reads: the transaction's view when there is one
          saved,      \* what is committed while a transaction is open, or Nil
          handles,    \* handle -> [def, indexes], both sequences of descriptions
          objects,    \* object -> [id, vals, dirty] or Nil
          cleaning,   \* objects whose Clean waits for the transaction
          outcome     \* how the last call ended, "excused" for an error after
                      \* something of store.loose

vars == <<store, saved, handles, objects, cleaning, outcome>>

DocIDs == DOMAIN Initial

\* store.loose records what happened that may take the entries away from
\* the documents; it is rolled back with the rest.
Empty == [docs |-> [d \in DocIDs |-> [status |-> "none", vals |-> <<>>]],
          entries |-> {}, defs |-> <<>>, next |-> 0, loose |-> {}]

-----------------------------------------------------------------------------
(***************************************************************************)
(* Keys and entries.  A key holds the values and, unless it belongs to a   *)
(* unique index and has no nil, the document.                              *)
(***************************************************************************)

getDocFieldValues(ix, vals) ==
  [i \in DOMAIN ix.fields |->
     IF ix.fields[i] \in DOMAIN vals THEN vals[ix.fields[i]] ELSE Nil]

\* An array stands for each of its elements, and none when it is nil.
Generate(f, v) ==
  IF f \notin Arrays THEN {v} ELSE IF v = Nil THEN {} ELSE v

generateKeys(ix, vals) ==
  LET base == getDocFieldValues(ix, vals)
      All == UNION {Generate(ix.fields[i], base[i]) : i \in DOMAIN base}
  IN  {k \in [DOMAIN base -> All] :
         \A i \in DOMAIN base : k[i] \in Generate(ix.fields[i], base[i])}

hasIndexKeyNilField(key) == \E i \in DOMAIN key : key[i] = Nil

Record(ix, key, d) ==
  [ix |-> ix.id, key |-> key, doc |-> d,
   keyed |-> ~ix.unique \/ hasIndexKeyNilField(key)]

SameKey(e, k) ==
  /\ e.ix = k.ix /\ e.key = k.key /\ e.keyed = k.keyed
  /\ e.keyed => e.doc = k.doc

Has(entries, k) == \E e \in entries : SameKey(e, k)
Dropped(entries, k) == {e \in entries : ~SameKey(e, k)}

Records(ix, d, vals) == {Record(ix, k, d) : k \in generateKeys(ix, vals)}

-----------------------------------------------------------------------------
(***************************************************************************)
(* What an index does with a document.  A result is the store it leaves    *)
(* and how it ended; a step that fails ends the call.                      *)
(***************************************************************************)

Result(w, err) == [w |-> w, err |-> err]
Ok(w) == Result(w, "ok")
Then(r, Op(_)) == IF r.err = "ok" THEN Op(r.w) ELSE r
Each(seq, w, Op(_, _)) ==
  FoldLeft(LAMBDA r, x : IF r.err = "ok" THEN Op(r.w, x) ELSE r, Ok(w), seq)

SetEntry(w, k) == [w EXCEPT !.entries = Dropped(@, k) \cup {k}]

\* A unique index refuses a key another document has.
addNewUniqueKey(w, ix, k) ==
  IF ix.unique /\ ~k.keyed /\ Has(w.entries, k)
  THEN Result(w, "nonUnique") ELSE Ok(SetEntry(w, k))

Save(w, ix, d, vals) ==
  Each(SetToSeq(Records(ix, d, vals)), w, LAMBDA v, k : addNewUniqueKey(v, ix, k))

\* Only the simple index minds that a key is missing.
deleteIndexKey(w, ix, k) ==
  IF ~ix.unique /\ ~Has(w.entries, k)
  THEN Result(w, "corrupted") ELSE Ok([w EXCEPT !.entries = Dropped(@, k)])

Delete(w, ix, d, vals) ==
  Each(SetToSeq(Records(ix, d, vals)), w, LAMBDA v, k : deleteIndexKey(v, ix, k))

\* The first field whose values differ decides.  A field the new document
\* does not have while the old one does is a nil dereference.
isUpdatingIndexedFields(ix, old, new) ==
  LET differ == {i \in DOMAIN ix.fields :
                   LET f == ix.fields[i] IN
                   \/ f \in DOMAIN old /\ f \in DOMAIN new /\ old[f] # new[f]
                   \/ f \in DOMAIN old /\ f \notin DOMAIN new
                   \/ f \notin DOMAIN old /\ f \in DOMAIN new}
      first == ix.fields[CHOOSE i \in differ : \A j \in differ : i <= j]
  IN  IF differ = {} THEN "no"
      ELSE IF first \in DOMAIN old /\ first \notin DOMAIN new THEN "panic" ELSE "yes"

Update(w, ix, d, old, new) ==
  LET changed == IF ix.unique THEN isUpdatingIndexedFields(ix, old, new) ELSE "yes"
  IN  IF changed = "no" THEN Ok(w)
      ELSE IF changed = "panic" THEN Result(w, "panic")
      ELSE Then(Delete(w, ix, d, old), LAMBDA v : Save(v, ix, d, new))

RemoveAll(w, ix) == [w EXCEPT !.entries = {e \in @ : e.ix # ix.id}]

-----------------------------------------------------------------------------
(***************************************************************************)
(* The parts of the calls on a collection.                                 *)
(***************************************************************************)

Live(w) == {d \in DocIDs : w.docs[d].status = "live"}

addDocToIndex(w, h, d, vals) ==
  Each(handles[h].indexes, w, LAMBDA v, ix : Save(v, ix, d, vals))

\* Only the fields of the handle's definition are read, all of them when
\* that has no index.
indexedFields(h) ==
  UNION {ToSet(ix.fields) : ix \in ToSet(handles[h].def)}

get(w, h, d) ==
  LET vals == w.docs[d].vals
      read == IF indexedFields(h) = {} THEN DOMAIN vals ELSE DOMAIN vals \cap indexedFields(h)
  IN  [f \in read |-> vals[f]]

updateIndexedDoc(w, h, d, new) ==
  Each(handles[h].indexes, w, LAMBDA v, ix : Update(v, ix, d, get(w, h, d), new))

deleteIndexedDoc(w, h, d, vals) ==
  Each(handles[h].indexes, w, LAMBDA v, ix : Delete(v, ix, d, vals))

Indexed(h) == UNION {ToSet(ix.fields) : ix \in ToSet(handles[h].indexes)}

\* The object has a value of an indexed field that is neither stored nor
\* about to be.
Stale(w, h, o) ==
  \E f \in Indexed(h) \ o.dirty :
    LET stored == w.docs[o.id].vals IN
    \/ f \in DOMAIN o.vals /\ (f \notin DOMAIN stored \/ stored[f] # o.vals[f])
    \/ f \in DOMAIN stored /\ f \notin DOMAIN o.vals

Loosen(w, cause) == [w EXCEPT !.loose = @ \cup {cause}]

\* The values that are set go to the store, the others do not.
Stored(w, o) ==
  [w EXCEPT !.docs[o.id] =
     [status |-> "live",
      vals |-> [f \in o.dirty |-> o.vals[f]] @@ @.vals]]

add(w, h, o) ==
  IF o.vals # Initial[o.id] THEN Result(w, "verification")
  ELSE IF w.docs[o.id].status # "none" THEN Result(w, "exists")
  ELSE LET v == IF Stale(w, h, o) THEN Loosen(w, "staleObject") ELSE w
       IN  addDocToIndex(Stored(v, o), h, o.id, o.vals)

update(w, h, o) ==
  LET v == IF Stale(w, h, o) THEN Loosen(w, "staleObject") ELSE w
  IN  Then(updateIndexedDoc(v, h, o.id, o.vals), LAMBDA u : Ok(Stored(u, o)))

\* Both a document that is missing and one that is deleted are refused.
Updatable(w, d) ==
  IF w.docs[d].status = "none" THEN "notFound"
  ELSE IF w.docs[d].status = "deleted" THEN "deleted" ELSE "ok"

applyDelete(w, d) ==
  IF Updatable(w, d) # "ok" THEN Result(w, Updatable(w, d))
  ELSE Ok([w EXCEPT !.docs[d].status = "deleted"])

\* Mutant: the document is looked up after it has been deleted.
DeleteThenLook(w, h, d) ==
  Then(applyDelete(w, d),
       LAMBDA v : IF d \in Live(v) THEN deleteIndexedDoc(v, h, d, get(v, h, d)) ELSE Ok(v))

deleteDocument(w, h, d) ==
  Then(IF d \in Live(w) THEN deleteIndexedDoc(w, h, d, get(w, h, d)) ELSE Ok(w),
       LAMBDA v : applyDelete(v, d))

\* The documents that a filter asking for the value x of field f finds.
Found(w, f, x) ==
  SetToSeq({d \in Live(w) : f \in DOMAIN w.docs[d].vals /\ w.docs[d].vals[f] = x})

\* Deleting by filter does not touch the indexes.
deleteWithFilter(w, h, f, x) ==
  LET found == Found(w, f, x)
      v == IF found # <<>> /\ handles[h].indexes # <<>>
           THEN Loosen(w, "deletedByFilter") ELSE w
  IN  Each(found, v, LAMBDA u, d : applyDelete(u, d))

\* The object an update by filter makes has every field, and each as set.
Whole(w, d, f, x) ==
  [id |-> d, dirty |-> Fields,
   vals |-> [g \in Fields |-> IF g = f THEN x
                              ELSE IF g \in DOMAIN w.docs[d].vals
                                   THEN w.docs[d].vals[g] ELSE Nil]]

updateWithFilter(w, h, f, x, y) ==
  Each(Found(w, f, x), w, LAMBDA v, d : update(v, h, Whole(v, d, f, y)))

-----------------------------------------------------------------------------
(***************************************************************************)
(* Index definitions.                                                      *)
(***************************************************************************)

\* The generated name: the first field, and a number when that is taken.
generateIndexName(def, fields) ==
  LET taken(n) == \E ix \in ToSet(def) : ix.name = <<fields[1], n>>
  IN  <<fields[1], CHOOSE n \in 1 .. (Len(def) + 1) :
                     ~taken(n) /\ \A m \in 1 .. (n - 1) : taken(m)>>

processNewIndexRequest(w, def, req) ==
  [name |-> generateIndexName(def, req.fields), id |-> w.next + 1,
   fields |-> req.fields, unique |-> req.unique]

indexExistingDocs(w, ix) ==
  Each(SetToSeq(Live(w)), w, LAMBDA v, d : Save(v, ix, d, v.docs[d].vals))

\* The definition is saved before the documents are indexed; an index that
\* could not be filled is emptied.
newIndex(w, def, ix) ==
  LET v == [w EXCEPT !.defs = Append(def, ix), !.next = @ + 1]
      r == indexExistingDocs(v, ix)
  IN  IF r.err = "ok" THEN r ELSE Result(RemoveAll(r.w, ix), r.err)

Without(seq, n) == SelectSeq(seq, LAMBDA ix : ix.name # n)

deleteIndex(w, h, ix) ==
  [RemoveAll(w, ix) EXCEPT !.defs = Without(handles[h].def, ix.name)]

-----------------------------------------------------------------------------
(***************************************************************************)
(* The calls.                                                              *)
(***************************************************************************)

\* A handle that does not have the definitions of the store.
OutOfDate(h) == handles[h].def # store.defs \/ handles[h].indexes # store.defs

\* A call that fails is undone, but in a transaction the client opened.
Finish(h, r) ==
  LET w == IF OutOfDate(h) THEN Loosen(r.w, "staleHandle") ELSE r.w
  IN  /\ outcome' = IF r.err # "ok" /\ w.loose # {} THEN "excused" ELSE r.err
      /\ store' = IF r.err = "ok" THEN w
                  ELSE IF saved = Nil \/ r.w = store THEN store
                  ELSE Loosen(w, "failedThenCommitted")

Kept == UNCHANGED <<saved, handles, objects, cleaning>>

\* The object is cleaned when the transaction succeeds.
Saved(o, err) ==
  /\ UNCHANGED <<saved, handles>>
  /\ IF err = "ok" /\ saved = Nil
     THEN objects' = [objects EXCEPT ![o].dirty = {}] /\ UNCHANGED cleaning
     ELSE /\ UNCHANGED objects
          /\ cleaning' = IF err = "ok" THEN cleaning \cup {o} ELSE cleaning

AddDocument(h, o) ==
  /\ objects[o] # Nil
  /\ LET r == add(store, h, objects[o]) IN Finish(h, r) /\ Saved(o, r.err)

UpdateDocument(h, o) ==
  /\ objects[o] # Nil
  /\ LET err == Updatable(store, objects[o].id)
         r == IF err # "ok" THEN Result(store, err) ELSE update(store, h, objects[o])
     IN  Finish(h, r) /\ Saved(o, r.err)

SaveDocument(h, o) ==
  /\ objects[o] # Nil
  /\ LET err == Updatable(store, objects[o].id)
         r == IF err = "deleted" THEN Result(store, err)
              ELSE IF err = "ok" THEN update(store, h, objects[o])
              ELSE add(store, h, objects[o])
     IN  Finish(h, r) /\ Saved(o, r.err)

DeleteDocument(h, d) == Finish(h, deleteDocument(store, h, d)) /\ Kept

DeleteDocumentsWithFilter(h, f, x) ==
  /\ Finish(h, deleteWithFilter(store, h, f, x))
  /\ Kept

UpdateDocumentsWithFilter(h, f, x, y) ==
  /\ Finish(h, updateWithFilter(store, h, f, x, y))
  /\ Kept

\* The handle keeps an index that could not be filled among its indexes.
NewIndex(h, req) ==
  /\ store.next < MaxIndexID
  /\ LET ix == processNewIndexRequest(store, handles[h].def, req)
         r == newIndex(store, handles[h].def, ix)
     IN  /\ Finish(h, r)
         /\ handles' = [handles EXCEPT ![h] =
              [def |-> IF r.err = "ok" THEN Append(@.def, ix) ELSE @.def,
               indexes |-> Append(@.indexes, ix)]]
  /\ UNCHANGED <<saved, objects, cleaning>>

DeleteIndex(h, n) ==
  /\ LET found == SelectSeq(handles[h].indexes, LAMBDA ix : ix.name = n)
         at == CHOOSE i \in DOMAIN handles[h].indexes :
                 /\ handles[h].indexes[i].name = n
                 /\ \A j \in 1 .. (i - 1) : handles[h].indexes[j].name # n
     IN  IF found = <<>> THEN Finish(h, Result(store, "noIndex")) /\ UNCHANGED handles
         ELSE /\ Finish(h, Ok(deleteIndex(store, h, found[1])))
              /\ handles' = [handles EXCEPT ![h] =
                   [def |-> Without(@.def, n), indexes |-> RemoveAt(@.indexes, at)]]
  /\ UNCHANGED <<saved, objects, cleaning>>

\* A merge has a handle of its own, and the values of the document from
\* before it.  An error undoes the merge.
syncIndexedDoc(w, d, new) ==
  LET was == d \in Live(store)  is == new.status = "live"
      v == [w EXCEPT !.docs[d] = new]
      r == IF was THEN Each(w.defs, v, LAMBDA u, ix : Delete(u, ix, d, w.docs[d].vals))
                  ELSE Ok(v)
  IN  IF is THEN Then(r, LAMBDA u : Each(w.defs, u, LAMBDA y, ix : Save(y, ix, d, new.vals)))
      ELSE r

executeMerge(d, new) ==
  /\ saved = Nil
  /\ store.docs[d].status = "deleted" => new.status = "deleted"
  /\ LET r == syncIndexedDoc(store, d, new)
     IN  outcome' = r.err /\ store' = IF r.err = "ok" THEN r.w ELSE store
  /\ Kept

-----------------------------------------------------------------------------
\* newCollection: the handle copies the definitions it is given.
GetCollection(h) ==
  /\ handles' = [handles EXCEPT ![h] = [def |-> store.defs, indexes |-> store.defs]]
  /\ UNCHANGED <<store, saved, objects, cleaning, outcome>>

\* A new object has the values its ID is computed from, all of them set.
NewDoc(o, d) ==
  /\ objects' = [objects EXCEPT ![o] =
       [id |-> d, vals |-> Initial[d], dirty |-> DOMAIN Initial[d]]]
  /\ cleaning' = cleaning \ {o}
  /\ UNCHANGED <<store, saved, handles, outcome>>

\* An object that was read has what is stored, none of it set.
GetDocument(o, d) ==
  /\ d \in Live(store)
  /\ objects' = [objects EXCEPT ![o] =
       [id |-> d, vals |-> store.docs[d].vals, dirty |-> {}]]
  /\ cleaning' = cleaning \ {o}
  /\ UNCHANGED <<store, saved, handles, outcome>>

Set(o, f, x) ==
  /\ objects[o] # Nil
  /\ objects' = [objects EXCEPT
       ![o].vals = [g \in {f} |-> x] @@ @, ![o].dirty = @ \cup {f}]
  /\ UNCHANGED <<store, saved, handles, cleaning, outcome>>

NewTxn ==
  /\ saved = Nil
  /\ saved' = store
  /\ UNCHANGED <<store, handles, objects, cleaning, outcome>>

Commit ==
  /\ saved # Nil
  /\ saved' = Nil
  /\ objects' = [o \in Objects |->
       IF o \in cleaning THEN [objects[o] EXCEPT !.dirty = {}] ELSE objects[o]]
  /\ cleaning' = {}
  /\ UNCHANGED <<store, handles, outcome>>

Discard ==
  /\ saved # Nil
  /\ store' = saved /\ saved' = Nil /\ cleaning' = {}
  /\ UNCHANGED <<handles, objects, outcome>>

Init ==
  /\ store = Empty /\ saved = Nil
  /\ handles = [h \in Handles |-> [def |-> <<>>, indexes |-> <<>>]]
  /\ objects = [o \in Objects |-> Nil]
  /\ cleaning = {} /\ outcome = "ok"

Next ==
  \/ \E h \in Handles :
       \/ GetCollection(h)
       \/ \E o \in Objects : AddDocument(h, o) \/ UpdateDocument(h, o) \/ SaveDocument(h, o)
       \/ \E d \in DocIDs : DeleteDocument(h, d)
       \/ \E f \in Fields \ Arrays : \E x \in FieldValues[f] :
            \/ DeleteDocumentsWithFilter(h, f, x)
            \/ \E y \in FieldValues[f] : UpdateDocumentsWithFilter(h, f, x, y)
       \/ \E req \in IndexRequests : NewIndex(h, req)
       \/ \E ix \in ToSet(handles[h].indexes) \cup ToSet(store.defs) : DeleteIndex(h, ix.name)
  \/ \E o \in Objects :
       \/ \E d \in DocIDs : NewDoc(o, d) \/ GetDocument(o, d)
       \/ \E f \in Fields : \E x \in FieldValues[f] : Set(o, f, x)
  \/ \E d \in DocIDs :
       \/ executeMerge(d, [status |-> "deleted", vals |-> store.docs[d].vals])
       \/ \E f \in Fields : \E x \in FieldValues[f] :
            executeMerge(d, [status |-> "live",
              vals |-> [g \in {f} |-> x] @@ store.docs[d].vals @@ Initial[d]])
  \/ NewTxn \/ Commit \/ Discard

Spec == Init /\ [][Next]_vars

-----------------------------------------------------------------------------
Expected(w) ==
  UNION {Records(ix, d, w.docs[d].vals) : ix \in ToSet(w.defs), d \in Live(w)}

\* The entries are exactly those of the live documents under the indexes of
\* the definition, whatever was added, updated, deleted, merged, indexed and
\* rolled back (index.go Save, Update, Delete; syncIndexedDoc).  It takes a
\* client that uses handles and objects that are up to date, that does not
\* delete by filter and does not commit a transaction in which a call failed.
IndexMatches == store.loose = {} => store.entries = Expected(store)

\* The same without conditions.
IndexMatchesAlways == store.entries = Expected(store)

\* No two live documents have the same value under a unique index
\* (validateUniqueKeyValue), also when documents were deleted by filter.
UniqueHolds ==
  store.loose \subseteq {"deletedByFilter"} =>
    \A ix \in ToSet(store.defs) : ix.unique =>
      \A d, e \in Live(store) : d # e =>
        \A k \in generateKeys(ix, store.docs[d].vals) \cap generateKeys(ix, store.docs[e].vals) :
          hasIndexKeyNilField(k)

\* A call never meets a key that should be there and is not (deleteIndexKey,
\* ErrCorruptedIndex), nor a value that is missing (isUpdatingIndexedFields).
NeverCorrupted == outcome \notin {"corrupted", "panic"}
=============================================================================
