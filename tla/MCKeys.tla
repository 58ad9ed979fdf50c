------------------------------- MODULE MCKeys -------------------------------
(***************************************************************************)
(* Instances of Keys.  Numbers around each change of width and numbers     *)
(* whose bytes are slashes; names and field numbers of which one begins    *)
(* another; for each type of value, an index upwards and one downwards,    *)
(* and an index of two fields.                                             *)
(***************************************************************************)
EXTENDS Encoding, FiniteSets

VARIABLES universe, stored, scan, found

Key(kind, n, s) == [kind |-> kind, n |-> n, s |-> s, vals |-> <<>>]

V(t, v) == [t |-> t, v |-> v]
Null == V("null", <<>>)
J(path, leaf) == [t |-> "json", v |-> <<>>, path |-> path, leaf |-> leaf]
Docs == {<<97, 97, 97>>, <<97, 97, 98>>}
Doc1 == <<97, 97, 97>>
Cids == {<<2001>>, <<2002>>}

Ints == {V("int", <<n>>) : n \in
  {-16777216, -65536, -65535, -257, -256, -255, -47, -1, 0, 1, 47, 109, 110, 111,
   255, 256, 303, 65535, 65536, 3080192}}
Texts == {V("str", s) : s \in SeqOf({0, 1, 47, 255}, 2)}
Floats == {V("f32", f) : f \in
  {<<>>, Zero, <<0, 0, 0, 1>>, <<63, 128, 0, 0>>, <<64, 0, 0, 0>>, <<47, 0, 0, 1>>,
   <<80, 0, 0, 0>>, <<191, 128, 0, 0>>, <<192, 0, 0, 0>>, <<208, 0, 0, 0>>}}
Times == {V("time", t) : t \in {-300, -1, 0, 300} \X {0, 1, 255, 1000}}
Bools == {V("bool", <<0>>), V("bool", <<1>>)}
Json == {J(p, l) : p \in {<<>>, << <<97>> >>, << <<97>>, <<>> >>, << <<97, 0>> >>},
                   l \in {Null, V("bool", <<1>>), V("str", <<>>), V("str", <<0, 1>>),
                          V("f32", <<63, 128, 0, 0>>)}}

Entry(n, vals) == [kind |-> "index", n |-> n, s |-> <<>>, vals |-> vals]

\* The entries of an index of one field, of each type, in each direction.
OneField(values, descending) ==
  [keys |-> {Entry(<<1, 1>>, <<v, V("str", Doc1)>>) : v \in values \cup {Null}},
   prefixes |-> {Entry(<<1, 1>>, <<>>)}
                 \cup {Entry(<<1, 1>>, <<v>>) : v \in values \cup {Null}},
   descending |-> <<descending>>]

TwoFields(d1, d2) ==
  LET some == {Null, V("str", <<>>), V("str", <<0>>), V("str", <<255>>)}
      other == {Null, V("int", <<0>>), V("int", <<303>>)}
  IN  [keys |-> {Entry(<<1, 1>>, <<v, w>>) : v \in some, w \in other},
       prefixes |-> {Entry(<<1, 1>>, <<v>>) : v \in some},
       descending |-> <<d1, d2>>]

\* Keys of all kinds of the store that holds the documents.
Datastore ==
  LET cols == {1, 109, 110, 303}
      insts == {<<118>>, <<112>>}
  IN  [keys |-> {Key("data", <<c>>, <<i, d, f>>) :
                   c \in {1, 303}, i \in insts, d \in Docs, f \in {<<49>>, <<49, 48>>}}
         \cup {Key("primary", <<c>>, <<Doc1>>) : c \in {1, 10}}
         \cup {Entry(<<c, i>>, <<V("int", <<0>>)>>) : c \in cols, i \in {1, 110}}
         \cup {Key("view", <<c, i>>, <<>>) : c \in cols, i \in {1, 110, 303}}
         \cup {Key("se", <<c>>, <<i, <<97>>, Doc1>>) : c \in cols, i \in {<<110>>, <<110, 109>>}},
       prefixes |-> {Key("data", <<c>>, <<i, d, <<>> >>) :
                       c \in {1, 303}, i \in insts, d \in Docs \cup {<<>>}}
         \cup {Key("primary", <<c>>, <<<<>>>>) : c \in {1, 10}}
         \cup {Entry(<<c, i>>, <<>>) : c \in cols, i \in {1, 110}}
         \cup {Key("view", <<c, 0>>, <<>>) : c \in cols}
         \cup {Key("se", <<c>>, <<<<110>>, <<97>>, <<>> >>) : c \in cols},
       descending |-> <<FALSE>>]

Headstore ==
  LET fields == {<<49>>, <<50>>, <<49, 48>>, <<67>>}
      names == {<<85>>, <<85, 115>>, <<66>>}
      none == <<>>
  IN  [keys |-> {Key("docHead", <<>>, <<d, f, x>>) : d \in Docs, f \in fields, x \in Cids}
         \cup {Key("colHead", <<c>>, <<x>>) : c \in {1, 2, 10}, x \in Cids}
         \cup {Key("colDef", <<>>, <<n, x>>) : n \in names, x \in Cids}
         \cup {Key("fieldDef", <<>>, <<n, n, <<2001>> >>) : n \in names}
         \cup {Key("setDef", <<>>, <<<<2003>>, x>>) : x \in Cids},
       prefixes |-> {Key("docHead", <<>>, <<d, f, none>>) : d \in Docs, f \in fields \cup {none}}
         \cup {Key("colHead", <<c>>, <<none>>) : c \in {0, 1, 2, 10}}
         \cup {Key("colDef", <<>>, <<n, none>>) : n \in names}
         \cup {Key("fieldDef", <<>>, <<n, n, none>>) : n \in names}
         \cup {Key("setDef", <<>>, <<<<2003>>, none>>)},
       descending |-> <<>>]

Systemstore ==
  LET names == {<<85>>, <<85, 115>>}
      none == <<>>
  IN  [keys |-> {Key(kind, <<>>, <<x>>) :
                   kind \in {"shortID", "collection", "p2pCollection", "p2pDocument", "seqIndex"},
                   x \in Cids}
         \cup {Key("name", <<>>, <<n>>) : n \in names}
         \cup {Key("version", <<>>, <<x, y>>) : x \in Cids, y \in Cids}
         \cup {Key("field", <<c>>, <<x>>) : c \in {1, 109, 110, 303}, x \in Cids}
         \cup {Key("seqField", <<c>>, <<>>) : c \in {1, 10}}
         \cup {Key("seqCollection", <<>>, <<>>), Key("nac", <<>>, <<>>)},
       prefixes |-> {Key(kind, <<>>, <<none>>) :
                       kind \in {"collection", "name", "p2pCollection", "p2pDocument", "shortID"}}
         \cup {Key("version", <<>>, <<x, none>>) : x \in Cids}
         \cup {Key("field", <<c>>, <<none>>) : c \in {1, 109, 110, 303}},
       descending |-> <<>>]

Peerstore ==
  [keys |-> {Key(kind, <<>>, <<x>>) : kind \in {"replicator", "retryID"}, x \in Cids}
     \cup {Key("retryDoc", <<>>, <<x, d>>) : x \in Cids, d \in Docs}
     \cup {Key("seRetry", <<>>, <<x, y, d>>) : x \in Cids, y \in Cids, d \in Docs},
   prefixes |-> {Key(kind, <<>>, <<<<>>>>) : kind \in {"replicator", "retryID"}}
     \cup {Key("retryDoc", <<>>, <<x, <<>> >>) : x \in Cids}
     \cup {Key("seRetry", <<>>, <<<<>>, <<>>, <<>> >>)},
   descending |-> <<>>]

Everything ==
  {OneField(values, d) : values \in {Ints, Texts, Floats, Times, Bools, Json}, d \in BOOLEAN}
    \cup {TwoFields(d1, d2) : d1 \in BOOLEAN, d2 \in BOOLEAN}
    \cup {Datastore, Headstore, Systemstore, Peerstore}

K == INSTANCE Keys WITH docKeyLength <- 3, MaxKeys <- 2, Universes <- Everything

Init == K!Init

\* A scan is made when there are two keys to tell apart.
Next == K!Next /\ (scan' # <<>> => Cardinality(stored) = 2)

\* The entries of an index are in the order of the values.
IndexInOrder == K!IndexInOrder
\* A scan with a partial key finds the keys it is a part of.
ScanFindsOwn == K!ScanFindsOwn
HeadsAreOwn == K!HeadsAreOwn
\* A key that is read is the key that was written.
ReadsBack == K!ReadsBack
ReadsBackAlways == K!ReadsBackAlways
=============================================================================
