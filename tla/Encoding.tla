------------------------------ MODULE Encoding ------------------------------
(***************************************************************************)
(* How the value of an indexed field becomes bytes and is read back        *)
(* (internal/encoding).  Each value starts with a marker byte that tells   *)
(* its type; the bytes are chosen so that the store, which orders keys     *)
(* byte by byte, orders the values, upwards or, for a descending field,    *)
(* downwards.                                                              *)
(*                                                                         *)
(* A byte is a number below 256.  A value is a record [t, v] of a type and *)
(* a sequence of integers:                                                 *)
(*   "null" <<>>                     "bool"  <<0>> or <<1>>                *)
(*   "int"  <<n>>                    "time"  <<seconds, nanoseconds>>      *)
(*   "f32"  its four bytes, <<>> for NaN                                   *)
(*   "str"  its bytes                                                      *)
(*   "json" a path of properties (byte sequences; <<>> for an element of   *)
(*          an array) in field path and the scalar there in field leaf.    *)
(* Integers stay below 2^31 here, so that the widths of five to eight      *)
(* bytes are not reached; a 64-bit float is the 32-bit one with four more  *)
(* bytes and other markers.                                                *)
(***************************************************************************)
EXTENDS Integers, Sequences, SequencesExt

Failed == [t |-> "error", v |-> <<>>]

encodedNull == 0
bytesMarker == 6
bytesDescMarker == 7
timeMarker == 8
falseMarker == 9
trueMarker == 10
jsonMarker == 11
floatNaN == 12
floatNeg == 13
floatZero == 14
floatPos == 15
floatNaNDesc == 16
IntMin == 128
intMaxWidth == 8
intZero == IntMin + intMaxWidth
IntMax == 253
intSmall == IntMax - intZero - intMaxWidth
encodedNullDesc == 255

Slash == 47
escape == 0
escapedTerm == 1
escaped00 == 255

Complement(bs) == [i \in DOMAIN bs |-> 255 - bs[i]]
From(b, i) == SubSeq(b, i, Len(b))

PeekType(b) ==
  LET m == IF b = <<>> THEN -1 ELSE Head(b)
  IN  IF m \in {encodedNull, encodedNullDesc} THEN "null"
      ELSE IF m = bytesMarker THEN "bytes"
      ELSE IF m = bytesDescMarker THEN "bytesDesc"
      ELSE IF m \in IntMin..IntMax THEN "int"
      ELSE IF m \in floatNaN..floatNaNDesc THEN "f32"
      ELSE IF m = timeMarker THEN "time"
      ELSE IF m \in {falseMarker, trueMarker} THEN "bool"
      ELSE IF m = jsonMarker THEN "json" ELSE "unknown"

-----------------------------------------------------------------------------
(***************************************************************************)
(* Integers.                                                               *)
(***************************************************************************)

\* How many bytes a magnitude takes.
Width[u \in Nat] == IF u < 256 THEN 1 ELSE 1 + Width[u \div 256]

\* The lowest n bytes of v in two's complement, the highest first.
BigEndian(v, n) == [i \in 1..n |-> (v \div 256^(n - i)) % 256]
ReadBigEndian(bs) == FoldLeft(LAMBDA acc, x : acc * 256 + x, 0, bs)

\* Mutant: the largest value of one byte is one more.
EncodeUvarintLate(v) ==
  IF v <= intSmall + 1 THEN <<intZero + v>>
  ELSE <<IntMax - 8 + Width[v]>> \o BigEndian(v, Width[v])

EncodeUvarintAscending(v) ==
  IF v <= intSmall THEN <<intZero + v>>
  ELSE <<IntMax - 8 + Width[v]>> \o BigEndian(v, Width[v])

\* <<bytes left, the number>>, or Failed.
DecodeUvarintAscending(b) ==
  IF b = <<>> \/ Head(b) = Slash THEN <<Failed>>
  ELSE LET length == Head(b) - intZero
           rest == Tail(b)
           more == length - intSmall
       IN  IF length <= intSmall THEN <<rest, length>>
           ELSE IF more > 8 \/ Len(rest) < more THEN <<Failed>>
           ELSE <<From(rest, more + 1), ReadBigEndian(SubSeq(rest, 1, more))>>

EncodeVarintAscending(v) ==
  IF v < 0 THEN <<IntMin + 8 - Width[-v]>> \o BigEndian(v, Width[-v])
  ELSE EncodeUvarintAscending(v)

DecodeVarintAscending(b) ==
  IF b = <<>> \/ Head(b) = Slash THEN <<Failed>>
  ELSE LET length == intZero - Head(b)
           rest == Tail(b)
       IN  IF length <= 0 THEN DecodeUvarintAscending(b)
           ELSE IF Len(rest) < length THEN <<Failed>>
           ELSE <<From(rest, length + 1),
                  -1 - ReadBigEndian(Complement(SubSeq(rest, 1, length)))>>

\* ^v
Not(v) == -1 - v

-----------------------------------------------------------------------------
(***************************************************************************)
(* Strings.  A zero byte is escaped, and the end is marked by an escape.   *)
(***************************************************************************)

EncodeBytesAscending(data) ==
  <<bytesMarker>>
    \o FlattenSeq([i \in DOMAIN data |->
         IF data[i] = escape THEN <<escape, escaped00>> ELSE <<data[i]>>])
    \o <<escape, escapedTerm>>

EncodeBytesDescending(data) ==
  <<bytesDescMarker>> \o Complement(Tail(EncodeBytesAscending(data)))

\* The escapes of b, whose marker is gone, by their place: the first escape
\* sequence, then the first one after it, and so on up to the end mark.
RECURSIVE Unescaped(_, _, _)
Unescaped(b, e, read) ==
  LET at == {i \in DOMAIN b : b[i] = e[1]}
      i == CHOOSE j \in at : \A k \in at : j <= k
  IN  IF at = {} \/ i + 1 > Len(b) THEN <<Failed>>
      ELSE IF b[i + 1] = e[2] THEN <<From(b, i + 2), read \o SubSeq(b, 1, i - 1)>>
      ELSE IF b[i + 1] # e[3] THEN <<Failed>>
      ELSE Unescaped(From(b, i + 2), e, read \o SubSeq(b, 1, i - 1) \o <<e[4]>>)

\* e is <<escape, escapedTerm, escaped00, escapedFF>> of the direction.
decodeBytesInternal(b, marker, e) ==
  IF b = <<>> \/ Head(b) # marker THEN <<Failed>> ELSE Unescaped(Tail(b), e, <<>>)

DecodeBytesAscending(b) ==
  decodeBytesInternal(b, bytesMarker, <<escape, escapedTerm, escaped00, 0>>)

DecodeBytesDescending(b) ==
  LET r == decodeBytesInternal(b, bytesDescMarker,
             Complement(<<escape, escapedTerm, escaped00, 0>>))
  IN  IF Len(r) = 1 THEN r ELSE <<r[1], Complement(r[2])>>

-----------------------------------------------------------------------------
(***************************************************************************)
(* Floats, booleans, times and nulls.                                      *)
(***************************************************************************)

Zero == <<0, 0, 0, 0>>
IsNegative(f) == f # <<>> /\ Head(f) >= 128
Negated(f) ==
  IF f \in {<<>>, Zero} THEN f ELSE [f EXCEPT ![1] = (@ + 128) % 256]

EncodeFloatAscending(f) ==
  IF f = <<>> THEN <<floatNaN>>
  ELSE IF f = Zero THEN <<floatZero>>
  ELSE IF IsNegative(f) THEN <<floatNeg>> \o Complement(f)
  ELSE <<floatPos>> \o f

EncodeFloatDescending(f) ==
  IF f = <<>> THEN <<floatNaNDesc>> ELSE EncodeFloatAscending(Negated(f))

\* Fixed-width integers.  A first byte of '/' is taken for a missing value.
DecodeUintAscending(b) ==
  IF Len(b) < 4 \/ Head(b) = Slash THEN <<Failed>>
  ELSE <<From(b, 5), SubSeq(b, 1, 4)>>

DecodeFloatAscending(b) ==
  LET u == DecodeUintAscending(Tail(b))
  IN  IF Head(b) \in {floatNaN, floatNaNDesc} THEN <<Tail(b), <<>> >>
      ELSE IF Head(b) = floatZero THEN <<Tail(b), Zero>>
      ELSE IF Len(u) = 1 THEN u
      ELSE IF Head(b) = floatNeg THEN <<u[1], Complement(u[2])>> ELSE u

DecodeFloatDescending(b) ==
  LET r == DecodeFloatAscending(b)
  IN  IF Len(r) = 1 THEN r ELSE <<r[1], Negated(r[2])>>

EncodeBool(v, descending) ==
  IF (v = 1) # descending THEN <<trueMarker>> ELSE <<falseMarker>>

DecodeBool(b, descending) ==
  <<Tail(b), IF (Head(b) = trueMarker) # descending THEN 1 ELSE 0>>

EncodeTime(t, descending) ==
  LET part(i) == EncodeVarintAscending(IF descending THEN Not(t[i]) ELSE t[i])
  IN  <<timeMarker>> \o part(1) \o part(2)

DecodeTime(b, descending) ==
  LET sec == DecodeVarintAscending(Tail(b))
      nsec == DecodeVarintAscending(sec[1])
      value(n) == IF descending THEN Not(n) ELSE n
  IN  IF Len(sec) = 1 THEN sec ELSE IF Len(nsec) = 1 THEN nsec
      ELSE <<nsec[1], <<value(sec[2]), value(nsec[2])>> >>

EncodeNull(descending) ==
  IF descending THEN <<encodedNullDesc>> ELSE <<encodedNull>>

-----------------------------------------------------------------------------
(***************************************************************************)
(* JSON: the path to a scalar, then the scalar.  An element of an array is *)
(* told by a zero, whatever its index.                                     *)
(***************************************************************************)

encodeJSONPath(path) ==
  <<jsonMarker>>
    \o FlattenSeq([i \in DOMAIN path |->
         IF path[i] = <<>> THEN EncodeUvarintAscending(0)
         ELSE EncodeBytesAscending(path[i])])
    \o <<escapedTerm>>

RECURSIVE decodeJSONPath(_, _)
decodeJSONPath(b, path) ==
  IF b = <<>> THEN <<b, path>>
  ELSE IF Head(b) = escapedTerm THEN <<Tail(b), path>>
  ELSE LET part == IF PeekType(b) = "bytes" THEN DecodeBytesAscending(b)
                   ELSE DecodeUvarintAscending(b)
       IN  IF Len(part) = 1 THEN part
           ELSE decodeJSONPath(part[1],
                  Append(path, IF PeekType(b) = "bytes" THEN part[2] ELSE <<>>))

\* The scalars of JSON: null, numbers (floats), strings and booleans.
EncodeScalar(val, descending) ==
  IF val.t = "null" THEN EncodeNull(descending)
  ELSE IF val.t = "bool" THEN EncodeBool(val.v[1], descending)
  ELSE IF val.t = "f32" THEN
    (IF descending THEN EncodeFloatDescending(val.v) ELSE EncodeFloatAscending(val.v))
  ELSE IF descending THEN EncodeBytesDescending(val.v)
  ELSE EncodeBytesAscending(val.v)

EncodeJSON(val, descending) ==
  encodeJSONPath(val.path) \o <<Slash>> \o EncodeScalar(val.leaf, descending)

EncodeFieldValue(val, descending) ==
  IF val.t = "int" THEN
    EncodeVarintAscending(IF descending THEN Not(val.v[1]) ELSE val.v[1])
  ELSE IF val.t = "time" THEN EncodeTime(val.v, descending)
  ELSE IF val.t = "json" THEN EncodeJSON(val, descending)
  ELSE EncodeScalar(val, descending)

Typed(r, t, wrap(_)) ==
  IF Len(r) = 1 THEN r ELSE <<r[1], [t |-> t, v |-> wrap(r[2])]>>
Itself(v) == v
Single(v) == <<v>>

DecodeScalar(b, descending) ==
  LET t == PeekType(b)
  IN  IF t = "null" THEN <<Tail(b), [t |-> "null", v |-> <<>>]>>
      ELSE IF t = "bool" THEN Typed(DecodeBool(b, descending), "bool", Single)
      ELSE IF t = "f32" THEN
        Typed(IF descending THEN DecodeFloatDescending(b) ELSE DecodeFloatAscending(b),
              "f32", Itself)
      ELSE IF t \in {"bytes", "bytesDesc"} THEN
        Typed(IF descending THEN DecodeBytesDescending(b) ELSE DecodeBytesAscending(b),
              "str", Itself)
      ELSE <<Failed>>

JSONValue(path, leaf) ==
  IF Len(leaf) = 1 THEN leaf
  ELSE <<leaf[1], [t |-> "json", v |-> <<>>, path |-> path, leaf |-> leaf[2]]>>

decodeJSON(b, descending) ==
  LET path == decodeJSONPath(Tail(b), <<>>)
  IN  IF Len(path) = 1 THEN path
      ELSE JSONValue(path[2], DecodeScalar(Tail(path[1]), descending))

DecodeFieldValue(b, descending) ==
  LET t == PeekType(b)
  IN  IF t = "int" THEN
        LET r == DecodeVarintAscending(b)
        IN  IF Len(r) = 1 THEN r
            ELSE <<r[1], [t |-> "int",
                          v |-> <<IF descending THEN Not(r[2]) ELSE r[2]>>]>>
      ELSE IF t = "time" THEN Typed(DecodeTime(b, descending), "time", Itself)
      ELSE IF t = "json" THEN decodeJSON(b, descending)
      ELSE DecodeScalar(b, descending)
=============================================================================
