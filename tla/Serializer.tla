----------------------------- MODULE Serializer -----------------------------
(***************************************************************************)
(* The number and string formats of bytearray.cpp: fixed-width integers in *)
(* either byte order, zigzag and 7-bit varints, strings with a length in   *)
(* front.  A value is written, other bytes may follow, and the reader of   *)
(* the same format takes it out again.                                     *)
(*                                                                         *)
(* The widths are scaled: a varint byte carries Group bits of a number of  *)
(* Word (32) or Double (64) bits; arithmetic wraps at these widths.        *)
(***************************************************************************)
EXTENDS Integers, Sequences, SequencesExt

CONSTANTS
  Group,   \* 7: number bits in a varint byte, whose next bit means "more"
  Word,    \* 32
  Double,  \* 64
  Short,   \* 16: width of a short length
  MaxStr,  \* bound on the length of strings
  Format   \* the formats looked at

ASSUME SerializerAssumption ==
  /\ Group \in Nat \ {0} /\ Word \in Nat \ {0} /\ Short \in Nat \ {0} /\ MaxStr \in Nat
  /\ Double \in Nat /\ Double >= Word

VARIABLES
  phase,   \* "new", "written", "read"
  format,
  little,  \* m_endian is TINY_LITTLE_ENDIAN
  value,   \* what was written
  bytes,   \* what is in front of the reader
  rest,    \* the bytes behind the value
  result   \* what was read, empty when the reader threw

vars == <<phase, format, little, value, bytes, rest, result>>

-----------------------------------------------------------------------------
Wrap(n, w) == n % 2^w
Signed(n, w) == LET u == Wrap(n, w) IN IF u < 2^(w - 1) THEN u ELSE u - 2^w
Ints(w) == -2^(w - 1) .. 2^(w - 1) - 1
Uints(w) == 0 .. 2^w - 1
Ceil(a, b) == (a + b - 1) \div b

(* Mutant: two's complement instead of the distance from zero. *)
EncodeZigzagTwos(v, w) == IF v < 0 THEN Wrap(-v * 2 + 1, w) ELSE Wrap(2 * v, w)

(* EncodeZigzag32 and EncodeZigzag64 *)
EncodeZigzag(v, w) ==
  IF v < 0 THEN Wrap(Wrap(-v, w) * 2 - 1, w) ELSE Wrap(2 * v, w)

(* DecodeZigzag: (value >> 1) ^ -(value & 1), an exclusive or with all ones being
   the complement. *)
DecodeZigzag(u, w) ==
  Signed(IF u % 2 = 0 THEN u \div 2 ELSE 2^w - 1 - u \div 2, w)

More == 2^Group     \* 0x80

(* writeUint32 and writeUint64 *)
Varint[v \in Nat] == IF v >= More THEN <<(v % More) + More>> \o Varint[v \div More] ELSE <<v>>

(* How many bytes readUint32 and readUint64 take: for (i = 0; i < w; i += 7). *)
VarintLength(bs, w) ==
  CHOOSE n \in 1..Len(bs) :
    /\ \A j \in 1..(n - 1) : bs[j] >= More
    /\ n = Ceil(w, Group) \/ bs[n] < More

(* The groups put together in an accumulator of acc bits. *)
Unvarint(bs, acc) ==
  FoldLeft(LAMBDA r, j : Wrap(r + (bs[j] % More) * 2^(Group * (j - 1)), acc),
           0, [j \in 1..Len(bs) |-> j])

-----------------------------------------------------------------------------
(* A fixed-width integer of w bits as bytes of Group + 1 bits: byteswap unless the
   byte order is the machine's. *)
Octet == 2 * More
Width(w) == Ceil(w, Group + 1)

LittleBytes(u, w) == [j \in 1..Width(w) |-> (u \div Octet^(j - 1)) % Octet]
FixedBytes(u, w) == IF little THEN LittleBytes(u, w) ELSE Reverse(LittleBytes(u, w))

FromFixed(bs) ==
  LET s == IF little THEN bs ELSE Reverse(bs)
  IN  FoldLeft(LAMBDA r, j : r + s[j] * Octet^(j - 1), 0, [j \in 1..Len(bs) |-> j])

Text(n) == [j \in 1..n |-> 1]

(* The values of each format's parameter type; a string is given by its length. *)
Values(f) ==
  CASE f \in {"Int32", "Fint32"} -> Ints(Word)
    [] f = "Uint32" -> Uints(Word)
    [] f = "Int64" -> Ints(Double)
    [] f = "Uint64" -> Uints(Double)
    [] f \in {"StringF16", "StringVint"} -> 0..MaxStr

(* writeInt64 encodes with EncodeZigzag32, whose parameter is an int32_t;
   writeStringF16 passes the size as an uint16_t. *)
Encode(f, v) ==
  CASE f = "Int32" -> Varint[EncodeZigzag(v, Word)]
    [] f = "Uint32" -> Varint[v]
    [] f = "Int64" -> Varint[EncodeZigzag(Signed(v, Word), Word)]
    [] f = "Uint64" -> Varint[v]
    [] f = "Fint32" -> FixedBytes(Wrap(v, Word), Word)
    [] f = "StringF16" -> FixedBytes(Wrap(v, Short), Short) \o Text(v)
    [] f = "StringVint" -> Varint[v] \o Text(v)

WriteValue(f, v, tail) ==
  /\ phase = "new"
  /\ phase' = "written"
  /\ format' = f /\ value' = v /\ rest' = tail
  /\ bytes' = Encode(f, v) \o tail
  /\ UNCHANGED <<little, result>>

Took(n, r) ==
  /\ result' = <<r>>
  /\ bytes' = SubSeq(bytes, n + 1, Len(bytes))

FirstBytes(n) == SubSeq(bytes, 1, n)

(* readInt32, readUint32 *)
ReadWord ==
  /\ format \in {"Int32", "Uint32"}
  /\ LET n == VarintLength(bytes, Word)
         u == Unvarint(FirstBytes(n), Word)
     IN  Took(n, IF format = "Int32" THEN DecodeZigzag(u, Word) ELSE u)

(* readInt64, readUint64: the accumulator of readUint64 is an uint32_t. *)
ReadDouble ==
  /\ format \in {"Int64", "Uint64"}
  /\ LET n == VarintLength(bytes, Double)
         u == Unvarint(FirstBytes(n), Word)
     IN  Took(n, IF format = "Int64" THEN DecodeZigzag(u, Double) ELSE u)

(* readFint32 and the other fixed readers *)
ReadFixed ==
  /\ format = "Fint32"
  /\ Took(Width(Word), Signed(FromFixed(FirstBytes(Width(Word))), Word))

(* A length of w bits, then that many bytes; read throws when there are fewer. *)
ReadText(w) ==
  LET have == Len(bytes) - Width(w)
      n == FromFixed(FirstBytes(Width(w)))
  IN  IF have < 0 THEN result' = <<>> /\ UNCHANGED bytes
      ELSE IF have < n THEN result' = <<>> /\ bytes' = SubSeq(bytes, Width(w) + 1, Len(bytes))
      ELSE Took(Width(w) + n, n)

(* readStringF16; readStringVint reads its length with readFuint64. *)
ReadString ==
  /\ format \in {"StringF16", "StringVint"}
  /\ ReadText(IF format = "StringF16" THEN Short ELSE Double)

ReadValue ==
  /\ phase = "written"
  /\ phase' = "read"
  /\ ReadWord \/ ReadDouble \/ ReadFixed \/ ReadString
  /\ UNCHANGED <<format, little, value, rest>>

(* Types; every byte that is written fits a byte. *)
TypeOK ==
  /\ phase \in {"new", "written", "read"}
  /\ little \in BOOLEAN
  /\ bytes \in Seq(0..Octet - 1) /\ rest \in Seq(0..Octet - 1)

Init ==
  /\ phase = "new" /\ format = "Uint32" /\ little \in BOOLEAN
  /\ value = 0 /\ bytes = <<>> /\ rest = <<>> /\ result = <<>>

(* The next value. *)
Again ==
  /\ phase = "read"
  /\ phase' = "new"
  /\ format' = "Uint32" /\ value' = 0 /\ result' = <<>>
  /\ bytes' = <<>> /\ rest' = <<>>
  /\ UNCHANGED little

Next ==
  \/ \E f \in Format : \E v \in Values(f) : \E tail \in {<<>>, <<0>>, <<More + 1, 1>>} :
       WriteValue(f, v, tail)
  \/ ReadValue
  \/ Again

Spec == Init /\ [][Next]_vars

-----------------------------------------------------------------------------
(* Reading gives the value that was written, for every value of the type and
   whatever bytes follow, and takes exactly its bytes. *)
RoundTrip == phase = "read" => result = <<value>> /\ bytes = rest

(* The part of a value its format carries: 64-bit integers lose all but the low word
   (with its sign), a short length all but its width. *)
Carried(f, v) ==
  CASE f = "Int64" -> Signed(v, Word)
    [] f = "Uint64" -> Wrap(v, Word)
    [] f = "StringF16" -> Wrap(v, Short)
    [] OTHER -> v

(* What follows the value for the next reader: of a string that is longer than its
   length says, first the characters the reader did not take. *)
LeftOver == IF format = "StringF16" THEN Text(value - Carried(format, value)) ELSE <<>>

(* Reading gives the carried part of the value, for every value of the type and
   whatever bytes follow: all of it for 32-bit integers of either kind and for
   strings whose size fits the length.  It takes exactly the bytes of the value, but
   for the characters such a length does not count. *)
ReadBack ==
  phase = "read" => result = <<Carried(format, value)>> /\ bytes = LeftOver \o rest

(* Types, and what a format reads is what it carries of what it wrote. *)
FormatInv == TypeOK /\ ReadBack
=============================================================================
