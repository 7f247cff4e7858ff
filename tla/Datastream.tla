------------------------------ MODULE Datastream ------------------------------
(***************************************************************************)
(* The packed form of values: core/datastream.hpp and the integers of      *)
(* core/varint.hpp.  A stream that is written is a sequence of bytes; one  *)
(* that is read is the sequence and the number of bytes read so far.       *)
(*                                                                         *)
(* A read gives the set of its possible outcomes: empty if the stream or a *)
(* check stops the contract, of several elements where the code shifts a   *)
(* 32-bit value by more than its width, which C++ leaves undefined.        *)
(***************************************************************************)
EXTENDS Integers, Sequences, SequencesExt

CONSTANTS
    Group,   \* 2^7: a byte of an unsigned_int holds a digit below Group, and the
             \* bit that says whether another byte follows
    Word     \* 2^32: values of an unsigned_int

ASSUME WidthAssumption == Group \in Nat \ {0, 1} /\ Word \in Nat \ {0, 1}

(* Types.  A primitive value is the sequence of its bytes, an optional one a *)
(* sequence of at most one value, a variant <<index, value>>.                *)
Primitive(size) == [kind |-> "primitive", size |-> size, of |-> <<>>]
Bool == [kind |-> "bool", size |-> 1, of |-> <<>>]
UnsignedInt == [kind |-> "unsigned_int", size |-> 0, of |-> <<>>]
SignedInt == [kind |-> "signed_int", size |-> 0, of |-> <<>>]
Optional(t) == [kind |-> "optional", size |-> 0, of |-> <<t>>]
Vector(t) == [kind |-> "vector", size |-> 0, of |-> <<t>>]
Variant(ts) == [kind |-> "variant", size |-> 0, of |-> ts]
Tuple(ts) == [kind |-> "tuple", size |-> 0, of |-> ts]

Got(value, pos) == [value |-> value, pos |-> pos]

-----------------------------------------------------------------------------
(* Writing *)

RECURSIVE write_unsigned_int(_)
write_unsigned_int(val) ==
    IF val < Group THEN <<val>>
    ELSE <<Group + (val % Group)>> \o write_unsigned_int(val \div Group)

(* signed_int: the sign goes into the lowest bit *)
zigzag(v) == IF v < 0 THEN -2 * v - 1 ELSE 2 * v
unzigzag(n) == IF n % 2 = 0 THEN n \div 2 ELSE -(n \div 2) - 1

RECURSIVE pack(_, _)
pack(t, v) ==
    LET each(ts) == FlattenSeq([i \in DOMAIN v |-> pack(ts[i], v[i])]) IN
    CASE t.kind = "primitive" -> v
      [] t.kind = "bool" -> <<IF v THEN 1 ELSE 0>>
      [] t.kind = "unsigned_int" -> write_unsigned_int(v)
      [] t.kind = "signed_int" -> write_unsigned_int(zigzag(v))
      [] t.kind = "optional" -> <<Len(v)>> \o each(t.of)
      [] t.kind = "vector" ->
             write_unsigned_int(Len(v)) \o each([i \in DOMAIN v |-> t.of[1]])
      [] t.kind = "variant" -> write_unsigned_int(v[1]) \o pack(t.of[v[1] + 1], v[2])
      [] t.kind = "tuple" -> each(t.of)

-----------------------------------------------------------------------------
(* Reading *)

(* read and get: "read" or "get" fails at the end of the stream *)
read(data, pos, n) ==
    IF Len(data) - pos >= n THEN {Got(SubSeq(data, pos + 1, pos + n), pos + n)} ELSE {}

(* weight is 2^by; the shift is done in 32 bits, and what leaves them is lost *)
RECURSIVE read_digits(_, _, _, _)
read_digits(data, pos, v, weight) ==
    UNION { LET b == r.value[1]
                sums == IF weight < Word THEN {v + (((b % Group) * weight) % Word)}
                        ELSE 0..(Word - 1)
            IN  IF b >= Group
                THEN UNION {read_digits(data, r.pos, s, weight * Group) : s \in sums}
                ELSE {Got(s, r.pos) : s \in sums}
          : r \in read(data, pos, 1) }

(* Mutant of read_unsigned_int: the digits of the first byte only. *)
read_one_digit(data, pos) ==
    {Got(r.value[1] % Group, r.pos) : r \in read(data, pos, 1)}

read_unsigned_int(data, pos) == read_digits(data, pos, 0, 1)

RECURSIVE unpack(_, _, _)
RECURSIVE unpack_each(_, _, _)
unpack_each(ts, data, pos) ==
    IF ts = <<>> THEN {Got(<<>>, pos)}
    ELSE UNION { {Got(<<r.value>> \o s.value, s.pos) : s \in unpack_each(Tail(ts), data, r.pos)}
               : r \in unpack(Head(ts), data, pos) }

(* a container is resized to the count that was read before its elements are *)
unpack(t, data, pos) ==
    CASE t.kind = "primitive" -> read(data, pos, t.size)
      [] t.kind = "bool" -> {Got(r.value # <<0>>, r.pos) : r \in read(data, pos, 1)}
      [] t.kind = "unsigned_int" -> read_unsigned_int(data, pos)
      [] t.kind = "signed_int" ->
             {Got(unzigzag(n.value), n.pos) : n \in read_unsigned_int(data, pos)}
      [] t.kind = "optional" ->
             UNION { unpack_each(IF r.value # <<0>> THEN t.of ELSE <<>>, data, r.pos)
                   : r \in read(data, pos, 1) }
      [] t.kind = "vector" ->
             UNION { unpack_each([i \in 1..n.value |-> t.of[1]], data, n.pos)
                   : n \in read_unsigned_int(data, pos) }
      [] t.kind = "variant" ->
             UNION { {Got(<<n.value, r.value>>, r.pos)
                     : r \in unpack(t.of[n.value + 1], data, n.pos)}
                   : n \in {m \in read_unsigned_int(data, pos) : m.value < Len(t.of)} }
      [] t.kind = "tuple" -> unpack_each(t.of, data, pos)
=============================================================================
