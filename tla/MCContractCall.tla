---------------------------- MODULE MCContractCall ----------------------------
(* The contracts of MCDispatchFunction, and a contract with macros, whose    *)
(* functions take the three kinds of parameters below.                       *)
EXTENDS MCDispatchFunction, ContractCall, Datastream

PackArgs(types, x) == pack(Tuple(types), x)
UnpackArgs(types, bytes) == {r.value : r \in unpack(Tuple(types), bytes, 0)}

Pair == <<Primitive(2), Vector(Primitive(1))>>
Choice == <<Optional(Bool), Variant(<<SignedInt, UnsignedInt>>)>>

Functions ==
    Members \union
    UNION {{h.func : h \in ToSet(f.actions)} \union {h.func : h \in ToSet(f.notify)}
          : f \in MCFiles}

Takes(f, pair, choice, none) ==
    CASE f \in {"transfer", "transfer_a", "bank_transfer"} -> pair
      [] f \in {"issue", "issue_a", "any_issue"} -> choice
      [] OTHER -> none

MCParams == [f \in Functions |-> Takes(f, Pair, Choice, <<>>)]

(* the vector of four needs a count of two bytes; -4 is the least signed_int *)
PairArgs ==
    { << <<1, 2>>, <<>> >>, << <<0, 7>>, <<<<3>>>> >>,
      << <<5, 0>>, <<<<1>>, <<7>>, <<2>>, <<0>>>> >> }
ChoiceArgs == { << <<>>, <<1, 7>> >>, << <<TRUE>>, <<0, -4>> >> }

MCArguments == [f \in Functions |-> Takes(f, PairArgs, ChoiceArgs, {<<>>})]

Packed ==
    {pack(Tuple(Pair), x) : x \in PairArgs} \union {pack(Tuple(Choice), x) : x \in ChoiceArgs}

(* a handler may return what the variable was set to before it ran *)
MCResults == {-1, 0, 7}

(* Data cut short or longer, and counts and indices with digits beyond the   *)
(* first byte, beyond the width of the value, and beyond that of the shift.  *)
MCData ==
    Packed
    \union {Front(d) : d \in Packed} \union {d \o <<0>> : d \in Packed}
    \union {<<>>, <<1, 2, 5, 0, 3>>, <<1, 2, 4, 6, 1>>, <<1, 2, 4, 4, 4, 1, 3>>, <<0, 5, 4, 5, 0>>}
=============================================================================
