------------------------------ MODULE AbiMerge ------------------------------
(***************************************************************************)
(* tools/include/wasm/abimerge.hpp: the linker joins the ABIs it finds in  *)
(* the object files.                                                       *)
(*                                                                         *)
(* An ABI has a set of objects [name, def] per section and a list of       *)
(* clauses [id, body].  ok is FALSE for the ABI of a merge that threw.     *)
(* The version is left out: all tools of one build write the same.         *)
(***************************************************************************)
EXTENDS Integers, Sequences, SequencesExt

Sections == {"types", "structs", "actions", "tables", "variants"}

(* Mutant of is_same: the first definition of a struct wins. *)
is_same_name(section, a, b) == section = "structs" \/ a.def = b.def

(* struct_is_same, variant_is_same and their like, for objects of one name.  *)
(* The fields of structs are compared without their order; of variants only  *)
(* the types of a are looked up in b.                                        *)
is_same(section, a, b) ==
    CASE section = "structs" ->
             /\ a.def.base = b.def.base
             /\ Len(a.def.fields) = Len(b.def.fields)
             /\ ToSet(a.def.fields) \subseteq ToSet(b.def.fields)
      [] section = "variants" -> ToSet(a.def) \subseteq ToSet(b.def)
      [] OTHER -> a.def = b.def

(* what add_object throws at *)
Malformed(section, a, b) ==
    \E x \in a, y \in b : x.name = y.name /\ ~is_same(section, x, y)

ClausesMalformed(a, b) ==
    \E i \in DOMAIN a, j \in DOMAIN b : a[i].id = b[j].id /\ a[i].body # b[j].body

add_object(a, b) == a \union {y \in b : \A x \in a : x.name # y.name}

(* a clause of b joins the clauses of a, in ret, if a has none of its id *)
add_clause(ret, a, y) ==
    IF \E i \in DOMAIN a : a[i].id = y.id THEN ret ELSE Append(ret, y)

merge_clauses(a, b) ==
    LET ret[n \in 0 .. Len(b)] == IF n = 0 THEN a ELSE add_clause(ret[n - 1], a, b[n])
    IN  ret[Len(b)]

merge(a, b) ==
    [ok |-> a.ok /\ ~ClausesMalformed(a.clauses, b.clauses)
            /\ \A s \in Sections : ~Malformed(s, a.objects[s], b.objects[s]),
     objects |-> [s \in Sections |-> add_object(a.objects[s], b.objects[s])],
     clauses |-> merge_clauses(a.clauses, b.clauses)]

(* Writer::writeABI up to the file: each of the ABIs is merged into the last *)
(* of them; abis is not empty                                                *)
writeABI(abis) ==
    LET merged[n \in 0 .. Len(abis)] ==
            IF n = 0 THEN Last(abis) ELSE merge(merged[n - 1], abis[n])
    IN  merged[Len(abis)]
=============================================================================
