------------------------------- MODULE Abigen -------------------------------
(***************************************************************************)
(* tools/include/wasm/abigen.hpp: what one run of wasm-cpp collects from   *)
(* the declarations of its inputs, and the ABI it makes of it.  The one    *)
(* abigen object lives as long as the process: what an input adds is still *)
(* there for the next one.  Its sets are ordered by name only, so a second *)
(* object of a name is not inserted.                                       *)
(*                                                                         *)
(* A reference to a type in the ABI is the name without the suffix of      *)
(* arrays and optionals, and that suffix.                                  *)
(***************************************************************************)
EXTENDS AbiMerge, FiniteSets

CONSTANTS
    Types,     \* C++ types: kind, name, suffix, base (set of at most one type),
               \* uses (list of [name, type]): fields, alternatives or target
    Decls,     \* Decls[s]: the declarations of source s, as they are visited
    Clauses    \* the clauses of the contract's ricardian file

Kinds == {"builtin", "struct", "variant", "alias", "container"}

(* a field, parameter, alternative or target *)
Member == [name : STRING, type : DOMAIN Types]

Declaration ==
    [kind : {"action"}, name : STRING, method : STRING, class : STRING,
     mine : BOOLEAN, params : Seq(Member)]
    \union [kind : {"table", "index"}, name : STRING, type : DOMAIN Types, mine : BOOLEAN]

ASSUME TypesAssumption ==
    \A t \in DOMAIN Types :
        /\ Types[t].kind \in Kinds
        /\ Types[t].base \subseteq DOMAIN Types
        /\ Types[t].uses \in Seq(Member)

(* an index_table is made over a record declared in the same source *)
ASSUME DeclsAssumption ==
    \A s \in DOMAIN Decls :
        /\ Decls[s] \in Seq(Declaration)
        /\ \A d \in ToSet(Decls[s]) :
               d.kind = "index" =>
                   \E e \in ToSet(Decls[s]) : e.kind = "table" /\ e.type = d.type /\ e.mine = d.mine

ASSUME ClausesAssumption == Clauses \in Seq([id : STRING, body : STRING])

(* translate_type *)
Ref(t) == [name |-> Types[t].name, suffix |-> Types[t].suffix]

remove_suffix(ref) == ref.name

is_builtin_type(name) ==
    \E t \in DOMAIN Types : Types[t].kind = "builtin" /\ Types[t].name = name

Uses(t) == Types[t].base \union {u.type : u \in ToSet(Types[t].uses)}

(* the types add_type reaches: the smallest set it never has to leave *)
ReachedFrom ==
    LET closed == {S \in SUBSET DOMAIN Types : \A t \in S : Uses(t) \subseteq S}
    IN  [t \in DOMAIN Types |->
            {u \in DOMAIN Types : \A S \in closed : t \in S => u \in S}]

Reach(ts) == UNION {ReachedFrom[t] : t \in ts}

OfKind(kind, ts) == {t \in Reach(ts) : Types[t].kind = kind}

Fields(uses) == [i \in DOMAIN uses |-> [name |-> uses[i].name, type |-> Ref(uses[i].type)]]

(* std::set::insert for each of the objects: one of a name is kept *)
Insert(set, objects) ==
    LET first(name) == CHOOSE o \in objects : o.name = name
    IN  set \union {o \in objects : o = first(o.name) /\ \A x \in set : x.name # o.name}

(* Members of one struct, and parameters of one action, differ.  In C++ they *)
(* have different names, but a parameter may have none.                      *)
FieldsDistinct ==
    /\ \A t \in DOMAIN Types : Types[t].kind = "struct" => IsInjective(Fields(Types[t].uses))
    /\ \A s \in DOMAIN Decls : \A d \in ToSet(Decls[s]) :
          d.kind = "action" => IsInjective(Fields(d.params))

(* An alias has a target, bases and records of tables are structs, and a     *)
(* container goes by the name of a type that it holds.                       *)
NamesResolve ==
    /\ \A t \in DOMAIN Types :
          /\ Types[t].kind = "alias" => Types[t].uses # <<>>
          /\ \A b \in Types[t].base : Types[b].kind = "struct"
          /\ Types[t].kind = "container" =>
                \E u \in ReachedFrom[t] :
                   Types[u].kind # "container" /\ Types[u].name = Types[t].name
    /\ \A s \in DOMAIN Decls : \A d \in ToSet(Decls[s]) :
          d.kind # "action" => Types[d.type].kind = "struct"

NewAbigen ==
    [structs |-> {}, typedefs |-> {}, actions |-> {}, tables |-> {}, ctables |-> {},
     variants |-> {}, clauses |-> <<>>]

(* add_struct, add_tuple, add_pair, add_map; add_variant; add_typedef *)
add_type(ag, ts) ==
    [ag EXCEPT
        !.structs = Insert(@, {[name |-> Types[t].name,
                                def |-> [base |-> {Types[b].name : b \in Types[t].base},
                                         fields |-> Fields(Types[t].uses)]]
                               : t \in OfKind("struct", ts)}),
        !.variants = Insert(@, {[name |-> Types[t].name,
                                 def |-> [i \in DOMAIN Types[t].uses |-> Ref(Types[t].uses[i].type)]]
                                : t \in OfKind("variant", ts)}),
        !.typedefs = Insert(@, {[name |-> Types[t].name, def |-> Ref(Types[t].uses[1].type)]
                                : t \in OfKind("alias", ts)})]

(* an action: the struct of its parameters, and the action of that type *)
add_action(ag, d) ==
    LET params == {u.type : u \in ToSet(d.params)}
        struct == [name |-> d.method, def |-> [base |-> {}, fields |-> Fields(d.params)]]
    IN  [add_type([ag EXCEPT !.structs = Insert(@, {struct})], params) EXCEPT
            !.actions = Insert(@, {[name |-> d.name, def |-> d.method]})]

(* add_table of a record with the table attribute *)
add_table(ag, d) ==
    [add_type(ag, {d.type}) EXCEPT
        !.ctables = Insert(@, {[name |-> d.name, def |-> Types[d.type].name]})]

(* add_table of an index_table or table over such a record *)
add_index(ag, d) ==
    [ag EXCEPT !.tables = Insert(@, {[name |-> d.name, def |-> Types[d.type].name]})]

(* the callbacks of the matchers; declarations of other contracts are left out *)
Visit(ag, d) ==
    CASE ~d.mine -> ag
      [] d.mine /\ d.kind = "action" -> add_action(ag, d)
      [] d.mine /\ d.kind = "table" -> add_table(ag, d)
      [] d.mine /\ d.kind = "index" -> add_index(ag, d)

(* one run of the tool: the clauses come with its first record *)
VisitAll(ag, s) ==
    LET visited[n \in 0 .. Len(Decls[s])] ==
            IF n = 0 THEN (IF Decls[s] = <<>> THEN ag ELSE [ag EXCEPT !.clauses = @ \o Clauses])
            ELSE Visit(visited[n - 1], Decls[s][n])
    IN  visited[Len(Decls[s])]

-----------------------------------------------------------------------------
(* to_json *)

set_of_tables(ag) ==
    Insert(ag.tables, {t \in ag.ctables : \A u \in ag.tables : t.def # u.def})

is_empty(ag) ==
    /\ ag.structs = {} /\ ag.typedefs = {} /\ ag.actions = {} /\ set_of_tables(ag) = {}
    /\ ag.clauses = <<>> /\ ag.variants = {}

FieldNames(structs) ==
    UNION {{remove_suffix(f.type) : f \in ToSet(s.def.fields)} : s \in structs}

(* Mutant of validate_struct: bases are forgotten. *)
validate_struct_no_base(ag, as) ==
    /\ ~is_builtin_type(as.name)
    /\ \/ as.name \in FieldNames(ag.structs)
       \/ \E v \in ag.variants : as.name \in {remove_suffix(r) : r \in ToSet(v.def)}
       \/ \E a \in ag.actions \union set_of_tables(ag) : as.name = a.def
       \/ \E td \in ag.typedefs : as.name = remove_suffix(td.def)

validate_struct(ag, as) ==
    /\ ~is_builtin_type(as.name)
    /\ \/ as.name \in FieldNames(ag.structs)
       \/ \E v \in ag.variants : as.name \in {remove_suffix(r) : r \in ToSet(v.def)}
       \/ \E s \in ag.structs : as.name \in s.def.base
       \/ \E a \in ag.actions \union set_of_tables(ag) : as.name = a.def
       \/ \E td \in ag.typedefs : as.name = remove_suffix(td.def)

validate_types(ag, td) ==
    \/ td.name \in FieldNames({s \in ag.structs : validate_struct(ag, s)})
    \/ \E a \in ag.actions \union ag.tables : a.def = td.name
    \/ \E other \in ag.typedefs : remove_suffix(other.def) = td.name

to_json(ag) ==
    [ok |-> TRUE,
     objects |-> [structs |-> {s \in ag.structs : validate_struct(ag, s)},
                  types |-> {td \in ag.typedefs : validate_types(ag, td)},
                  actions |-> ag.actions,
                  tables |-> set_of_tables(ag),
                  variants |-> ag.variants],
     clauses |-> ag.clauses]
=============================================================================
