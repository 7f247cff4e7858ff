------------------------------ MODULE MCWasmCpp ------------------------------
(* Sources of a contract.  c has the file name of b and another transfer; d  *)
(* has two actions whose method and class read the same, so that the second  *)
(* gets no stub; l is a library file with the file name of a; k is a C file. *)
EXTENDS WasmCpp

CONSTANTS p1, p2, p3

Type(kind, name, suffix, base, uses) ==
    [kind |-> kind, name |-> name, suffix |-> suffix, base |-> base, uses |-> uses]
Use(name, type) == [name |-> name, type |-> type]

MCTypes == [
    uint64 |-> Type("builtin", "uint64", "", {}, <<>>),
    row |-> Type("struct", "row", "", {}, <<Use("id", "uint64")>>),
    item |-> Type("struct", "item", "", {}, <<Use("n", "uint64"), Use("any", "either")>>),
    items |-> Type("container", "item", "[]", {}, <<Use("", "item")>>),
    amount |-> Type("alias", "amount", "", {}, <<Use("", "uint64")>>),
    dust |-> Type("alias", "dust", "", {}, <<Use("", "leaves")>>),
    leaf |-> Type("struct", "leaf", "", {}, <<Use("n", "uint64")>>),
    leaves |-> Type("container", "leaf", "[]", {}, <<Use("", "leaf")>>),
    either |-> Type("variant", "variant_dust_leaf", "", {}, <<Use("", "dust"), Use("", "leaf")>>),
    account |-> Type("struct", "account", "", {"row"}, <<Use("sum", "amount")>>)]

Action(name, method, class, mine, params) ==
    [kind |-> "action", name |-> name, method |-> method, class |-> class,
     mine |-> mine, params |-> params]
Table(kind, name, type) == [kind |-> kind, name |-> name, type |-> type, mine |-> TRUE]

transfer == Action("transfer", "transfer", "token", TRUE, <<Use("what", "items")>>)

MCDecls == [
    a |-> <<transfer, Action("issue", "issue", "other", FALSE, <<>>),
            Table("table", "accounts", "account")>>,
    b |-> <<transfer, Table("table", "accounts", "account"),
            Action("issue", "issue", "token", TRUE, <<Use("sum", "amount")>>),
            Table("index", "balances", "account")>>,
    c |-> <<Action("transfer", "transfer", "bank", TRUE, <<Use("sum", "uint64")>>)>>,
    d |-> <<Action("pay", "pay", "roll", TRUE, <<Use("sum", "uint64")>>),
            Action("payr", "payr", "oll", TRUE, <<Use("sum", "amount")>>)>>,
    l |-> <<>>,
    k |-> <<>>]

MCFileName == [a |-> "a.cpp", b |-> "b.cpp", c |-> "b.cpp", d |-> "d.cpp", l |-> "a.cpp", k |-> "k.c"]
MCLibrary == {"l"}

MCClauses == <<[id |-> "terms", body |-> "text"]>>

Command(tool, inputs, output, link, abigen) ==
    [tool |-> tool, inputs |-> inputs, output |-> output, link |-> link, abigen |-> abigen]

MCCommands == [p \in Procs |->
    CASE p = p1 -> {
             Command("wasm-cpp", <<"a", "b">>, "ab.wasm", TRUE, TRUE),
             Command("wasm-cpp", <<"a">>, "a.o", FALSE, FALSE),
             Command("wasm-cpp", <<"d">>, "d.wasm", TRUE, FALSE)}
      [] p = p2 -> {
             Command("wasm-cpp", <<"b", "a">>, "ab.wasm", TRUE, FALSE),
             Command("wasm-cpp", <<"c">>, "c.o", FALSE, FALSE),
             Command("wasm-cpp", <<"l">>, "l.wasm", TRUE, FALSE),
             Command("wasm-cc", <<"k">>, "k.wasm", TRUE, FALSE)}
      [] p = p3 -> {
             Command("wasm-lld", <<"a.o", "c.o">>, "ac.wasm", TRUE, FALSE)}]

(* what the theorems about ABIs ask of the sources *)
ASSUME FieldsDistinct /\ NamesResolve /\ NamesUsable
ASSUME \A p \in Procs : \A c \in MCCommands[p] :
    c.tool = "wasm-cpp" /\ c.inputs # <<"d">> => ActionsAgree(Inputs(c))
=============================================================================
