----------------------------- MODULE IndexTable -----------------------------
(***************************************************************************)
(* libraries/wasmlib/contracts/db.hpp: db::set, db::del and db::get over   *)
(* index_table, a table whose rows are also found by secondary keys.  Rows *)
(* and index entries are records of one key/value store kept by the host   *)
(* (db_store, db_remove, db_get), which undoes a transaction as a whole:   *)
(* each operation is one step.                                             *)
(*                                                                         *)
(* An object is the tuple of its secondary keys, one per index; the rest   *)
(* of its contents plays no part.                                          *)
(***************************************************************************)
EXTENDS Integers, FiniteSets

CONSTANTS
    Tables,         \* tables of the contract
    Stem,           \* Stem[t]: the name of table t without its low 4 bits
    Indices,        \* index numbers
    PrimaryKeys,
    SecondaryKeys,
    None,           \* the host has no record under a key
    ChecksKeys,     \* the contract looks a secondary key up before it uses it
    DeletesStored   \* the contract deletes objects as it has read them

ASSUME NoneAssumption == None \notin PrimaryKeys

ASSUME ClientAssumption == ChecksKeys \in BOOLEAN /\ DeletesStored \in BOOLEAN

Object == [Indices -> SecondaryKeys]

ASSUME NoneIsNoObject == None \notin Object

VARIABLES
    row,        \* row[t][p]: the object stored under (table_name, primary key)
    secondary   \* secondary[<<index_table_name, key>>]: a primary key

vars == <<row, secondary>>

(* Mutant of index_table_name: tables share their indices. *)
shared_index_name(t, i) == <<"index", i>>

(* (TableName & ~0xF) | index number *)
index_table_name(t, i) == <<Stem[t], i>>

(* (SECONDARY_KEY_PREFIX, index_type::name(), extract_secondary_key(object)) *)
Entry(t, i, key) == <<index_table_name(t, i), key>>

Entries == {Entry(t, i, key) : t \in Tables, i \in Indices, key \in SecondaryKeys}

EntriesOf(t, object) == {Entry(t, i, object[i]) : i \in Indices}

Init ==
    /\ row = [t \in Tables |-> [p \in PrimaryKeys |-> None]]
    /\ secondary = [e \in Entries |-> None]

(* db::get(object, primary) *)
has_row(t, p) == row[t][p] # None

(* db::get(by_index, object): the primary key of the row it returns, or None *)
get_by_index(t, i, key) ==
    LET p == secondary[Entry(t, i, key)] IN
    IF p # None /\ has_row(t, p) THEN p ELSE None

(* The check contracts make before they store a row: no other row is found   *)
(* under one of its secondary keys.                                          *)
KeysChecked(t, p, object) ==
    \A i \in Indices : get_by_index(t, i, object[i]) \in {None, p}

(* Mutant of OldEntries: the entries of the old object stay. *)
NoOldEntries(t, p, object) == {}

(* Entries of the old object whose key the new one no longer has. *)
OldEntries(t, p, object) ==
    IF has_row(t, p)
    THEN {Entry(t, i, row[t][p][i]) : i \in {j \in Indices : row[t][p][j] # object[j]}}
    ELSE {}

(* Mutant of set: every entry of the old object goes, after the new ones     *)
(* were stored.                                                              *)
setThenRemove(t, p, object) ==
    /\ ChecksKeys => KeysChecked(t, p, object)
    /\ secondary' = [e \in Entries |->
           IF has_row(t, p) /\ e \in EntriesOf(t, row[t][p]) THEN None
           ELSE IF e \in EntriesOf(t, object) THEN p
           ELSE secondary[e]]
    /\ row' = [row EXCEPT ![t][p] = object]

(* Mutant of set: the entries store the secondary key, not the primary one. *)
setKeyTwice(t, p, object) ==
    /\ ChecksKeys => KeysChecked(t, p, object)
    /\ secondary' = [e \in Entries |->
           IF e \in EntriesOf(t, object) THEN e[2]
           ELSE IF e \in OldEntries(t, p, object) THEN None
           ELSE secondary[e]]
    /\ row' = [row EXCEPT ![t][p] = object]

set(t, p, object) ==
    /\ ChecksKeys => KeysChecked(t, p, object)
    /\ secondary' = [e \in Entries |->
           IF e \in EntriesOf(t, object) THEN p
           ELSE IF e \in OldEntries(t, p, object) THEN None
           ELSE secondary[e]]
    /\ row' = [row EXCEPT ![t][p] = object]

(* del trusts the keys of the object it is given; it does not read the row.  *)
del(t, p, object) ==
    /\ DeletesStored => row[t][p] = object
    /\ secondary' = [e \in Entries |->
           IF e \in EntriesOf(t, object) THEN None ELSE secondary[e]]
    /\ row' = [row EXCEPT ![t][p] = None]

Next ==
    \E t \in Tables, p \in PrimaryKeys, object \in Object :
        set(t, p, object) \/ del(t, p, object)

Spec == Init /\ [][Next]_vars

-----------------------------------------------------------------------------
(* Properties *)

TypeOK ==
    /\ row \in [Tables -> [PrimaryKeys -> Object \union {None}]]
    /\ secondary \in [Entries -> PrimaryKeys \union {None}]

(* Table names that differ in more than their low 4 bits. *)
StemsApart == \A t, u \in Tables : Stem[t] = Stem[u] => t = u

(* An index entry always leads to a row that has its key: db::get(by_index,  *)
(* ...) never returns an object that does not match (db.hpp:226-262), also   *)
(* when the contract lets two rows use the same secondary key.               *)
IndexSound ==
    \A t \in Tables, i \in Indices, key \in SecondaryKeys :
        LET p == secondary[Entry(t, i, key)] IN
        p # None => has_row(t, p) /\ row[t][p][i] = key

(* Every row is found by each of its secondary keys: neither the removal of  *)
(* an old key nor a deletion takes another row's entry away                  *)
(* (db.hpp:186-201, 215-220).                                                *)
IndexComplete ==
    \A t \in Tables, p \in PrimaryKeys, i \in Indices :
        has_row(t, p) => get_by_index(t, i, row[t][p][i]) = p

(* Rows change one at a time, and a lookup by a key that neither the old nor *)
(* the new version of the changed row has still gives the same answer.       *)
OtherLookupsKept ==
    [][\A t \in Tables, i \in Indices, key \in SecondaryKeys :
          LET p == get_by_index(t, i, key) IN
          (p # None /\ row'[t][p] = row[t][p]) => get_by_index(t, i, key)' = p]_vars
=============================================================================
