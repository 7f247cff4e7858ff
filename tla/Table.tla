------------------------------- MODULE Table -------------------------------
(***************************************************************************)
(* libraries/wasmlib/contracts/table.hpp: rows of a table in the host's    *)
(* key/value store (db_store, db_update, db_remove, db_get).  The key of a *)
(* row packs the table's name, the scope and the primary key, 24 bytes in  *)
(* all, so the rows of one table are a function of <<scope, primary key>>. *)
(*                                                                         *)
(* Operations give the rows after them.  emplace and modify are given the  *)
(* primary_key() of the object as the caller's lambda left it.             *)
(***************************************************************************)

CONSTANT NoRow      \* the host has nothing under a key

has(rows, scope, primary) == rows[<<scope, primary>>] # NoRow

(* get(t, primary); its caller's object keeps its contents when there is no row *)
get(rows, scope, primary, t) ==
    IF has(rows, scope, primary) THEN rows[<<scope, primary>>] ELSE t

emplace(rows, scope, object, primary) == [rows EXCEPT ![<<scope, primary>>] = object]

modify(rows, scope, object, primary) == [rows EXCEPT ![<<scope, primary>>] = object]

erase(rows, scope, primary) == [rows EXCEPT ![<<scope, primary>>] = NoRow]
=============================================================================
