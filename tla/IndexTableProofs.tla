-------------------------- MODULE IndexTableProofs --------------------------
(***************************************************************************)
(* Proofs about db.hpp's index_table, for any number of tables, indices,   *)
(* rows and keys.                                                          *)
(***************************************************************************)
EXTENDS IndexTable, TLAPS

LEMMA EntryType ==
    ASSUME NEW t \in Tables, NEW i \in Indices, NEW key \in SecondaryKeys
    PROVE  Entry(t, i, key) \in Entries
  BY DEF Entries

(* With table names apart, an entry belongs to one table, index and key. *)
LEMMA EntryInjective ==
    ASSUME StemsApart,
           NEW t \in Tables, NEW u \in Tables, NEW i, NEW j, NEW key, NEW other,
           Entry(t, i, key) = Entry(u, j, other)
    PROVE  t = u /\ i = j /\ key = other
  <1>1. Stem[t] = Stem[u] /\ i = j /\ key = other
    BY DEF Entry, index_table_name
  <1> QED
    BY <1>1 DEF StemsApart

LEMMA InitType == Init => TypeOK
  BY DEF Init, TypeOK

LEMMA NextType == TypeOK /\ [Next]_vars => TypeOK'
  <1> SUFFICES ASSUME TypeOK, [Next]_vars PROVE TypeOK'
    OBVIOUS
  <1>1. ASSUME NEW t \in Tables, NEW p \in PrimaryKeys, NEW object \in Object,
               set(t, p, object)
        PROVE  TypeOK'
    BY <1>1 DEF TypeOK, set
  <1>2. ASSUME NEW t \in Tables, NEW p \in PrimaryKeys, NEW object \in Object,
               del(t, p, object)
        PROVE  TypeOK'
    BY <1>2 DEF TypeOK, del
  <1>3. CASE UNCHANGED vars
    BY <1>3 DEF vars, TypeOK
  <1> QED
    BY <1>1, <1>2, <1>3 DEF Next

(* Rows hold objects and index entries hold primary keys. *)
THEOREM TypeCorrect == Spec => []TypeOK
  BY InitType, NextType, PTL DEF Spec

-----------------------------------------------------------------------------
(* Soundness of the indices *)

LEMMA SetSound ==
    ASSUME StemsApart, TypeOK, IndexSound,
           NEW t0 \in Tables, NEW p0 \in PrimaryKeys, NEW object \in Object,
           set(t0, p0, object)
    PROVE  IndexSound'
  <1> SUFFICES ASSUME NEW t \in Tables, NEW i \in Indices, NEW key \in SecondaryKeys,
                      secondary'[Entry(t, i, key)] # None
               PROVE  /\ row'[t][secondary'[Entry(t, i, key)]] # None
                      /\ row'[t][secondary'[Entry(t, i, key)]][i] = key
    BY DEF IndexSound, has_row
  <1> DEFINE e == Entry(t, i, key)
             p == secondary'[e]
  <1>1. e \in Entries
    BY EntryType
  <1>2. row' = [row EXCEPT ![t0][p0] = object]
    BY DEF set
  <1>3. object # None
    BY NoneIsNoObject
  <1>4. CASE e \in EntriesOf(t0, object)
    <2>1. p = p0
      BY <1>1, <1>4 DEF set
    <2>2. t = t0 /\ key = object[i]
      BY <1>4, EntryInjective DEF EntriesOf
    <2> QED
      BY <1>2, <1>3, <2>1, <2>2 DEF TypeOK
  <1>5. CASE e \notin EntriesOf(t0, object)
    <2>1. e \notin OldEntries(t0, p0, object) /\ p = secondary[e]
      BY <1>1, <1>5 DEF set
    <2>2. row[t][p] # None /\ row[t][p][i] = key
      BY <2>1 DEF IndexSound, has_row
    <2>3. ~(t = t0 /\ p = p0)
      <3> SUFFICES ASSUME t = t0, p = p0 PROVE FALSE
        OBVIOUS
      <3>1. object[i] # key
        BY <1>5 DEF EntriesOf
      <3>2. e \in OldEntries(t0, p0, object)
        BY <2>2, <3>1 DEF OldEntries, has_row
      <3> QED
        BY <2>1, <3>2
    <2>4. row'[t][p] = row[t][p]
      BY <1>1, <1>2, <2>1, <2>3 DEF TypeOK
    <2> QED
      BY <2>2, <2>4
  <1> QED
    BY <1>4, <1>5

LEMMA DelSound ==
    ASSUME StemsApart, DeletesStored, TypeOK, IndexSound,
           NEW t0 \in Tables, NEW p0 \in PrimaryKeys, NEW object \in Object,
           del(t0, p0, object)
    PROVE  IndexSound'
  <1> SUFFICES ASSUME NEW t \in Tables, NEW i \in Indices, NEW key \in SecondaryKeys,
                      secondary'[Entry(t, i, key)] # None
               PROVE  /\ row'[t][secondary'[Entry(t, i, key)]] # None
                      /\ row'[t][secondary'[Entry(t, i, key)]][i] = key
    BY DEF IndexSound, has_row
  <1> DEFINE e == Entry(t, i, key)
             p == secondary'[e]
  <1>1. e \in Entries
    BY EntryType
  <1>2. e \notin EntriesOf(t0, object) /\ p = secondary[e]
    BY <1>1 DEF del
  <1>3. row[t][p] # None /\ row[t][p][i] = key
    BY <1>2 DEF IndexSound, has_row
  <1>4. row[t0][p0] = object
    BY DEF del
  <1>5. ~(t = t0 /\ p = p0)
    BY <1>2, <1>3, <1>4 DEF EntriesOf
  <1>6. row'[t][p] = row[t][p]
    BY <1>1, <1>2, <1>5 DEF TypeOK, del
  <1> QED
    BY <1>3, <1>6

LEMMA InitSound == Init => IndexSound
  BY EntryType DEF Init, IndexSound

LEMMA NextSound ==
    ASSUME StemsApart, DeletesStored
    PROVE  TypeOK /\ IndexSound /\ [Next]_vars => IndexSound'
  <1> SUFFICES ASSUME TypeOK, IndexSound, [Next]_vars PROVE IndexSound'
    OBVIOUS
  <1>1. CASE UNCHANGED vars
    BY <1>1 DEF vars, IndexSound, has_row
  <1> QED
    BY <1>1, SetSound, DelSound DEF Next

(* A lookup by index never returns an object with another key, whether or    *)
(* not the contract keeps secondary keys unique, as long as it deletes the   *)
(* objects it has read and its table names differ before their low 4 bits.   *)
THEOREM LookupsAreSound ==
    ASSUME StemsApart, DeletesStored
    PROVE  Spec => []IndexSound
  <1>1. TypeOK /\ IndexSound /\ [Next]_vars => IndexSound'
    BY NextSound
  <1> QED
    BY <1>1, InitSound, TypeCorrect, PTL DEF Spec

-----------------------------------------------------------------------------
(* Completeness of the indices *)

(* What completeness says of the entries themselves. *)
Indexed ==
    \A t \in Tables, p \in PrimaryKeys, i \in Indices :
        row[t][p] # None => secondary[Entry(t, i, row[t][p][i])] = p

LEMMA IndexedIsComplete == TypeOK => (Indexed <=> IndexComplete)
  BY NoneAssumption DEF Indexed, IndexComplete, get_by_index, has_row, TypeOK

LEMMA SetIndexed ==
    ASSUME StemsApart, ChecksKeys, TypeOK, IndexSound, Indexed,
           NEW t0 \in Tables, NEW p0 \in PrimaryKeys, NEW object \in Object,
           set(t0, p0, object)
    PROVE  Indexed'
  <1> SUFFICES ASSUME NEW t \in Tables, NEW p \in PrimaryKeys, NEW i \in Indices,
                      row'[t][p] # None
               PROVE  secondary'[Entry(t, i, row'[t][p][i])] = p
    BY DEF Indexed
  <1> DEFINE key == row'[t][p][i]
             e == Entry(t, i, key)
  <1>1. row' = [row EXCEPT ![t0][p0] = object]
    BY DEF set
  <1>2. CASE t = t0 /\ p = p0
    <2>1. row'[t][p] = object /\ key = object[i]
      BY <1>1, <1>2 DEF TypeOK
    <2>2. key \in SecondaryKeys
      BY <2>1 DEF Object
    <2>3. e \in Entries /\ e \in EntriesOf(t0, object)
      BY <1>2, <2>1, <2>2, EntryType DEF EntriesOf
    <2> QED
      BY <1>2, <2>3 DEF set
  <1>3. CASE ~(t = t0 /\ p = p0)
    <2>1. row'[t][p] = row[t][p]
      BY <1>1, <1>3 DEF TypeOK
    <2>2. row[t][p] \in Object
      BY <2>1 DEF TypeOK
    <2>3. e \in Entries /\ key = row[t][p][i] /\ key \in SecondaryKeys
      BY <2>1, <2>2, EntryType DEF Object
    <2>4. secondary[e] = p
      BY <2>1, <2>3 DEF Indexed
    <2>5. e \notin EntriesOf(t0, object)
      <3> SUFFICES ASSUME NEW j \in Indices, e = Entry(t0, j, object[j]) PROVE FALSE
        BY DEF EntriesOf
      <3>1. t = t0 /\ i = j /\ key = object[i]
        BY EntryInjective
      <3>2. get_by_index(t, i, object[i]) = p
        BY <2>1, <2>4, <3>1, NoneAssumption DEF get_by_index, has_row
      <3>3. p \in {None, p0}
        BY <3>1, <3>2 DEF set, KeysChecked
      <3> QED
        BY <1>3, <3>1, <3>3, NoneAssumption
    <2>6. e \notin OldEntries(t0, p0, object)
      <3> SUFFICES ASSUME has_row(t0, p0), NEW j \in Indices,
                          e = Entry(t0, j, row[t0][p0][j])
                   PROVE  FALSE
        BY DEF OldEntries
      <3>1. t = t0 /\ i = j
        BY EntryInjective
      <3>2. secondary[e] = p0
        BY DEF Indexed, has_row
      <3> QED
        BY <1>3, <2>4, <3>1, <3>2
    <2> QED
      BY <2>3, <2>4, <2>5, <2>6 DEF set
  <1> QED
    BY <1>2, <1>3

LEMMA DelIndexed ==
    ASSUME StemsApart, DeletesStored, TypeOK, Indexed,
           NEW t0 \in Tables, NEW p0 \in PrimaryKeys, NEW object \in Object,
           del(t0, p0, object)
    PROVE  Indexed'
  <1> SUFFICES ASSUME NEW t \in Tables, NEW p \in PrimaryKeys, NEW i \in Indices,
                      row'[t][p] # None
               PROVE  secondary'[Entry(t, i, row'[t][p][i])] = p
    BY DEF Indexed
  <1>1. ~(t = t0 /\ p = p0) /\ row'[t][p] = row[t][p]
    BY DEF del, TypeOK
  <1>2. row[t][p] \in Object
    BY <1>1 DEF TypeOK
  <1> DEFINE key == row[t][p][i]
             e == Entry(t, i, key)
  <1>3. e \in Entries /\ key \in SecondaryKeys
    BY <1>2, EntryType DEF Object
  <1>4. secondary[e] = p
    BY <1>1 DEF Indexed
  <1>5. e \notin EntriesOf(t0, object)
    <2> SUFFICES ASSUME NEW j \in Indices, e = Entry(t0, j, object[j]) PROVE FALSE
      BY DEF EntriesOf
    <2>1. t = t0 /\ i = j
      BY EntryInjective
    <2>2. row[t0][p0] = object /\ row[t0][p0] # None
      BY NoneIsNoObject DEF del
    <2>3. secondary[e] = p0
      BY <2>2 DEF Indexed
    <2> QED
      BY <1>1, <1>4, <2>1, <2>3
  <1> QED
    BY <1>1, <1>3, <1>4, <1>5 DEF del

LEMMA InitIndexed == Init => Indexed
  BY DEF Init, Indexed

LEMMA NextIndexed ==
    ASSUME StemsApart, DeletesStored, ChecksKeys
    PROVE  TypeOK /\ IndexSound /\ Indexed /\ [Next]_vars => Indexed'
  <1> SUFFICES ASSUME TypeOK, IndexSound, Indexed, [Next]_vars PROVE Indexed'
    OBVIOUS
  <1>1. CASE UNCHANGED vars
    BY <1>1 DEF vars, Indexed
  <1> QED
    BY <1>1, SetIndexed, DelIndexed DEF Next

(* When the contract looks its secondary keys up before it stores a row,     *)
(* every row stays reachable by each of its keys.                            *)
THEOREM LookupsAreComplete ==
    ASSUME StemsApart, DeletesStored, ChecksKeys
    PROVE  Spec => []IndexComplete
  <1>1. TypeOK /\ IndexSound /\ Indexed /\ [Next]_vars => Indexed'
    BY NextIndexed
  <1>2. Spec => []IndexSound
    BY LookupsAreSound
  <1> QED
    BY <1>1, <1>2, InitIndexed, IndexedIsComplete, TypeCorrect, PTL DEF Spec

(* A step changes the answer of no lookup but those by keys of the row it    *)
(* stores or deletes (db.hpp:186-201, 215-220).  What the lookup found is    *)
(* sound before the step, and found again by the same key after it.          *)
THEOREM OthersStayFound ==
    ASSUME StemsApart, DeletesStored, ChecksKeys
    PROVE  Spec => OtherLookupsKept
  <1> DEFINE Kept(t, i, key) ==
                 LET p == get_by_index(t, i, key) IN
                 (p # None /\ row'[t][p] = row[t][p]) => get_by_index(t, i, key)' = p
  <1>1. ASSUME TypeOK, IndexSound, IndexComplete', [Next]_vars
        PROVE  [\A t \in Tables, i \in Indices, key \in SecondaryKeys : Kept(t, i, key)]_vars
    <2> SUFFICES ASSUME NEW t \in Tables, NEW i \in Indices, NEW key \in SecondaryKeys
                 PROVE  Kept(t, i, key)
      OBVIOUS
    <2>1. PICK p : p = get_by_index(t, i, key)
      OBVIOUS
    <2> SUFFICES ASSUME p # None, row'[t][p] = row[t][p]
                 PROVE  get_by_index(t, i, key)' = p
      BY <2>1
    <2>2. p = secondary[Entry(t, i, key)] /\ row[t][p] # None
      BY <2>1 DEF get_by_index, has_row
    <2>3. row[t][p][i] = key
      BY <1>1, <2>2 DEF IndexSound
    <2>4. p \in PrimaryKeys
      <3>1. Entry(t, i, key) \in Entries
        BY DEF Entries
      <3> QED
        BY <1>1, <2>2, <3>1 DEF TypeOK
    <2>5. row'[t][p] # None /\ row'[t][p][i] = key
      BY <2>2, <2>3
    <2> QED
      BY <1>1, <2>4, <2>5 DEF IndexComplete, has_row
  <1> QED
    BY <1>1, TypeCorrect, LookupsAreSound, LookupsAreComplete, PTL DEF Spec, OtherLookupsKept
=============================================================================
