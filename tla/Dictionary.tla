---------------------------- MODULE Dictionary ----------------------------
(***************************************************************************)
(* The ordered dictionary (utils/stlutil/dictionary.go): a map, and a list *)
(* of its keys for access by index, for ForEach and for Sort.  Every       *)
(* operation holds the lock of the dictionary, so each is one step; a Sort *)
(* is a number of Less and Swap, with whatever else happens in between.    *)
(***************************************************************************)
EXTENDS Integers, Sequences, FiniteSets

CONSTANTS DictKeys, DictValues,
          MaxListed   \* bound of the model: length of _keys

ASSUME DictionaryAssumption == MaxListed \in Nat

VARIABLES keys,       \* _keys
          map,        \* _map
          headRemoved \* history: the key at index 0 has been removed

dictVars == <<keys, map, headRemoved>>

DictTypeOK ==
    /\ keys \in Seq(DictKeys)
    /\ DOMAIN map \subseteq DictKeys /\ map \in [DOMAIN map -> DictValues]
    /\ headRemoved \in BOOLEAN

DictInit ==
    /\ keys = <<>>
    /\ map = [k \in {} |-> k]
    /\ headRemoved = FALSE
-----------------------------------------------------------------------------
SetValue(k, v) == map' = [j \in DOMAIN map \cup {k} |-> IF j = k THEN v ELSE map[j]]

\* Set, and Add, which does nothing for a key that exists.
AddKey(k, v) ==
    /\ k \notin DOMAIN map /\ Len(keys) < MaxListed
    /\ keys' = Append(keys, k)
    /\ SetValue(k, v)
    /\ UNCHANGED headRemoved

Replace(k, v) ==
    /\ k \in DOMAIN map
    /\ SetValue(k, v)
    /\ UNCHANGED <<keys, headRemoved>>

\* Where the search for k stops.
Found(k) == {i \in 1 .. Len(keys) : keys[i] = k /\ \A j \in 1 .. i - 1 : keys[j] # k}

Without(s, i) == [j \in 1 .. Len(s) - 1 |-> IF j < i THEN s[j] ELSE s[j + 1]]

\* Mutant: the key before the one removed goes out of the list.
KeysWithout_before(k) ==
    IF \E i \in Found(k) : i > 1 THEN Without(keys, (CHOOSE i \in Found(k) : TRUE) - 1)
    ELSE keys

\* Index 0 counts as not found (dictionary.go:53): the first key stays listed.
KeysWithout(k) ==
    IF \E i \in Found(k) : i > 1 THEN Without(keys, CHOOSE i \in Found(k) : TRUE)
    ELSE keys

RemoveKey(k) ==
    /\ k \in DOMAIN map
    /\ map' = [j \in DOMAIN map \ {k} |-> map[j]]
    /\ keys' = KeysWithout(k)
    /\ headRemoved' = (headRemoved \/ 1 \in Found(k))

Clear ==
    /\ keys' = <<>> /\ map' = [k \in {} |-> k]
    /\ headRemoved' = FALSE

Swap(i, j) ==
    /\ keys' = [keys EXCEPT ![i] = keys[j], ![j] = keys[i]]
    /\ UNCHANGED <<map, headRemoved>>
-----------------------------------------------------------------------------
DictNext ==
    \/ \E k \in DictKeys, v \in DictValues : AddKey(k, v) \/ Replace(k, v)
    \/ \E k \in DictKeys : RemoveKey(k)
    \/ Clear
    \/ \E i, j \in 1 .. Len(keys) : Swap(i, j)

DictSpec == DictInit /\ [][DictNext]_dictVars
-----------------------------------------------------------------------------
(* Property.                                                               *)

\* Each entry is found by its index, whatever was added, removed and sorted
\* before; and as long as the key at index 0 has not been removed, each at one
\* index only and no index without an entry: GetKey, GetValue and ForEach then
\* show the map.
Enumerable ==
    /\ \A k \in DOMAIN map : \E i \in 1 .. Len(keys) : keys[i] = k
    /\ ~headRemoved =>
         \A i \in 1 .. Len(keys) :
           /\ keys[i] \in DOMAIN map
           /\ \A j \in 1 .. i - 1 : keys[j] # keys[i]
=============================================================================
