---------------------------- MODULE OracleStores ----------------------------
(***************************************************************************)
(* The collections.Map stores of the oracle keeper.  The content of a      *)
(* store is a function whose domain is the set of the keys present, and    *)
(* << >> is the store without keys.                                        *)
(***************************************************************************)

\* f is the content of a store with keys in K and values in T.
IsStore(f, K, T) == DOMAIN f \subseteq K /\ f \in [DOMAIN f -> T]

\* collections.Map.Set.
Put(store, k, x) ==
  [i \in DOMAIN store \union {k} |-> IF i = k THEN x ELSE store[i]]

\* collections.Map.Set of every key of new.
PutAll(store, new) ==
  [i \in DOMAIN store \union DOMAIN new |-> IF i \in DOMAIN new THEN new[i] ELSE store[i]]

\* collections.Map.Remove of every key that is not in S.
Keep(store, S) == [i \in DOMAIN store \intersect S |-> store[i]]
=============================================================================
