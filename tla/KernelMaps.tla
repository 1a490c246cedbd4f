-------------------------------- MODULE KernelMaps -------------------------------
(***************************************************************************)
(* The BTreeMaps of thermite-kernel as functions on the keys they hold.    *)
(***************************************************************************)

(* BTreeMap::insert: the key's old value, if any, is replaced. *)
Insert(f, key, value) ==
    [k \in DOMAIN f \cup {key} |-> IF k = key THEN value ELSE f[k]]

(* BTreeMap::remove, for each of some keys. *)
Without(f, keys) == [k \in DOMAIN f \ keys |-> f[k]]

(* Several inserts of one value. *)
Overlay(f, keys, value) ==
    [k \in DOMAIN f \cup keys |-> IF k \in keys THEN value ELSE f[k]]
=============================================================================
