------------------------------- MODULE BpfMap -------------------------------
(***************************************************************************)
(* The kernel's hash maps as the eBPF programs use them: a function from     *)
(* the keys present to their values, with a limit on the number of keys.     *)
(***************************************************************************)
EXTENDS Naturals, FiniteSets

EmptyMap == [k \in {} |-> 0]

Put(map, key, value) ==
  [k \in DOMAIN map \cup {key} |-> IF k = key THEN value ELSE map[k]]

(* Faulty variants of Update: no limit; and BPF_NOEXIST in place of BPF_ANY. *)
UpdateUnlimited(map, max, key, value) == Put(map, key, value)
UpdateNew(map, max, key, value) ==
  IF key \notin DOMAIN map /\ Cardinality(DOMAIN map) < max
  THEN Put(map, key, value) ELSE map

(* bpf_map_update_elem with BPF_ANY.  A new key needs room; no program looks *)
(* at the result, so without room nothing happens.                          *)
Update(map, max, key, value) ==
  IF key \in DOMAIN map \/ Cardinality(DOMAIN map) < max
  THEN Put(map, key, value) ELSE map

(* bpf_map_delete_elem. *)
Delete(map, key) == [k \in DOMAIN map \ {key} |-> map[k]]
=============================================================================
