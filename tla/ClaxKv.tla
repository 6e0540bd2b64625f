------------------------------- MODULE ClaxKv -------------------------------
(***************************************************************************)
(* The key-value list of clax_util.c: items in the order they were pushed, *)
(* with any number of items of one key.                                    *)
(***************************************************************************)
EXTENDS Naturals, Sequences

Item(k, v) == [key |-> k, val |-> v]

clax_kv_list_push(list, k, v) == Append(list, Item(k, v))

\* i is the place of the first item with the key k.
IsFirst(list, k, i) == list[i].key = k /\ \A j \in 1..(i - 1) : list[j].key # k

Has(list, k) == \E i \in DOMAIN list : list[i].key = k

clax_kv_list_find_item(list, k) == CHOOSE i \in DOMAIN list : IsFirst(list, k, i)

\* Variant: the item pushed last is set.
set_last(list, k, v) ==
  IF Has(list, k) THEN [list EXCEPT ![Len(list)].val = v] ELSE clax_kv_list_push(list, k, v)

\* Variant: a key that is there already keeps its value.
set_once(list, k, v) == IF Has(list, k) THEN list ELSE clax_kv_list_push(list, k, v)

\* The first item with the key is set, or a new one pushed.
clax_kv_list_set(list, k, v) ==
  IF Has(list, k) THEN [list EXCEPT ![clax_kv_list_find_item(list, k)].val = v]
  ELSE clax_kv_list_push(list, k, v)

\* For a key the list has.
clax_kv_list_find(list, k) == list[clax_kv_list_find_item(list, k)].val

clax_kv_list_at(list, i) == list[i]
=============================================================================
