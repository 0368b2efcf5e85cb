------------------------------ MODULE MCKeyset ------------------------------
(***************************************************************************)
(* Every pair of rows of a small universe under every sort.                *)
(***************************************************************************)
EXTENDS KeysetOrder

\* Small ranks, with ties in every column but id; rank 0 is the empty text.
SmallRow ==
  {[c \in Column |->
      CASE c = "id" -> i
        [] c = "global_uid" -> 3 - i
        [] c = "resource_group" -> g
        [] c = "resource_name" -> n
        [] c = "composition_id" -> k
        [] c = "created_at" -> t
        [] c = "updated_at" -> 1 - t
        [] c = "deleted_at" -> NULL
        [] OTHER -> 1] :
     i \in 0..2, g \in {0, 1}, n \in {0, 1}, k \in {NULL, 1, 2}, t \in {0, 1}}

=============================================================================
