------------------------------ MODULE MCAccess ------------------------------
(***************************************************************************)
(* A small instance of Access.                                             *)
(***************************************************************************)
EXTENDS Access, SequencesExt

\* Objects 1 and 2 live in namespace 1; object 3 is cluster-scoped.
ARow(id, namespace, name, updated, deleted) ==
  [c \in Column |->
     CASE c = "id" -> id
       [] c = "global_uid" -> 4 - id
       [] c = "namespace" -> namespace
       [] c = "resource_name" -> name
       [] c = "updated_at" -> updated
       [] c = "deleted_at" -> deleted
       [] c = "labels" -> 0
       [] OTHER -> 1]

Row1 == ARow(1, 1, 2, 1, NULL)
Row2 == ARow(2, 1, 1, 2, NULL)
Row3 == ARow(3, 0, 1, 1, NULL)
Row1Touched == ARow(1, 1, 2, 3, NULL)
Row1Deleted == ARow(1, 1, 2, 3, 3)
Row3Deleted == ARow(3, 0, 1, 3, 3)

MCRow == {Row1, Row2, Row3, Row1Touched, Row1Deleted, Row3Deleted}

MCTables == {{Row1, Row3}, {Row2, Row3Deleted}}

AList(namespace, name, limit) ==
  [ResourceGroup |-> 1, ResourceVersion |-> 0, ResourcePlural |-> 1,
   Cluster |-> 0, Namespace |-> namespace, CompositionID |-> 0, Name |-> name,
   NameContains |-> NULL, Labels |-> NULL, Since |-> NULL,
   SortBy |-> "", SortOrder |-> "", Limit |-> limit]

\* All namespaces; one of them, by name.
MCLists == {AList(0, 0, 2), AList(1, 2, 1)}

MCListRequests == {SetToSeq(S) : S \in SUBSET {Target(r) : r \in MCRow}}

MCGroupResource == {<<1, 1>>}

=============================================================================
