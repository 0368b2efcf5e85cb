----------------------------- MODULE MCListWalk -----------------------------
(***************************************************************************)
(* Small instances of ListWalk.                                            *)
(***************************************************************************)
EXTENDS ListWalk

\* Five objects of one group, all on one cluster; ids and global_uids run in
\* opposite directions.  Objects 1, 2 live in namespace 1, the others in 2.
ARow(id, version, plural, namespace, name, composition, created, updated,
     deleted) ==
  [c \in Column |->
     CASE c = "id" -> id
       [] c = "global_uid" -> 6 - id
       [] c = "resource_group" -> 1
       [] c = "resource_version" -> version
       [] c = "resource_plural" -> plural
       [] c = "namespace" -> namespace
       [] c = "resource_name" -> name
       [] c = "cluster_name" -> 1
       [] c = "composition_id" -> composition
       [] c = "labels" -> 0
       [] c = "created_at" -> created
       [] c = "updated_at" -> updated
       [] c = "deleted_at" -> deleted]

Row1 == ARow(1, 1, 1, 1, 2, 1, 1, 1, NULL)
Row2 == ARow(2, 1, 1, 1, 1, NULL, 2, 2, NULL)
Row3 == ARow(3, 1, 1, 2, 3, NULL, 2, 3, NULL)
Row4 == ARow(4, 1, 1, 2, 2, 1, 3, 3, NULL)
\* A row of another resource in the same group, and one already deleted.
Row5 == ARow(5, 1, 2, 2, 1, 2, 3, 3, NULL)
Row5Gone == ARow(5, 1, 2, 2, 1, 2, 3, 4, 4)

\* Upserts: a later updated_at alone, with another version, with another
\* composition, with a soft deletion.
Row1Touched == ARow(1, 1, 1, 1, 2, 1, 1, 4, NULL)
Row1Upgraded == ARow(1, 2, 1, 1, 2, 1, 1, 5, NULL)
Row2Adopted == ARow(2, 1, 1, 1, 1, 2, 2, 4, NULL)
Row3Deleted == ARow(3, 1, 1, 2, 3, NULL, 2, 5, 5)
Row4Touched == ARow(4, 1, 1, 2, 2, 1, 3, 6, NULL)

MCRow == {Row1, Row2, Row3, Row4, Row5, Row5Gone, Row1Touched, Row1Upgraded,
          Row2Adopted, Row3Deleted, Row4Touched}

MCTables == {{Row1, Row2, Row3, Row5Gone}, {Row1, Row2, Row3, Row4, Row5}}

\* All namespaces, one resource.
ListOf(plural, s, o) ==
  [ResourceGroup |-> 1, ResourceVersion |-> 0, ResourcePlural |-> plural,
   Cluster |-> 0, Namespace |-> 0, CompositionID |-> 0, Name |-> 0,
   NameContains |-> NULL, Labels |-> NULL, Since |-> NULL,
   SortBy |-> s, SortOrder |-> o, Limit |-> NULL]

AllSorts == {ListOf(1, s, o) : s \in SortBy, o \in SortOrder}

DescendingComposition == {ListOf(1, "composition_id", "desc")}

\* Every sort but the one whose cursor condition breaks the WHERE clause.
SoundSorts == AllSorts \ DescendingComposition

\* Default and explicit spelling of one sort, and two others to switch to.
SomeSorts == {ListOf(1, "", ""), ListOf(1, "resource", "asc"),
              ListOf(1, "created_at", ""), ListOf(1, "resource", "desc")}

\* One list per filter, on top of the resource filter, under two sorts.
FilteredLists ==
  {[ListOf(1, "", "") EXCEPT !.ResourceVersion = 1],
   [ListOf(1, "updated_at", "asc") EXCEPT !.Since = 2],
   [ListOf(1, "composition_id", "") EXCEPT !.Namespace = 2],
   [ListOf(0, "composition_id", "asc") EXCEPT !.CompositionID = 2],
   [ListOf(0, "created_at", "") EXCEPT !.NameContains = {1, 2}],
   [ListOf(0, "global_uid", "") EXCEPT !.Name = 1],
   [ListOf(0, "resource", "desc") EXCEPT !.Labels = {0}],
   [ListOf(1, "resource", "") EXCEPT !.Cluster = 1]}

ScopeLists == FilteredLists \union SomeSorts

OneSort == {ListOf(1, "updated_at", "")}

=============================================================================
