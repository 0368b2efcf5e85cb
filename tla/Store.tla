------------------------------- MODULE Store -------------------------------
(***************************************************************************)
(* krateo_resources, the table that the handlers read and another service, *)
(* the ingester, writes (assets/resources.schema.sql).                     *)
(***************************************************************************)
EXTENDS Keyset

CONSTANT Row       \* every row the ingester may ever write

\* id is the primary key and global_uid is UNIQUE (assets/resources.schema.sql).
IsTable(t) ==
  /\ t \subseteq Row
  /\ \A a, b \in t : (a["id"] = b["id"] \/ a["global_uid"] = b["global_uid"])
                       => a = b

ASSUME RowAssumption == IsFiniteSet(Row) /\ \A r \in Row : IsRow(r)

Id == {r["id"] : r \in Row}

IdsOf(rows) == {r["id"] : r \in rows}

\* The ingester adds an object.  The id of a new row need not be the largest:
\* identity values are taken before the transaction commits.
IsNew(r, t) ==
  \A q \in t : q["id"] # r["id"] /\ q["global_uid"] # r["global_uid"]

\* It upserts the row of an object with a later updated_at, or soft-deletes
\* it.  Identity columns and created_at stay.
Replaces(r, q) ==
  /\ \A c \in Column \ {"resource_version", "composition_id", "labels",
                        "updated_at", "deleted_at"} : r[c] = q[c]
  /\ r["updated_at"] > q["updated_at"]

\* What the parameters ask for: every filter of the endpoint.
Matches(p, r) ==
  /\ DiscoverWhere(p, r)
  /\ p.CompositionID = 0 \/ r["composition_id"] = p.CompositionID
  /\ p.Name = 0 \/ r["resource_name"] = p.Name
  /\ p.NameContains = NULL \/ r["resource_name"] \in p.NameContains
  /\ p.Labels = NULL \/ r["labels"] \in p.Labels
  /\ p.Since = NULL \/ r["updated_at"] >= p.Since

InScope(p, t) == {r["id"] : r \in {q \in t : Matches(p, q)}}

=============================================================================
