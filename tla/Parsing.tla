------------------------------ MODULE Parsing ------------------------------
(***************************************************************************)
(* Request parsing (internal/handlers): the query string of GET /resources *)
(* and the JSON body of POST /resources each become a ListParams, and the  *)
(* body of POST /can-i a list of checks.  Everything here is a pure        *)
(* operator but the client at the end, who edits one request.  A request   *)
(* stands for both methods: it says what is in each field, whichever way   *)
(* the field is sent.                                                      *)
(***************************************************************************)
EXTENDS Keyset

CONSTANTS
  UNSET,        \* a field left out (in a query string, also an empty one)
  nullWord,     \* the word null: a text in a query string, null in JSON
  MALFORMED,    \* a value without the format or the JSON type of its field
  DefaultText,  \* the rank of "default"
  StarText,     \* the rank of "*"
  NullText,     \* the rank of the text "null"
  NullPattern,  \* the names that contain "null"
  LongText,     \* ranks of texts over maxStringParamLen
  Filter,       \* what a name_contains, or labels, may accept: sets of ranks
  LongFilter,   \* those whose text, as it is sent, is over the limit
  LongLabels,   \* labels whose text is over the limit once marshalled again
  Token,        \* cursors that decode, whoever made them
  maxChecks,    \* 5000 in the code
  Rows,         \* the rows of the table to ask for
  Values,       \* the values a client may put into each field
  CanIChecks,   \* the checks a client may put into a body of /can-i
  MaxEdits      \* bound on the fields of one request that are set

defaultLimit == 100
maxLimit == 5000

-----------------------------------------------------------------------------
(* Raw requests.  The values of name_contains and labels are the ranks     *)
(* that they accept.                                                       *)

TextParam == {"group", "version", "resource", "cluster", "namespace", "name"}

Param == TextParam \union
  {"name_contains", "composition_id", "labels", "since", "raw", "status_raw",
   "sort_by", "sort_order", "limit", "cursor"}

Proper(f) ==
  CASE f \in TextParam \union {"composition_id"} -> Nat \ {0}
    [] f \in {"name_contains", "labels"} -> Filter
    [] f = "since" -> Nat
    [] f \in {"raw", "status_raw"} -> BOOLEAN
    [] f = "sort_by" -> SortBy
    [] f = "sort_order" -> SortOrder
    [] f = "limit" -> Int
    [] f = "cursor" -> Token

\* Any text will do for a name.
MayBeMalformed == Param \ (TextParam \union {"name_contains"})

IsRequest(q) ==
  /\ DOMAIN q = Param
  /\ \A f \in Param : \/ q[f] \in {UNSET, nullWord}
                      \/ q[f] \in Proper(f)
                      \/ f \in MayBeMalformed /\ q[f] = MALFORMED

\* The body {"group": ...} of a JSON request with no other field.
Bare(g) == [f \in Param |-> IF f = "group" THEN g ELSE UNSET]

canICheck == [Verb : STRING, Group : Nat, Resource : Nat, Namespace : Nat]

ASSUME WordAssumption ==
  /\ UNSET # nullWord /\ UNSET # MALFORMED /\ nullWord # MALFORMED
  /\ \A f \in Param :
       {UNSET, nullWord, MALFORMED} \intersect Proper(f) = {}
ASSUME TextAssumption ==
  /\ DefaultText \in Nat \ {0}
  /\ StarText \in Nat \ {0}
  /\ NullText \in Nat \ {0}
  /\ StarText # DefaultText /\ StarText # NullText
  /\ Filter \subseteq SUBSET Nat /\ NullPattern \in Filter
  /\ NULL \notin Filter
  /\ DefaultText \notin LongText
\* A cursor that decodes is a JSON object with some of the fields; those of
\* SortBy and id count as written, with a zero value, if they are not.
ASSUME TokenAssumption ==
  \A t \in Token : /\ {"SortBy", "id"} \subseteq DOMAIN t
                   /\ DOMAIN t \subseteq CursorField
ASSUME LongAssumption == LongFilter \union LongLabels \subseteq Filter
ASSUME RowsAssumption == \A r \in Rows : IsRow(r)
ASSUME ChecksAssumption ==
  maxChecks \in Nat \ {0} /\ CanIChecks \subseteq canICheck
ASSUME ValuesAssumption ==
  /\ MaxEdits \in Nat
  /\ 1 \in Values["group"]
  /\ \A f \in Param : \A v \in Values[f] : IsRequest([Bare(1) EXCEPT ![f] = v])

\* A field of the query string: the word null is a text, and means `null`.
QueryValue(v, zero, null) ==
  CASE v = UNSET -> zero
    [] v = nullWord -> null
    [] OTHER -> v

\* A field of the JSON payload: null leaves the zero value.
PayloadValue(v, zero) == IF v \in {UNSET, nullWord} THEN zero ELSE v

-----------------------------------------------------------------------------
(* The rules that both parsers share.  An error is the result Rejected.    *)

Rejected == << >>

\* Variant: no namespace is all namespaces.
normalizeNamespace_All(ns) == IF ns = StarText THEN 0 ELSE ns

normalizeNamespace(ns) ==
  CASE ns = 0 -> DefaultText
    [] ns = StarText -> 0
    [] OTHER -> ns

\* Variant: a limit of 0 is let through.
validateLimit_Zero(n) == n >= 0 /\ n <= maxLimit

validateLimit(n) == n > 0 /\ n <= maxLimit

\* Of a *int, nil when the field is left out or null.
parseLimitPtr(v) ==
  IF v \in {UNSET, nullWord}
    THEN defaultLimit
    ELSE IF v # MALFORMED /\ validateLimit(v) THEN v ELSE MALFORMED

\* Variant: the word null is no number.
parseLimit_NoNull(v) == IF v = nullWord THEN MALFORMED ELSE parseLimitPtr(v)

\* Of a text; Atoi fails on a malformed one.
parseLimit(v) == parseLimitPtr(v)

\* Labels are measured as sent (GET) or as marshalled again (POST).
TooLong(p, longLabels) ==
  \/ {p.ResourceGroup, p.ResourceVersion, p.ResourcePlural, p.Cluster,
      p.Namespace, p.Name} \intersect LongText # {}
  \/ p.NameContains \in LongFilter
  \/ p.Labels \in longLabels

validateListParams(p, longLabels) ==
  /\ ~TooLong(p, longLabels)
  /\ p.CompositionID # MALFORMED
  /\ p.Name = 0 \/ p.NameContains = NULL
  /\ p.SortBy \in SortBy \union {""}
  /\ p.SortOrder \in SortOrder \union {""}
  /\ p.Cursor # MALFORMED

Validated(p, longLabels) ==
  IF /\ p.ResourceGroup # 0
     /\ p.Limit # MALFORMED /\ p.Labels # MALFORMED /\ p.Since # MALFORMED
     /\ validateListParams(p, longLabels)
    THEN p
    ELSE Rejected

-----------------------------------------------------------------------------
(* The parsers.                                                            *)

ParamsOfQuery(q) ==
  LET text(f) == QueryValue(q[f], 0, NullText)
  IN [ResourceGroup |-> text("group"), ResourceVersion |-> text("version"),
      ResourcePlural |-> text("resource"), Cluster |-> text("cluster"),
      Namespace |-> normalizeNamespace(text("namespace")),
      CompositionID |-> QueryValue(q["composition_id"], 0, MALFORMED),
      Name |-> text("name"),
      NameContains |-> QueryValue(q["name_contains"], NULL, NullPattern),
      Labels |-> QueryValue(q["labels"], NULL, {}),
      Since |-> QueryValue(q["since"], NULL, MALFORMED),
      Raw |-> q["raw"] = TRUE,
      StatusRaw |-> q["status_raw"] = TRUE,
      SortBy |-> QueryValue(q["sort_by"], "", MALFORMED),
      SortOrder |-> QueryValue(q["sort_order"], "", MALFORMED),
      Limit |-> parseLimit(q["limit"]),
      Cursor |-> QueryValue(q["cursor"], NoCursor, MALFORMED)]

parseListParams(q) == Validated(ParamsOfQuery(q), LongFilter)

\* The body decodes: one object of at most maxBodySize bytes, no unknown
\* field, every value of the type of its field.
Decodes(q, oneObject) ==
  /\ oneObject
  /\ \A f \in {"labels", "since", "raw", "status_raw", "limit"} :
       q[f] # MALFORMED

derefBool(v, def) == PayloadValue(v, def)

ParamsOfPayload(q) ==
  LET text(f) == PayloadValue(q[f], 0)
  IN [ResourceGroup |-> text("group"), ResourceVersion |-> text("version"),
      ResourcePlural |-> text("resource"), Cluster |-> text("cluster"),
      Namespace |-> normalizeNamespace(text("namespace")),
      CompositionID |-> text("composition_id"), Name |-> text("name"),
      NameContains |-> PayloadValue(q["name_contains"], NULL),
      Labels |-> PayloadValue(q["labels"], NULL),
      Since |-> PayloadValue(q["since"], NULL),
      Raw |-> derefBool(q["raw"], FALSE),
      StatusRaw |-> derefBool(q["status_raw"], FALSE),
      SortBy |-> PayloadValue(q["sort_by"], ""),
      SortOrder |-> PayloadValue(q["sort_order"], ""),
      Limit |-> parseLimitPtr(q["limit"]),
      Cursor |-> PayloadValue(q["cursor"], NoCursor)]

parseListParamsJSON(q, oneObject) ==
  IF Decodes(q, oneObject)
    THEN Validated(ParamsOfPayload(q), LongLabels)
    ELSE Rejected

kubeVerbs == {"get", "list", "watch", "create", "update", "patch", "delete",
              "deletecollection"}

\* Variant: only the first check is looked at.
parseCanIJSON_First(c, oneObject) ==
  IF /\ oneObject
     /\ c # << >> /\ Len(c) <= maxChecks
     /\ c[1].Verb \in kubeVerbs /\ c[1].Resource # 0
    THEN c
    ELSE Rejected

parseCanIJSON(c, oneObject) ==
  IF /\ oneObject
     /\ c # << >> /\ Len(c) <= maxChecks
     /\ \A i \in DOMAIN c :
          /\ c[i].Verb \in kubeVerbs
          /\ c[i].Resource # 0
          /\ {c[i].Group, c[i].Resource, c[i].Namespace}
               \intersect LongText = {}
    THEN c
    ELSE Rejected

-----------------------------------------------------------------------------
(* A client tries one request after another.                               *)

VARIABLES
  sent,       \* the fields of a list request
  oneObject,  \* whether a body is one JSON object of known fields
  checks      \* the checks of a can-i request

vars == <<sent, oneObject, checks>>

TypeOK ==
  /\ IsRequest(sent)
  /\ oneObject \in BOOLEAN
  /\ checks \in Seq(canICheck)

Init ==
  /\ sent = Bare(1)
  /\ oneObject \in BOOLEAN
  /\ checks = << >>

Edited == {f \in Param : sent[f] # Bare(1)[f]}

Edit(f) ==
  /\ Cardinality(Edited \union {f}) <= MaxEdits
  /\ checks = << >>
  /\ \E v \in Values[f] : sent' = [sent EXCEPT ![f] = v]
  /\ UNCHANGED <<oneObject, checks>>

AddCheck ==
  /\ sent = Bare(1)
  /\ Len(checks) <= maxChecks
  /\ \E c \in CanIChecks : checks' = Append(checks, c)
  /\ UNCHANGED <<sent, oneObject>>

StartAgain ==
  /\ sent' = Bare(1)
  /\ checks' = << >>
  /\ UNCHANGED oneObject

Next == (\E f \in Param : Edit(f)) \/ AddCheck \/ StartAgain

Spec == Init /\ [][Next]_vars

-----------------------------------------------------------------------------
(* Properties.                                                             *)

ListField ==
  {"ResourceGroup", "ResourceVersion", "ResourcePlural", "Cluster",
   "Namespace", "CompositionID", "Name", "NameContains", "Labels", "Since",
   "SortBy", "SortOrder", "Limit"}

\* The part of the parameters that the queries are built from.
Listable(p) == [f \in ListField |-> p[f]]

ByGet == parseListParams(sent)
ByPost == parseListParamsJSON(sent, oneObject)

\* The tokens that the server may have handed out for the rows.
ServerToken == TokensOf(Rows)

\* The query with the cursor of these parameters follows a nil pointer: the
\* cursor passes for one of the request's sort without the field of it.
QueryPanics(p) ==
  /\ p.Cursor # NoCursor
  /\ validateCursorSort(DecodeCursor(p.Cursor), SortByOf(p), SortOrderOf(p))
  /\ cursorPanics(SortByOf(p), DecodeCursor(p.Cursor))

\* Whatever is sent, the parameters that get past the parsers are such as
\* the queries of the list handler take for granted (ListWalk): a group, a
\* limit from 1 to maxLimit, no malformed value, and never the literal "*",
\* which no row has for its namespace.  The cursor decodes, and no cursor
\* that the server made, of whatever sort and row, makes the query panic.
\* (Others may: ValidateCursor does not look at the fields.)
AcceptedIsListable ==
  \A p \in {ByGet, ByPost} \ {Rejected} :
    /\ Listable(p) \in ListParams
    /\ p.ResourceGroup # 0
    /\ p.Limit \in 1..maxLimit
    /\ p.Namespace # StarText
    /\ p.Name # 0 => p.NameContains = NULL
    /\ p.Cursor \in Token \union {NoCursor}
    /\ p.Cursor \in ServerToken => ~QueryPanics(p)

\* The same fields mean the same to GET and to POST: the two parsers, written
\* apart, give equal parameters or both refuse.  This leaves out the word
\* null in a field where it is a text or no value at all for GET, a raw flag
\* that is not a JSON boolean (false for GET), labels whose text passes the
\* limit on its length only as sent or only as POST marshals it again, and
\* bodies of a wrong shape.
GetAndPostAgree ==
  (/\ oneObject
   /\ \A f \in Param \ {"raw", "status_raw", "limit"} : sent[f] # nullWord
   /\ MALFORMED # sent["raw"] /\ MALFORMED # sent["status_raw"]
   /\ sent["labels"] \in LongFilter <=> sent["labels"] \in LongLabels)
  => ByGet = ByPost

\* What a request asks of a row, field by field (docs/SEARCH.md).
Asks(q, r) ==
  LET given(f) == q[f] \notin {UNSET, nullWord}
  IN /\ r["deleted_at"] = NULL
     /\ r["resource_group"] = q["group"]
     /\ given("version") => r["resource_version"] = q["version"]
     /\ given("resource") => r["resource_plural"] = q["resource"]
     /\ given("cluster") => r["cluster_name"] = q["cluster"]
     /\ \/ given("namespace") /\ r["namespace"] = q["namespace"]
        \/ ~given("namespace") /\ r["namespace"] = DefaultText
        \/ q["namespace"] = StarText
     /\ given("composition_id") => r["composition_id"] = q["composition_id"]
     /\ given("name") => r["resource_name"] = q["name"]
     /\ given("name_contains") => r["resource_name"] \in q["name_contains"]
     /\ given("labels") => r["labels"] \in q["labels"]
     /\ given("since") => r["updated_at"] >= q["since"]

\* Both queries of the list handler take row r.
Selects(p, r) ==
  DiscoverWhere(p, r) /\ ListSelects(p, {TargetOf(r)}, NoCursor, r)

\* Parsing and querying taken together do what docs/SEARCH.md says of the
\* fields: a row is discovered and selected by the accepted parameters if
\* and only if the request asks for it.  (The word null apart, see
\* GetAndPostAgree.)
SelectedIfAsked ==
  (\A f \in Param \ {"raw", "status_raw", "limit"} : sent[f] # nullWord) =>
    \A p \in {ByGet, ByPost} \ {Rejected} : \A r \in Rows :
      Selects(p, r) <=> Asks(sent, r)

\* One bad check, wherever it stands, refuses a can-i request, and nothing
\* but the number of its checks refuses a request of good ones.
BatchIsItsChecks ==
  (parseCanIJSON(checks, oneObject) # Rejected)
  <=> /\ Len(checks) \in 1..maxChecks
      /\ \A i \in DOMAIN checks :
           parseCanIJSON(<<checks[i]>>, oneObject) = <<checks[i]>>

=============================================================================
