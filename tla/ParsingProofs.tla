--------------------------- MODULE ParsingProofs ---------------------------
(***************************************************************************)
(* Theorems about Parsing for all values that a request may hold, all      *)
(* limits on lengths and batches, and any number of edits.  All parsers    *)
(* are pure, so the only invariant needed is the type of a request.        *)
(***************************************************************************)
EXTENDS Parsing, KeysetProofs

\* The words that stand for no value are no value of any field.
LEMMA WordsAreNoValues ==
  ASSUME NEW w \in {UNSET, nullWord, MALFORMED}
  PROVE  /\ w \notin Int /\ w \notin Nat /\ w \notin BOOLEAN
         /\ w \notin Filter /\ w \notin Token
         /\ w \notin SortBy /\ w \notin SortOrder
<1>1. \A f \in Param : w \notin Proper(f)
  BY WordAssumption
<1>2. w \notin Int
  BY <1>1, Proper("limit") = Int DEF Param, Proper, TextParam
<1>3. w \notin Filter
  BY <1>1, Proper("labels") = Filter DEF Param, Proper, TextParam
<1>4. w \notin BOOLEAN
  BY <1>1, Proper("raw") = BOOLEAN DEF Param, Proper, TextParam
<1>5. w \notin Token
  BY <1>1, Proper("cursor") = Token DEF Param, Proper, TextParam
<1>6. w \notin SortBy
  BY <1>1, Proper("sort_by") = SortBy DEF Param, Proper, TextParam
<1>7. w \notin SortOrder
  BY <1>1, Proper("sort_order") = SortOrder DEF Param, Proper, TextParam
<1> QED
  BY <1>2, <1>3, <1>4, <1>5, <1>6, <1>7

\* What may be in each field of a request.
LEMMA FieldValues ==
  ASSUME NEW q, IsRequest(q)
  PROVE  LET Blank == {UNSET, nullWord}
         IN /\ \A f \in TextParam : q[f] \in Blank \union (Nat \ {0})
            /\ q["composition_id"] \in Blank \union {MALFORMED}
                                         \union (Nat \ {0})
            /\ q["name_contains"] \in Blank \union Filter
            /\ q["labels"] \in Blank \union {MALFORMED} \union Filter
            /\ q["since"] \in Blank \union {MALFORMED} \union Nat
            /\ q["raw"] \in Blank \union {MALFORMED} \union BOOLEAN
            /\ q["status_raw"] \in Blank \union {MALFORMED} \union BOOLEAN
            /\ q["sort_by"] \in Blank \union {MALFORMED} \union SortBy
            /\ q["sort_order"] \in Blank \union {MALFORMED} \union SortOrder
            /\ q["limit"] \in Blank \union {MALFORMED} \union Int
            /\ q["cursor"] \in Blank \union {MALFORMED} \union Token
<1>1. \A f \in Param : \/ q[f] \in {UNSET, nullWord}
                       \/ q[f] \in Proper(f)
                       \/ f \in MayBeMalformed /\ q[f] = MALFORMED
  BY DEF IsRequest
<1>2. \A f \in TextParam : f \in Param /\ f \notin MayBeMalformed
                           /\ Proper(f) = Nat \ {0}
  BY DEF Param, MayBeMalformed, Proper, TextParam
<1>3. /\ "name_contains" \in Param /\ "name_contains" \notin MayBeMalformed
      /\ Proper("name_contains") = Filter
  BY DEF Param, MayBeMalformed, Proper, TextParam
<1>4. {"composition_id", "labels", "since", "raw", "status_raw", "sort_by",
       "sort_order", "limit", "cursor"} \subseteq Param
  BY DEF Param
<1>5. /\ Proper("composition_id") = Nat \ {0}
      /\ Proper("labels") = Filter
      /\ Proper("since") = Nat
      /\ Proper("raw") = BOOLEAN
      /\ Proper("status_raw") = BOOLEAN
      /\ Proper("sort_by") = SortBy
      /\ Proper("sort_order") = SortOrder
      /\ Proper("limit") = Int
      /\ Proper("cursor") = Token
  BY DEF Proper, TextParam
<1> HIDE DEF MayBeMalformed, Proper, Param, IsRequest
<1> QED
  BY <1>1, <1>2, <1>3, <1>4, <1>5

-----------------------------------------------------------------------------
(* Requests keep their type.                                               *)

\* A bare request is one.
LEMMA BareIsRequest == IsRequest(Bare(1))
<1>1. 1 \in Proper("group")
  BY DEF Proper, TextParam
<1> QED
  BY <1>1 DEF IsRequest, Bare

\* An edit puts a value of its field into the request.
LEMMA TypeStep == TypeOK /\ [Next]_vars => TypeOK'
<1> SUFFICES ASSUME TypeOK, [Next]_vars
             PROVE  TypeOK'
  OBVIOUS
<1> USE DEF TypeOK
<1>1. ASSUME NEW f \in Param, Edit(f)
      PROVE  TypeOK'
  <2>1. PICK v \in Values[f] : sent' = [sent EXCEPT ![f] = v]
    BY <1>1 DEF Edit
  <2>2. IsRequest([Bare(1) EXCEPT ![f] = v])
    BY ValuesAssumption
  <2>3. \/ v \in {UNSET, nullWord} \/ v \in Proper(f)
        \/ f \in MayBeMalformed /\ v = MALFORMED
    BY <2>2 DEF IsRequest, Bare
  <2>4. IsRequest(sent')
    BY <2>1, <2>3 DEF IsRequest
  <2> QED
    BY <1>1, <2>4 DEF Edit
<1>2. CASE AddCheck
  <2>1. PICK c \in CanIChecks : checks' = Append(checks, c)
    BY <1>2 DEF AddCheck
  <2>2. c \in canICheck
    BY ChecksAssumption
  <2> QED
    BY <1>2, <2>1, <2>2 DEF AddCheck
<1>3. CASE StartAgain
  <2>1. << >> \in Seq(canICheck)
    OBVIOUS
  <2> QED
    BY <1>3, <2>1, BareIsRequest DEF StartAgain
<1>4. CASE UNCHANGED vars
  BY <1>4 DEF vars
<1> QED
  BY <1>1, <1>2, <1>3, <1>4 DEF Next

(***************************************************************************)
(* The client sends only requests and checks of the right form.            *)
(***************************************************************************)
THEOREM RequestsAreTyped == Spec => []TypeOK
<1>1. Init => TypeOK
  <2>1. << >> \in Seq(canICheck)
    OBVIOUS
  <2> QED
    BY <2>1, BareIsRequest DEF Init, TypeOK
<1> QED
  BY <1>1, TypeStep, PTL DEF Spec

-----------------------------------------------------------------------------
(* A batch of checks.                                                      *)

\* The rules are about one check at a time, and about their number.
LEMMA BatchSplits ==
  ASSUME NEW c \in Seq(canICheck), NEW one \in BOOLEAN
  PROVE  (parseCanIJSON(c, one) # Rejected)
         <=> /\ Len(c) \in 1..maxChecks
             /\ \A i \in DOMAIN c : parseCanIJSON(<<c[i]>>, one) = <<c[i]>>
<1> DEFINE Good(k) == /\ k.Verb \in kubeVerbs
                      /\ k.Resource # 0
                      /\ {k.Group, k.Resource, k.Namespace}
                           \intersect LongText = {}
<1>1. maxChecks \in Nat \ {0}
  BY ChecksAssumption
<1>2. ASSUME NEW d
      PROVE  parseCanIJSON(d, one) =
               IF /\ one /\ d # << >> /\ Len(d) <= maxChecks
                  /\ \A i \in DOMAIN d : Good(d[i])
                 THEN d ELSE << >>
  BY DEF parseCanIJSON, Rejected
<1> HIDE DEF Good
<1>3. ASSUME NEW k
      PROVE  parseCanIJSON(<<k>>, one) = <<k>> <=> one /\ Good(k)
  <2> DEFINE d == <<k>>
  <2>1. d # << >> /\ Len(d) = 1 /\ DOMAIN d = {1} /\ d[1] = k
    OBVIOUS
  <2> HIDE DEF d
  <2>2. parseCanIJSON(d, one) =
          IF one /\ (\A i \in DOMAIN d : Good(d[i])) THEN d ELSE << >>
    <3>1. Len(d) <= maxChecks
      BY <1>1, <2>1
    <3> QED
      BY <1>2, <2>1, <3>1, Zenon
  <2>3. (\A i \in DOMAIN d : Good(d[i])) <=> Good(k)
    BY <2>1
  <2>4. parseCanIJSON(d, one) = d <=> one /\ Good(k)
    BY <2>1, <2>2, <2>3
  <2> QED
    BY <2>4 DEF d
<1>4. c # << >> <=> Len(c) >= 1
  OBVIOUS
<1>5. Len(c) \in Nat /\ DOMAIN c = 1..Len(c)
  OBVIOUS
<1>6. parseCanIJSON(c, one) # << >>
        <=> /\ one /\ Len(c) \in 1..maxChecks
            /\ \A i \in DOMAIN c : Good(c[i])
  BY <1>1, <1>2, <1>4, <1>5
<1>7. Len(c) \in 1..maxChecks /\ (\A i \in DOMAIN c : one /\ Good(c[i]))
        => one
  BY <1>1, <1>5
<1> QED
  BY <1>3, <1>6, <1>7 DEF Rejected

(***************************************************************************)
(* parseCanIJSON refuses a batch exactly if it is empty or too long, or if *)
(* it refuses one of its checks alone, wherever that check stands.         *)
(***************************************************************************)
THEOREM BatchesAreTheirChecks == Spec => []BatchIsItsChecks
<1>1. TypeOK => BatchIsItsChecks
  BY BatchSplits DEF TypeOK, BatchIsItsChecks
<1> QED
  BY <1>1, RequestsAreTyped, PTL

-----------------------------------------------------------------------------
(* The two parsers of a list request.                                      *)

\* No field but a flag or the limit holds the word null.
NoNullWord(q) ==
  \A f \in Param \ {"raw", "status_raw", "limit"} : q[f] # nullWord

\* Without the word null a query string and a body give a field one value.
LEMMA FieldsAgree ==
  ASSUME NEW q, NoNullWord(q)
  PROVE  /\ QueryValue(q["group"], 0, NullText) = PayloadValue(q["group"], 0)
         /\ QueryValue(q["version"], 0, NullText)
              = PayloadValue(q["version"], 0)
         /\ QueryValue(q["resource"], 0, NullText)
              = PayloadValue(q["resource"], 0)
         /\ QueryValue(q["cluster"], 0, NullText)
              = PayloadValue(q["cluster"], 0)
         /\ QueryValue(q["namespace"], 0, NullText)
              = PayloadValue(q["namespace"], 0)
         /\ QueryValue(q["name"], 0, NullText) = PayloadValue(q["name"], 0)
         /\ QueryValue(q["composition_id"], 0, MALFORMED)
              = PayloadValue(q["composition_id"], 0)
         /\ QueryValue(q["name_contains"], NULL, NullPattern)
              = PayloadValue(q["name_contains"], NULL)
         /\ QueryValue(q["labels"], NULL, {}) = PayloadValue(q["labels"], NULL)
         /\ QueryValue(q["since"], NULL, MALFORMED)
              = PayloadValue(q["since"], NULL)
         /\ QueryValue(q["sort_by"], "", MALFORMED)
              = PayloadValue(q["sort_by"], "")
         /\ QueryValue(q["sort_order"], "", MALFORMED)
              = PayloadValue(q["sort_order"], "")
         /\ QueryValue(q["cursor"], NoCursor, MALFORMED)
              = PayloadValue(q["cursor"], NoCursor)
<1>1. ASSUME NEW f \in Param \ {"raw", "status_raw", "limit"}, NEW z, NEW n
      PROVE  QueryValue(q[f], z, n) = PayloadValue(q[f], z)
  BY <1>1 DEF NoNullWord, QueryValue, PayloadValue
<1>2. {"group", "version", "resource", "cluster", "namespace", "name",
       "name_contains", "composition_id", "labels", "since", "sort_by",
       "sort_order", "cursor"} \subseteq Param \ {"raw", "status_raw", "limit"}
  BY DEF Param, TextParam
<1> QED
  BY <1>1, <1>2

\* Without the word null both read the same parameters.
LEMMA SameParameters ==
  ASSUME NEW q, IsRequest(q), NoNullWord(q),
         MALFORMED # q["raw"], MALFORMED # q["status_raw"]
  PROVE  ParamsOfQuery(q) = ParamsOfPayload(q)
<1>1. ASSUME NEW f \in {"raw", "status_raw"}
      PROVE  derefBool(q[f], FALSE) = (q[f] = TRUE)
  <2>1. q[f] \in {UNSET, nullWord} \union BOOLEAN
    BY FieldValues
  <2>2. UNSET \notin BOOLEAN /\ nullWord \notin BOOLEAN
    BY WordsAreNoValues
  <2> QED
    BY <2>1, <2>2 DEF derefBool, PayloadValue
<1>2. /\ derefBool(q["raw"], FALSE) = (q["raw"] = TRUE)
      /\ derefBool(q["status_raw"], FALSE) = (q["status_raw"] = TRUE)
  BY <1>1
<1>3. parseLimit(q["limit"]) = parseLimitPtr(q["limit"])
  BY DEF parseLimit
<1> QED
  BY <1>2, <1>3, FieldsAgree, ZenonT(60)
     DEF ParamsOfQuery, ParamsOfPayload

\* Labels of the same length either way are validated alike.
LEMMA SameValidation ==
  ASSUME NEW q, IsRequest(q), NoNullWord(q),
         q["labels"] \in LongFilter <=> q["labels"] \in LongLabels
  PROVE  LET p == ParamsOfPayload(q)
         IN Validated(p, LongFilter) = Validated(p, LongLabels)
<1> DEFINE p == ParamsOfPayload(q)
<1>1. p.Labels = PayloadValue(q["labels"], NULL)
  BY DEF ParamsOfPayload
<1>2. q["labels"] \in {UNSET, MALFORMED} \union Filter
  BY FieldValues DEF NoNullWord, Param
<1>3. NULL \notin LongFilter /\ NULL \notin LongLabels
  BY LongAssumption, TextAssumption
<1>4. p.Labels \in LongFilter <=> p.Labels \in LongLabels
  BY <1>1, <1>2, <1>3 DEF PayloadValue
<1> HIDE DEF p
<1>5. TooLong(p, LongFilter) = TooLong(p, LongLabels)
  BY <1>4 DEF TooLong
<1> QED
  BY <1>5 DEF Validated, validateListParams, p

\* A body that does not decode has a value that a query string refuses.
LEMMA SameRefusals ==
  ASSUME NEW q, IsRequest(q), ~Decodes(q, TRUE),
         MALFORMED # q["raw"], MALFORMED # q["status_raw"]
  PROVE  parseListParams(q) = Rejected
<1>1. MALFORMED \in {q["labels"], q["since"], q["limit"]}
  BY DEF Decodes
<1>2. MALFORMED # UNSET /\ MALFORMED # nullWord
  BY WordAssumption
<1>3. \A z, n : QueryValue(MALFORMED, z, n) = MALFORMED
  BY <1>2 DEF QueryValue
<1>4. parseLimit(MALFORMED) = MALFORMED
  BY <1>2 DEF parseLimit, parseLimitPtr
<1>5. LET p == ParamsOfQuery(q)
      IN MALFORMED \in {p.Labels, p.Since, p.Limit}
  BY <1>1, <1>3, <1>4 DEF ParamsOfQuery
<1> QED
  BY <1>5 DEF parseListParams, Validated

(***************************************************************************)
(* GET and POST of the same fields give equal parameters or both refuse.   *)
(***************************************************************************)
THEOREM MethodsAgree == Spec => []GetAndPostAgree
<1>1. TypeOK => GetAndPostAgree
  <2> SUFFICES ASSUME TypeOK, oneObject, NoNullWord(sent),
                      MALFORMED # sent["raw"], MALFORMED # sent["status_raw"],
                      sent["labels"] \in LongFilter
                        <=> sent["labels"] \in LongLabels
               PROVE  ByGet = ByPost
    BY DEF GetAndPostAgree, NoNullWord
  <2>1. IsRequest(sent) /\ oneObject = TRUE
    BY DEF TypeOK
  <2>2. CASE Decodes(sent, TRUE)
    BY <2>1, <2>2, SameParameters, SameValidation
       DEF ByGet, ByPost, parseListParams, parseListParamsJSON
  <2>3. CASE ~Decodes(sent, TRUE)
    BY <2>1, <2>3, SameRefusals DEF ByGet, ByPost, parseListParamsJSON
  <2> QED
    BY <2>2, <2>3
<1> QED
  BY <1>1, RequestsAreTyped, PTL

-----------------------------------------------------------------------------
(* Accepted parameters.                                                    *)

\* What AcceptedIsListable says of one result of the parsers.
IsListable(p) ==
  /\ Listable(p) \in ListParams
  /\ p.ResourceGroup # 0
  /\ p.Limit \in 1..maxLimit
  /\ p.Namespace # StarText
  /\ p.Name # 0 => p.NameContains = NULL
  /\ p.Cursor \in Token \union {NoCursor}
  /\ p.Cursor \in ServerToken => ~QueryPanics(p)

\* A cursor that the server made for the sort of the request carries every
\* field that the query follows: those that the encoding leaves out are zero
\* in the row, and a NULL composition is marked as such.
LEMMA ServerTokensAreComplete ==
  ASSUME NEW p, p.Cursor \in ServerToken
  PROVE  ~QueryPanics(p)
<1> SUFFICES ASSUME validateCursorSort(DecodeCursor(p.Cursor), SortByOf(p),
                                       SortOrderOf(p))
             PROVE  ~cursorPanics(SortByOf(p), DecodeCursor(p.Cursor))
  BY DEF QueryPanics
<1>1. PICK s \in SortBy, o \in SortOrder, r \in Rows :
        p.Cursor = EncodeCursor(buildCursor(s, o, r))
  BY DEF ServerToken, TokensOf
<1> DEFINE cur == buildCursor(s, o, r)
<1>2. DecodeCursor(p.Cursor) = cur /\ cur # NoCursor
  BY <1>1, CursorRoundTrip
<1>3. /\ cur["SortBy"] = s
      /\ cur["CompositionIDNull"]
           <=> s = "composition_id" /\ r["composition_id"] = NULL
      /\ \A f \in CursorColumns(s) : cur[f] = r[f]
  BY CursorFields
<1>4. IsRow(r)
  BY RowsAssumption
<1> HIDE DEF cur
<1>5. SortByOf(p) = s
  BY <1>2, <1>3 DEF validateCursorSort
<1>6. CASE s \in {"created_at", "updated_at"}
  <2>1. Dereferenced(s, cur) = {s} /\ s \in CursorColumns(s)
    BY <1>6 DEF Dereferenced, CursorColumns
  <2>2. r[s] \in Nat
    BY <1>4, <1>6 DEF IsRow, Column, Nullable
  <2> QED
    BY <1>2, <1>3, <1>5, <2>1, <2>2, NullAssumption DEF cursorPanics
<1>7. CASE s = "composition_id"
  <2>1. /\ "composition_id" \in CursorColumns(s)
        /\ Dereferenced(s, cur) =
             IF cur["CompositionIDNull"] THEN {} ELSE {"composition_id"}
    BY <1>7 DEF Dereferenced, CursorColumns
  <2> QED
    BY <1>2, <1>3, <1>5, <1>7, <2>1 DEF cursorPanics
<1>8. CASE s \notin {"created_at", "updated_at", "composition_id"}
  BY <1>2, <1>5, <1>8 DEF cursorPanics, Dereferenced
<1> QED
  BY <1>6, <1>7, <1>8

\* What a parser knows of its parameters before it validates them.
Raw(p) ==
  /\ p.ResourceGroup \in Nat /\ p.ResourceVersion \in Nat
  /\ p.ResourcePlural \in Nat /\ p.Cluster \in Nat
  /\ p.Namespace \in Nat /\ p.Name \in Nat
  /\ p.Namespace # StarText
  /\ p.CompositionID \in Nat \union {MALFORMED}
  /\ p.NameContains \in (SUBSET Nat) \union {NULL}
  /\ p.Labels \in (SUBSET Nat) \union {NULL, MALFORMED}
  /\ p.Since \in Nat \union {NULL, MALFORMED}
  /\ p.Limit \in (1..maxLimit) \union {MALFORMED}
  /\ p.Cursor \in Token \union {NoCursor, MALFORMED}

\* The default limit is a limit.
LEMMA LimitConstants == maxLimit \in Nat /\ defaultLimit \in 1..maxLimit
  BY DEF maxLimit, defaultLimit

\* The validation does the rest.
LEMMA ValidatedIsListable ==
  ASSUME NEW p, Raw(p), NEW long, Validated(p, long) # Rejected
  PROVE  Validated(p, long) = p /\ IsListable(p)
<1>1. /\ Validated(p, long) = p
      /\ p.ResourceGroup # 0
      /\ p.Limit # MALFORMED /\ p.Labels # MALFORMED /\ p.Since # MALFORMED
      /\ validateListParams(p, long)
  BY DEF Validated
<1>2. /\ p.CompositionID # MALFORMED
      /\ p.Name = 0 \/ p.NameContains = NULL
      /\ p.SortBy \in SortBy \union {""}
      /\ p.SortOrder \in SortOrder \union {""}
      /\ p.Cursor # MALFORMED
  BY <1>1 DEF validateListParams
<1>3. p.Limit \in 1..maxLimit /\ p.Limit \in Nat
  <2>1. p.Limit \in 1..maxLimit
    BY <1>1 DEF Raw
  <2> QED
    BY <2>1, LimitConstants
<1>4. /\ p.ResourceGroup \in Nat /\ p.ResourceVersion \in Nat
      /\ p.ResourcePlural \in Nat /\ p.Cluster \in Nat
      /\ p.Namespace \in Nat /\ p.Name \in Nat
      /\ p.CompositionID \in Nat
      /\ p.NameContains \in (SUBSET Nat) \union {NULL}
      /\ p.Labels \in (SUBSET Nat) \union {NULL}
      /\ p.Since \in Nat \union {NULL}
  BY <1>1, <1>2 DEF Raw
<1>5. Listable(p) \in ListParams
  <2>1. /\ p.SortBy \in SortBy \union {""}
        /\ p.SortOrder \in SortOrder \union {""}
        /\ p.Limit \in Nat \union {NULL}
    BY <1>2, <1>3
  <2> QED
    BY <1>4, <2>1, Zenon DEF Listable, ListField, ListParams
<1> QED
  BY <1>1, <1>2, <1>3, <1>5, ServerTokensAreComplete DEF IsListable, Raw

\* A namespace is never the literal *.
LEMMA NamespaceIsNotStar ==
  ASSUME NEW n \in Nat
  PROVE  normalizeNamespace(n) \in Nat /\ normalizeNamespace(n) # StarText
  BY TextAssumption DEF normalizeNamespace

\* A limit is in range or malformed.
LEMMA LimitInRange ==
  ASSUME NEW q, IsRequest(q)
  PROVE  parseLimitPtr(q["limit"]) \in (1..maxLimit) \union {MALFORMED}
<1>1. q["limit"] \in {UNSET, nullWord, MALFORMED} \union Int
  BY FieldValues
<1>2. CASE q["limit"] \in {UNSET, nullWord}
  <2>1. parseLimitPtr(q["limit"]) = defaultLimit
    BY <1>2 DEF parseLimitPtr
  <2> QED
    BY <2>1, LimitConstants
<1>3. CASE q["limit"] = MALFORMED
  <2>1. parseLimitPtr(q["limit"]) = MALFORMED
    BY <1>3, WordAssumption DEF parseLimitPtr
  <2> QED
    BY <2>1
<1>4. CASE q["limit"] \in Int
  <2>1. q["limit"] \notin {UNSET, nullWord}
    BY <1>4, WordsAreNoValues
  <2>2. CASE validateLimit(q["limit"])
    <3>1. q["limit"] \in 1..maxLimit
      BY <1>4, <2>2, LimitConstants DEF validateLimit
    <3> QED
      BY <2>1, <2>2, <3>1 DEF parseLimitPtr
  <2>3. CASE ~validateLimit(q["limit"])
    BY <2>1, <2>3 DEF parseLimitPtr
  <2> QED
    BY <2>2, <2>3
<1> QED
  BY <1>1, <1>2, <1>3, <1>4

\* What a query string gives.
LEMMA QueryIsRaw ==
  ASSUME NEW q, IsRequest(q), parseListParams(q) # Rejected
  PROVE  IsListable(parseListParams(q))
<1> DEFINE text(f) == QueryValue(q[f], 0, NullText)
           p == ParamsOfQuery(q)
<1>1. parseListParams(q) = Validated(p, LongFilter)
  BY DEF parseListParams
<1>2. \A f \in TextParam : text(f) \in Nat
  BY FieldValues, TextAssumption DEF QueryValue
<1>3. {"group", "version", "resource", "cluster", "namespace", "name"}
        = TextParam
  BY DEF TextParam
<1>4. QueryValue(q["composition_id"], 0, MALFORMED) \in Nat \union {MALFORMED}
  BY FieldValues DEF QueryValue
<1>5. /\ QueryValue(q["name_contains"], NULL, NullPattern)
           \in (SUBSET Nat) \union {NULL}
      /\ QueryValue(q["labels"], NULL, {})
           \in (SUBSET Nat) \union {NULL, MALFORMED}
  BY FieldValues, TextAssumption DEF QueryValue
<1>6. /\ QueryValue(q["since"], NULL, MALFORMED)
           \in Nat \union {NULL, MALFORMED}
      /\ QueryValue(q["cursor"], NoCursor, MALFORMED)
           \in Token \union {NoCursor, MALFORMED}
  BY FieldValues DEF QueryValue
<1>7. /\ normalizeNamespace(text("namespace")) \in Nat
      /\ normalizeNamespace(text("namespace")) # StarText
  BY <1>2, <1>3, NamespaceIsNotStar
<1>8. parseLimit(q["limit"]) \in (1..maxLimit) \union {MALFORMED}
  BY LimitInRange DEF parseLimit
<1>9. /\ p.ResourceGroup = text("group") /\ p.ResourceVersion = text("version")
      /\ p.ResourcePlural = text("resource") /\ p.Cluster = text("cluster")
      /\ p.Namespace = normalizeNamespace(text("namespace"))
      /\ p.CompositionID = QueryValue(q["composition_id"], 0, MALFORMED)
      /\ p.Name = text("name")
      /\ p.NameContains = QueryValue(q["name_contains"], NULL, NullPattern)
      /\ p.Labels = QueryValue(q["labels"], NULL, {})
      /\ p.Since = QueryValue(q["since"], NULL, MALFORMED)
      /\ p.Limit = parseLimit(q["limit"])
      /\ p.Cursor = QueryValue(q["cursor"], NoCursor, MALFORMED)
  BY DEF ParamsOfQuery
<1> HIDE DEF text, p
<1>10. Raw(p)
  BY <1>2, <1>3, <1>4, <1>5, <1>6, <1>7, <1>8, <1>9 DEF Raw
<1> QED
  BY <1>1, <1>10, ValidatedIsListable

\* What a JSON body gives.
LEMMA PayloadIsRaw ==
  ASSUME NEW q, IsRequest(q), NEW one, parseListParamsJSON(q, one) # Rejected
  PROVE  IsListable(parseListParamsJSON(q, one))
<1> DEFINE text(f) == PayloadValue(q[f], 0)
           p == ParamsOfPayload(q)
<1>1. parseListParamsJSON(q, one) = Validated(p, LongLabels)
  BY DEF parseListParamsJSON
<1>2. \A f \in TextParam : text(f) \in Nat
  BY FieldValues DEF PayloadValue
<1>3. {"group", "version", "resource", "cluster", "namespace", "name"}
        = TextParam
  BY DEF TextParam
<1>4. text("composition_id") \in Nat \union {MALFORMED}
  BY FieldValues DEF PayloadValue
<1>5. /\ PayloadValue(q["name_contains"], NULL) \in (SUBSET Nat) \union {NULL}
      /\ PayloadValue(q["labels"], NULL)
           \in (SUBSET Nat) \union {NULL, MALFORMED}
  BY FieldValues, TextAssumption DEF PayloadValue
<1>6. /\ PayloadValue(q["since"], NULL) \in Nat \union {NULL, MALFORMED}
      /\ PayloadValue(q["cursor"], NoCursor)
           \in Token \union {NoCursor, MALFORMED}
  BY FieldValues DEF PayloadValue
<1>7. /\ normalizeNamespace(text("namespace")) \in Nat
      /\ normalizeNamespace(text("namespace")) # StarText
  BY <1>2, <1>3, NamespaceIsNotStar
<1>8. parseLimitPtr(q["limit"]) \in (1..maxLimit) \union {MALFORMED}
  BY LimitInRange
<1>9. /\ p.ResourceGroup = text("group") /\ p.ResourceVersion = text("version")
      /\ p.ResourcePlural = text("resource") /\ p.Cluster = text("cluster")
      /\ p.Namespace = normalizeNamespace(text("namespace"))
      /\ p.CompositionID = text("composition_id") /\ p.Name = text("name")
      /\ p.NameContains = PayloadValue(q["name_contains"], NULL)
      /\ p.Labels = PayloadValue(q["labels"], NULL)
      /\ p.Since = PayloadValue(q["since"], NULL)
      /\ p.Limit = parseLimitPtr(q["limit"])
      /\ p.Cursor = PayloadValue(q["cursor"], NoCursor)
  BY DEF ParamsOfPayload
<1> HIDE DEF text, p
<1>10. Raw(p)
  BY <1>2, <1>3, <1>4, <1>5, <1>6, <1>7, <1>8, <1>9 DEF Raw
<1> QED
  BY <1>1, <1>10, ValidatedIsListable

(***************************************************************************)
(* The parameters that get past either parser are such as the queries take *)
(* for granted: those of ListWalk, with a limit from 1 to maxLimit.  Their *)
(* cursor decodes; if the server made it, from any row and for any sort,   *)
(* then the query refuses it or finds the fields in it that it follows.    *)
(***************************************************************************)
THEOREM AcceptedAreListable == Spec => []AcceptedIsListable
<1>1. TypeOK => AcceptedIsListable
  <2> SUFFICES ASSUME TypeOK, NEW p \in {ByGet, ByPost} \ {Rejected}
               PROVE  IsListable(p)
    BY DEF AcceptedIsListable, IsListable
  <2> QED
    BY QueryIsRaw, PayloadIsRaw DEF TypeOK, ByGet, ByPost
<1> QED
  BY <1>1, RequestsAreTyped, PTL

-----------------------------------------------------------------------------
(* From a request to the rows that are selected.                           *)

\* Parameters p are the accepted ones of request q.
ReadAs(p, q) ==
  /\ p.ResourceGroup = PayloadValue(q["group"], 0)
  /\ p.ResourceGroup # 0
  /\ p.ResourceVersion = PayloadValue(q["version"], 0)
  /\ p.ResourcePlural = PayloadValue(q["resource"], 0)
  /\ p.Cluster = PayloadValue(q["cluster"], 0)
  /\ p.Namespace = normalizeNamespace(PayloadValue(q["namespace"], 0))
  /\ p.CompositionID = PayloadValue(q["composition_id"], 0)
  /\ p.CompositionID # MALFORMED
  /\ p.Name = PayloadValue(q["name"], 0)
  /\ p.NameContains = PayloadValue(q["name_contains"], NULL)
  /\ p.Labels = PayloadValue(q["labels"], NULL) /\ p.Labels # MALFORMED
  /\ p.Since = PayloadValue(q["since"], NULL) /\ p.Since # MALFORMED

\* What is accepted has passed these rules.
LEMMA AcceptedPassed ==
  ASSUME NEW p, NEW long, Validated(p, long) # Rejected
  PROVE  /\ Validated(p, long) = p
         /\ p.ResourceGroup # 0 /\ p.CompositionID # MALFORMED
         /\ p.Labels # MALFORMED /\ p.Since # MALFORMED
  BY DEF Validated, validateListParams

\* The accepted parameters of a JSON body.
LEMMA PayloadReads ==
  ASSUME NEW q, NEW one, parseListParamsJSON(q, one) # Rejected
  PROVE  ReadAs(parseListParamsJSON(q, one), q)
<1> DEFINE p == ParamsOfPayload(q)
<1>1. /\ parseListParamsJSON(q, one) = Validated(p, LongLabels)
      /\ Validated(p, LongLabels) # Rejected
  BY DEF parseListParamsJSON
<1>2. /\ p.ResourceGroup = PayloadValue(q["group"], 0)
      /\ p.ResourceVersion = PayloadValue(q["version"], 0)
      /\ p.ResourcePlural = PayloadValue(q["resource"], 0)
      /\ p.Cluster = PayloadValue(q["cluster"], 0)
      /\ p.Namespace = normalizeNamespace(PayloadValue(q["namespace"], 0))
      /\ p.CompositionID = PayloadValue(q["composition_id"], 0)
      /\ p.Name = PayloadValue(q["name"], 0)
      /\ p.NameContains = PayloadValue(q["name_contains"], NULL)
      /\ p.Labels = PayloadValue(q["labels"], NULL)
      /\ p.Since = PayloadValue(q["since"], NULL)
  BY DEF ParamsOfPayload
<1> HIDE DEF p
<1> QED
  BY <1>1, <1>2, AcceptedPassed DEF ReadAs

\* The accepted parameters of a query string.
LEMMA QueryReads ==
  ASSUME NEW q, NoNullWord(q), parseListParams(q) # Rejected
  PROVE  ReadAs(parseListParams(q), q)
<1> DEFINE p == ParamsOfQuery(q)
<1>1. parseListParams(q) = Validated(p, LongFilter)
  BY DEF parseListParams
<1>2. /\ p.ResourceGroup = PayloadValue(q["group"], 0)
      /\ p.ResourceVersion = PayloadValue(q["version"], 0)
      /\ p.ResourcePlural = PayloadValue(q["resource"], 0)
      /\ p.Cluster = PayloadValue(q["cluster"], 0)
      /\ p.Namespace = normalizeNamespace(PayloadValue(q["namespace"], 0))
      /\ p.CompositionID = PayloadValue(q["composition_id"], 0)
      /\ p.Name = PayloadValue(q["name"], 0)
      /\ p.NameContains = PayloadValue(q["name_contains"], NULL)
      /\ p.Labels = PayloadValue(q["labels"], NULL)
      /\ p.Since = PayloadValue(q["since"], NULL)
  BY FieldsAgree DEF ParamsOfQuery
<1> HIDE DEF p
<1> QED
  BY <1>1, <1>2, AcceptedPassed DEF ReadAs

\* The filters of both queries taken together ask what the request asks.
LEMMA ReadSelects ==
  ASSUME NEW q, IsRequest(q), NoNullWord(q), NEW p, ReadAs(p, q), NEW r
  PROVE  Selects(p, r) <=> Asks(q, r)
<1> DEFINE given(f) == q[f] \notin {UNSET, nullWord}
<1>1. Selects(p, r) <=>
        /\ r["deleted_at"] = NULL
        /\ r["resource_group"] = p.ResourceGroup
        /\ p.ResourceVersion = 0 \/ r["resource_version"] = p.ResourceVersion
        /\ p.ResourcePlural = 0 \/ r["resource_plural"] = p.ResourcePlural
        /\ p.Cluster = 0 \/ r["cluster_name"] = p.Cluster
        /\ p.Namespace = 0 \/ r["namespace"] = p.Namespace
        /\ p.CompositionID = 0 \/ r["composition_id"] = p.CompositionID
        /\ p.Name = 0 \/ r["resource_name"] = p.Name
        /\ p.NameContains = NULL \/ r["resource_name"] \in p.NameContains
        /\ p.Labels = NULL \/ r["labels"] \in p.Labels
        /\ p.Since = NULL \/ r["updated_at"] >= p.Since
  BY FirstPageSelection DEF Selects, DiscoverWhere, Filters
\* A field that is given has a parameter other than its zero value.
<1>2. ASSUME NEW f \in {"group", "version", "resource", "cluster",
                        "namespace", "name"}
      PROVE  /\ given(f) => /\ PayloadValue(q[f], 0) = q[f]
                            /\ q[f] \in Nat /\ q[f] # 0
             /\ ~given(f) => PayloadValue(q[f], 0) = 0
  <2>1. f \in TextParam
    BY DEF TextParam
  <2> QED
    BY <2>1, FieldValues DEF PayloadValue
<1>3. /\ given("composition_id") =>
           /\ p.CompositionID = q["composition_id"] /\ p.CompositionID # 0
      /\ ~given("composition_id") => p.CompositionID = 0
  BY FieldValues DEF ReadAs, PayloadValue
<1>4. /\ given("name_contains") =>
           p.NameContains = q["name_contains"] /\ p.NameContains # NULL
      /\ ~given("name_contains") => p.NameContains = NULL
  BY FieldValues, TextAssumption DEF ReadAs, PayloadValue
<1>5. /\ given("labels") => p.Labels = q["labels"] /\ p.Labels # NULL
      /\ ~given("labels") => p.Labels = NULL
  BY FieldValues, TextAssumption DEF ReadAs, PayloadValue
<1>6. /\ given("since") => p.Since = q["since"] /\ p.Since # NULL
      /\ ~given("since") => p.Since = NULL
  BY FieldValues, NullAssumption DEF ReadAs, PayloadValue
<1>7. given("group") /\ p.ResourceGroup = q["group"]
  BY <1>2 DEF ReadAs
<1>8. p.Namespace = 0 \/ r["namespace"] = p.Namespace
        <=> \/ given("namespace") /\ r["namespace"] = q["namespace"]
            \/ ~given("namespace") /\ r["namespace"] = DefaultText
            \/ q["namespace"] = StarText
  <2>1. p.Namespace = normalizeNamespace(PayloadValue(q["namespace"], 0))
    BY DEF ReadAs
  <2>2. CASE ~given("namespace")
    <3>1. p.Namespace = DefaultText /\ DefaultText # 0
      BY <1>2, <2>1, <2>2, TextAssumption DEF normalizeNamespace
    <3>2. q["namespace"] # StarText
      BY <2>2, TextAssumption, WordsAreNoValues
    <3> QED
      BY <2>2, <3>1, <3>2
  <2>3. CASE given("namespace") /\ q["namespace"] = StarText
    <3>1. p.Namespace = 0
      BY <1>2, <2>1, <2>3, TextAssumption DEF normalizeNamespace
    <3> QED
      BY <2>3, <3>1
  <2>4. CASE given("namespace") /\ q["namespace"] # StarText
    <3>1. p.Namespace = q["namespace"] /\ p.Namespace # 0
      BY <1>2, <2>1, <2>4 DEF normalizeNamespace
    <3> QED
      BY <2>4, <3>1
  <2> QED
    BY <2>2, <2>3, <2>4
<1>9. /\ p.ResourceVersion = 0 \/ r["resource_version"] = p.ResourceVersion
           <=> (given("version") => r["resource_version"] = q["version"])
      /\ p.ResourcePlural = 0 \/ r["resource_plural"] = p.ResourcePlural
           <=> (given("resource") => r["resource_plural"] = q["resource"])
      /\ p.Cluster = 0 \/ r["cluster_name"] = p.Cluster
           <=> (given("cluster") => r["cluster_name"] = q["cluster"])
      /\ p.Name = 0 \/ r["resource_name"] = p.Name
           <=> (given("name") => r["resource_name"] = q["name"])
  BY <1>2 DEF ReadAs
<1>10. Asks(q, r) <=>
         /\ r["deleted_at"] = NULL
         /\ r["resource_group"] = q["group"]
         /\ given("version") => r["resource_version"] = q["version"]
         /\ given("resource") => r["resource_plural"] = q["resource"]
         /\ given("cluster") => r["cluster_name"] = q["cluster"]
         /\ \/ given("namespace") /\ r["namespace"] = q["namespace"]
            \/ ~given("namespace") /\ r["namespace"] = DefaultText
            \/ q["namespace"] = StarText
         /\ given("composition_id") =>
              r["composition_id"] = q["composition_id"]
         /\ given("name") => r["resource_name"] = q["name"]
         /\ given("name_contains") =>
              r["resource_name"] \in q["name_contains"]
         /\ given("labels") => r["labels"] \in q["labels"]
         /\ given("since") => r["updated_at"] >= q["since"]
  BY DEF Asks
<1> HIDE DEF given
<1> QED
  BY <1>1, <1>3, <1>4, <1>5, <1>6, <1>7, <1>8, <1>9, <1>10

(***************************************************************************)
(* Parsing and the two queries of the list handler, composed: for every    *)
(* row that a table may hold, the row is selected if and only if the       *)
(* fields of the request ask for it.                                       *)
(***************************************************************************)
THEOREM SelectionIsWhatWasAsked == Spec => []SelectedIfAsked
<1>1. TypeOK => SelectedIfAsked
  <2> SUFFICES ASSUME TypeOK, NoNullWord(sent),
                      NEW p \in {ByGet, ByPost} \ {Rejected}, NEW r \in Rows
               PROVE  Selects(p, r) <=> Asks(sent, r)
    BY DEF SelectedIfAsked, NoNullWord
  <2>1. ReadAs(p, sent)
    BY QueryReads, PayloadReads DEF ByGet, ByPost
  <2> QED
    BY <2>1, ReadSelects DEF TypeOK
<1> QED
  BY <1>1, RequestsAreTyped, PTL

=============================================================================
