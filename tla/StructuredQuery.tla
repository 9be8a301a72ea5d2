--------------------------- MODULE StructuredQuery ---------------------------
(***************************************************************************)
(* Governed SQL as functions: the router that picks the engine for a       *)
(* question, the catalogue of the columns that may be queried, and the     *)
(* compiler of the analytical plans.  A question is the set of what its    *)
(* words match; a column is known by what its name matches.                *)
(***************************************************************************)
EXTENDS Naturals, Sequences, FiniteSets, FiniteSetsExt

CONSTANTS
  Domains,      \* record types that have an approved template
  Views,        \* the governed views
  Tables,       \* the extracted tables
  Columns,
  NameMatches,  \* Columns -> what the regular expressions match of its name
  Provenance,   \* the columns every governed view must have
  MaxRows, MaxColumns

Engines == {"policy", "prediction", "calculation", "graph"}

Classes == {"sensitive", "identifier", "date", "narrative", "name", "measure"}

ASSUME MatchesAreSets == NameMatches \in [Columns -> SUBSET Classes]

\* text_to_sql_max_rows is at least 1.
ASSUME RowsAreLimited == MaxRows \in Nat \ {0}
-----------------------------------------------------------------------------
(* DeterministicRouter *)

\* The engines a question calls for, the record types counting as one.
Called(q) == (q \cap Engines) \cup (IF q \cap Domains # {} THEN {"structured"} ELSE {})

Route(q) ==
  IF "refused" \in q THEN "refuse"
  ELSE IF Cardinality(Called(q)) > 1 THEN "hybrid"
  ELSE IF Called(q) = {} THEN "clarify"
  ELSE IF Called(q) # {"structured"} THEN CHOOSE e \in Called(q) : TRUE
  ELSE IF Cardinality(q \cap Domains) > 1 THEN "clarify"
  ELSE "structured"

\* StructuredQueryService.ask, with the permission of who asks and whether
\* EXPLAIN finds the template too expensive.
Ask(q, permitted, costly) ==
  IF Route(q) # "structured" THEN "no_sql"
  ELSE IF ~permitted THEN "denied"
  ELSE IF costly THEN "too_costly" ELSE "facts"
-----------------------------------------------------------------------------
(* SemanticCatalogBuilder *)

MutantPrecedence == <<"identifier", "sensitive", "date", "narrative", "name", "measure">>
Precedence == <<"sensitive", "identifier", "date", "narrative", "name", "measure">>

\* classify_column: the first expression that matches decides.
Class(c) ==
  LET hits == {i \in DOMAIN Precedence : Precedence[i] \in NameMatches[c]}
  IN IF hits = {} THEN "category" ELSE Precedence[Min(hits)]

\* The row of a column in pms_catalog.semantic_column.
Profile(relation, c) ==
  [source |-> relation, column |-> c, class |-> Class(c),
   sensitive |-> Class(c) = "sensitive", embeddable |-> Class(c) = "narrative",
   approved |-> relation \in Views /\ Class(c) # "sensitive"]

\* refresh: the catalogue of the relations the database has now; shape is
\* their columns.
Refreshed(shape) == UNION {{Profile(r, c) : c \in shape[r]} : r \in DOMAIN shape}

\* ck_semantic_column_embedding, ck_semantic_column_approval
Accepted(row) ==
  /\ row.embeddable => row.class = "narrative" /\ ~row.sensitive
  /\ row.sensitive => ~row.approved

\* The view approved_semantic_column.
Allowed(catalog, view) ==
  {row.column : row \in {k \in catalog : k.source = view /\ k.approved /\ ~k.sensitive}}
-----------------------------------------------------------------------------
(* PostgresCatalogRepository.execute_plan, ConstrainedPlanCompiler *)

NoStatement == [columns |-> {}, reads |-> {}, limit |-> 0]

Compiled(plan, columns, allowed) ==
  IF columns \cup plan.filters \cup plan.order \subseteq allowed
  THEN [columns |-> columns, reads |-> columns \cup plan.filters \cup plan.order, limit |-> plan.limit]
  ELSE NoStatement

\* The statement a plan becomes; NoStatement for every refusal.
Planned(plan, catalog, reviewed, permitted) ==
  LET allowed == Allowed(catalog, plan.view)
      columns == plan.columns \cup Provenance
      bounded == [plan EXCEPT !.limit = IF @ < MaxRows THEN @ ELSE MaxRows]
  IN IF reviewed /\ permitted /\ Provenance \subseteq allowed
        /\ Cardinality(columns) <= MaxColumns
     THEN Compiled(bounded, columns, allowed)
     ELSE NoStatement

Plans ==
  [view : Views \cup Tables, columns : (SUBSET Columns) \ {{}}, filters : SUBSET Columns,
   order : SUBSET Columns, limit : {1, MaxRows + 1}]

Shapes == [Views \cup Tables -> SUBSET Columns]
-----------------------------------------------------------------------------
(* Whatever relations the database has, a refresh of the catalogue breaks  *)
(* none of its own constraints, and no plan compiled against it names a    *)
(* sensitive column or one of an extracted table, be it to select, to      *)
(* filter or to sort; every statement carries its provenance and a limit.  *)
PlansStayInside ==
  \A shape \in Shapes :
    LET catalog == Refreshed(shape)
    IN /\ \A row \in catalog : Accepted(row)
       /\ \A plan \in Plans :
            LET s == Planned(plan, catalog, TRUE, TRUE)
            IN s # NoStatement =>
                 /\ \A c \in s.reads : "sensitive" \notin NameMatches[c] /\ c \in shape[plan.view]
                 /\ plan.view \in Views
                 /\ Provenance \subseteq s.columns
                 /\ s.limit \in 1..MaxRows
=============================================================================
