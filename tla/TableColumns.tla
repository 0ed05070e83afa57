---------------------------- MODULE TableColumns ----------------------------
(***************************************************************************)
(* The columns of the eleven paged tables: how each is filtered and by     *)
(* which fields each is sorted, and what the service behind it knows of    *)
(* that.                                                                   *)
(*                                                                         *)
(* A filter offers the operators of its kind: text (contains, equals,      *)
(* fuzzy, emptiness), array (contains, emptiness), date (four              *)
(* comparisons), presence (emptiness).  A service knows a parameter by an  *)
(* ILIKE template and a column (text), by a template and an emptiness test *)
(* (array), by a column only (date) or by the test only (presence).        *)
(***************************************************************************)
EXTENDS FiniteSets

\* Two functions put together.
f ++ g == [n \in DOMAIN f \cup DOMAIN g |-> IF n \in DOMAIN f THEN f[n] ELSE g[n]]

Each(kind, names) == [n \in names |-> kind]
Dates == Each("date", {"created_at", "updated_at"})

BrandFilters == Each("text", {"name", "legal_name", "entity_type", "website", "founder", "years"})
                ++ Dates
BrandSorts == {"brand_name", "legal_name", "entity_type_name", "updated_at", "created_at"}
BrandServed == Each("text", {"name", "brand_name", "legal_name", "entity_type"}) ++ Dates
BrandSortable == {"brand_name", "legal_name", "entity_type_name", "created_at", "updated_at"}

ModelFilters == Each("text", {"name", "years_active", "creator"}) ++ Each("array", {"types"}) ++ Dates
ModelSorts == {"model_name", "brand_name", "updated_at", "created_at"}
ModelServed == Each("text", {"name", "brand", "years_active", "creator"})
               ++ Each("array", {"types"}) ++ Dates
ModelSortable == {"model_name", "brand_name", "updated_at", "created_at"}

EffectFilters == Each("text", {"name", "brand", "collection", "version"})
                 ++ Each("array", {"types", "models", "tags"}) ++ Each("presence", {"parents"}) ++ Dates
EffectSorts == {"effect_name", "brand_name", "collection", "version", "updated_at", "created_at"}
EffectServed == Each("text", {"name", "brand", "version", "collection"})
                ++ Each("array", {"types", "models", "tags"}) ++ Each("presence", {"parents"}) ++ Dates
EffectSortable == {"effect_name", "brand_name", "version", "collection", "updated_at", "created_at"}

InstrumentFilters == Each("text", {"name", "brand", "version"})
                     ++ Each("array", {"types", "models", "tags"})
                     ++ Each("presence", {"parents"}) ++ Dates
InstrumentSorts == {"instrument_name", "brand_name", "version", "updated_at", "created_at"}
InstrumentServed == Each("text", {"name", "brand", "version"})
                    ++ Each("array", {"types", "models", "tags"})
                    ++ Each("presence", {"parents"}) ++ Dates
InstrumentSortable == {"instrument_name", "brand_name", "version", "updated_at", "created_at"}

LibraryFilters == Each("text", {"name", "brand"}) ++ Each("array", {"models", "tags"})
                  ++ Each("presence", {"parents"}) ++ Dates
LibrarySorts == {"library_name", "brand_name", "updated_at", "created_at"}
LibraryServed == Each("text", {"name", "brand"}) ++ Each("array", {"models", "tags"})
                 ++ Each("presence", {"parents"}) ++ Dates
LibrarySortable == {"library_name", "brand_name", "updated_at", "created_at"}

WorkstationFilters == Each("text", {"name", "version"}) ++ Each("array", {"types", "formats"}) ++ Dates
WorkstationSorts == {"full_tool_name", "brand_name", "version", "updated_at", "created_at"}
WorkstationServed == Each("text", {"name", "brand", "version"})
                     ++ Each("array", {"types", "formats", "tags"}) ++ Dates
WorkstationSortable == {"full_tool_name", "brand_name", "version", "created_at", "updated_at"}

\* The five tool tables have one set of columns.
ToolFilters == Each("text", {"name", "brand", "version"})
               ++ Each("array", {"models", "types", "formats"}) ++ Dates
ToolSorts == {"full_tool_name", "brand_name", "version", "updated_at", "created_at"}
ToolServed == Each("text", {"name", "brand", "version"}) ++ Each("array", {"types", "formats"}) ++ Dates
ToolSortable == {"full_tool_name", "brand_name", "version", "created_at", "updated_at"}

\* The two gear tables; their service takes a name and a type, under other names,
\* and no order.
GearFilters == Each("text", {"name", "gear_type_name", "serial_number", "year"}) ++ Dates
GearSorts == {"gear_name", "serial_number", "year", "updated_at", "created_at"}
GuitarFilters == Each("text", {"name", "pickup_config", "num_strings", "tuning", "serial_number", "year"})
                 ++ Dates
GuitarSorts == GearSorts \cup {"pickup_config", "num_strings"}
GearServed == [p \in {} |-> "none"]
GearSortable == {}

-----------------------------------------------------------------------------
\* The operators a column offers (contains, equals and fuzzy match are "contains").
Default == "contains"
ValueFree == {"is_empty", "is_not_empty"}
DateOps == {"date_on", "date_between"}
Operators(kind) ==
    CASE kind = "text" -> {Default} \cup ValueFree
      [] kind = "array" -> {Default} \cup ValueFree
      [] kind = "date" -> DateOps
      [] kind = "presence" -> ValueFree

\* _append_filter: the operators the service has an expression for; another is
\* passed over.
Heeded(served, p) == IF p \in DOMAIN served THEN Operators(served[p]) ELSE {}

\* What a table can do with a column and a sort field: the operators offered and
\* those heeded, whether the service sorts by the field.
Column(filters, served, sorts, sortable) ==
    {[offered |-> Operators(filters[p]), heeded |-> Heeded(served, p), sorted |-> s \in sortable] :
        p \in DOMAIN filters, s \in sorts}

Columns ==
    UNION {Column(BrandFilters, BrandServed, BrandSorts, BrandSortable),
           Column(ModelFilters, ModelServed, ModelSorts, ModelSortable),
           Column(EffectFilters, EffectServed, EffectSorts, EffectSortable),
           Column(InstrumentFilters, InstrumentServed, InstrumentSorts, InstrumentSortable),
           Column(LibraryFilters, LibraryServed, LibrarySorts, LibrarySortable),
           Column(WorkstationFilters, WorkstationServed, WorkstationSorts, WorkstationSortable),
           Column(ToolFilters, ToolServed, ToolSorts, ToolSortable),
           Column(GearFilters, GearServed, GearSorts, GearSortable),
           Column(GuitarFilters, GearServed, GuitarSorts, GearSortable)}

=============================================================================
