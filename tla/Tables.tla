------------------------------- MODULE Tables -------------------------------
(***************************************************************************)
(* build() of the six tables (table/*.rs): the rows of every unit are      *)
(* pushed column by column onto one vector per column, the vectors become  *)
(* Arrow columns, and RecordBatch::try_new puts them under the schema      *)
(* on_bind declared.  The views are PprofCore's, the promise about units   *)
(* and rows is that of DecodeUnits.                                        *)
(***************************************************************************)
EXTENDS PprofCore, FiniteSets

CONSTANTS Profiles, EmptyBytes, BadGzip, BadProto, Absent, Unreadable, InFlux,
          NoFile, NoError,
          Message,    \* Message[p]: the profile.proto message of payload p
          UnitLists,  \* the results of source::resolve to build from
          Limit,      \* elements or bytes at which a column overflows (2^31)
          Size(_),    \* the bytes of a text
          NumberSize  \* the bytes of a number label

ASSUME LimitAssumption   == Limit \in Nat \ {0} /\ NumberSize \in Nat
ASSUME MessageAssumption == Message \in [Profiles -> ProfileType]
ASSUME UnitListsAssumption ==
  \A us \in UnitLists :
    /\ Len(us) \in Nat /\ DOMAIN us = 1..Len(us)
    /\ \A b \in DOMAIN us : IF us[b].result.ok THEN us[b].result.value \in Profiles
                           ELSE us[b].result.value # NoError

ASSUME SizeAssumption ==
  /\ \A p \in Profiles : \A n \in DOMAIN Message[p].strings :
       Size(Message[p].strings[n]) \in Nat
  /\ \A us \in UnitLists : \A b \in DOMAIN us :
       /\ us[b].file # NoFile => Size(us[b].file) \in Nat
       /\ ~us[b].result.ok    => Size(us[b].result.value) \in Nat

\* One schema field and one entry of try_new's vec!: a builder and what it is
\* given.  Types are named after the builders of arrow_build.rs.
F(name, type)    == [name |-> name, type |-> type]
C(builder, field) == [type |-> builder, field |-> field]

Nested == {"list_i64", "list_u64", "list_frame", "list_lineref", "list_value_type", "map"}

Trailing == <<F("file", "str"), F("error", "str")>>

StacksSchema    == <<F("sample_id", "i64"), F("value", "list_i64"), F("labels", "map"),
                     F("frame", "list_frame")>>
SamplesSchema   == <<F("sample_id", "i64"), F("location_ids", "list_u64"),
                     F("value", "list_i64"), F("labels", "map")>>
FunctionsSchema == <<F("function_id", "u64"), F("name", "str"), F("system_name", "str"),
                     F("filename", "str"), F("start_line", "i64")>>
LocationsSchema == <<F("location_id", "u64"), F("address", "u64"), F("mapping_id", "u64"),
                     F("lines", "list_lineref")>>
MappingsSchema  == <<F("mapping_id", "u64"), F("memory_start", "u64"),
                     F("memory_limit", "u64"), F("file_offset", "u64"),
                     F("filename", "str"), F("build_id", "str")>>
MetaSchema      == <<F("sample_types", "list_value_type"), F("period", "i64"),
                     F("period_type", "value_type"), F("duration_nanos", "i64"),
                     F("time_nanos", "i64"), F("default_sample_type", "str")>>

\* Faulty variants: two columns of one type change places; two of different types.
FunctionsColumnsSwapped ==
  <<C("u64", "function_id"), C("str", "system_name"), C("str", "name"),
    C("str", "filename"), C("i64", "start_line")>>
MetaColumnsSwapped ==
  <<C("list_value_type", "sample_types"), C("value_type", "period_type"),
    C("i64", "period"), C("i64", "duration_nanos"), C("i64", "time_nanos"),
    C("str", "default_sample_type")>>

StacksColumns    == <<C("i64", "sample_id"), C("list_i64", "value"), C("map", "labels"),
                      C("list_frame", "frames")>>
SamplesColumns   == <<C("i64", "sample_id"), C("list_u64", "location_ids"),
                      C("list_i64", "value"), C("map", "labels")>>
FunctionsColumns == <<C("u64", "function_id"), C("str", "name"), C("str", "system_name"),
                      C("str", "filename"), C("i64", "start_line")>>
LocationsColumns == <<C("u64", "location_id"), C("u64", "address"), C("u64", "mapping_id"),
                      C("list_lineref", "lines")>>
MappingsColumns  == <<C("u64", "mapping_id"), C("u64", "memory_start"),
                      C("u64", "memory_limit"), C("u64", "file_offset"),
                      C("str", "filename"), C("str", "build_id")>>
MetaColumns      == <<C("list_value_type", "sample_types"), C("i64", "period"),
                      C("value_type", "period_type"), C("i64", "duration_nanos"),
                      C("i64", "time_nanos"), C("str", "default_sample_type")>>

\* The columns metadata() documents for clients that never see the Arrow schema, by
\* name and DuckDB type; trailing_result_columns ends them all.
ValuesSql     == "BIGINT[]"
IdsSql        == "UBIGINT[]"
LabelsSql     == "MAP(VARCHAR, VARCHAR)"
FrameSql      == "STRUCT(function VARCHAR, filename VARCHAR, line BIGINT, address UBIGINT)[]"
LinesSql      == "STRUCT(function_id UBIGINT, line BIGINT)[]"
ValueTypeSql  == "STRUCT(type VARCHAR, unit VARCHAR)"
ValueTypesSql == "STRUCT(type VARCHAR, unit VARCHAR)[]"

\* Faulty variant: the documentation of samples lists the stacks table's order.
SamplesDocsReordered ==
  <<F("sample_id", "BIGINT"), F("value", ValuesSql), F("labels", LabelsSql),
    F("location_ids", IdsSql)>>

StacksDocs    == <<F("sample_id", "BIGINT"), F("value", ValuesSql),
                   F("labels", LabelsSql), F("frame", FrameSql)>>
SamplesDocs   == <<F("sample_id", "BIGINT"), F("location_ids", IdsSql),
                   F("value", ValuesSql), F("labels", LabelsSql)>>
FunctionsDocs == <<F("function_id", "UBIGINT"), F("name", "VARCHAR"),
                   F("system_name", "VARCHAR"), F("filename", "VARCHAR"),
                   F("start_line", "BIGINT")>>
LocationsDocs == <<F("location_id", "UBIGINT"), F("address", "UBIGINT"),
                   F("mapping_id", "UBIGINT"),
                   F("lines", LinesSql)>>
MappingsDocs  == <<F("mapping_id", "UBIGINT"), F("memory_start", "UBIGINT"),
                   F("memory_limit", "UBIGINT"), F("file_offset", "UBIGINT"),
                   F("filename", "VARCHAR"), F("build_id", "VARCHAR")>>
MetaDocs      == <<F("sample_types", ValueTypesSql),
                   F("period", "BIGINT"), F("period_type", ValueTypeSql),
                   F("duration_nanos", "BIGINT"), F("time_nanos", "BIGINT"),
                   F("default_sample_type", "VARCHAR")>>
TrailingDocs  == <<F("file", "VARCHAR"), F("error", "VARCHAR")>>

\* What DuckDB calls the Arrow types of arrow_build.rs.
SqlType == [i64 |-> "BIGINT", u64 |-> "UBIGINT", str |-> "VARCHAR",
            list_i64 |-> ValuesSql, list_u64 |-> IdsSql,
            list_frame |-> FrameSql,
            list_lineref |-> LinesSql,
            value_type |-> ValueTypeSql,
            list_value_type |-> ValueTypesSql,
            map |-> LabelsSql]

TableNames == {"stacks", "samples", "functions", "locations", "mappings", "meta"}

\* A table's declared fields, its built columns and the rows of its view.
Schema  == [stacks    |-> StacksSchema,    samples  |-> SamplesSchema,
            functions |-> FunctionsSchema, locations |-> LocationsSchema,
            mappings  |-> MappingsSchema,  meta     |-> MetaSchema]
Columns == [stacks    |-> StacksColumns,    samples  |-> SamplesColumns,
            functions |-> FunctionsColumns, locations |-> LocationsColumns,
            mappings  |-> MappingsColumns,  meta     |-> MetaColumns]
Docs    == [stacks    |-> StacksDocs,    samples  |-> SamplesDocs,
            functions |-> FunctionsDocs, locations |-> LocationsDocs,
            mappings  |-> MappingsDocs,  meta     |-> MetaDocs]
View(t, p) ==
  CASE t = "stacks"    -> Stacks(p)
    [] t = "samples"   -> Samples(p)
    [] t = "functions" -> Functions(p)
    [] t = "locations" -> Locations(p)
    [] t = "mappings"  -> Mappings(p)
    [] t = "meta"      -> <<Meta(p)>>

VARIABLES
  table, units, \* what build is called on
  phase,        \* "rows", "columns", "done", "mismatch" (an error), "panicked"
  u, r,         \* the next unit and the next row of its view, counted from 1
  cols,         \* the data columns, by position: one cell a row, None for NULL
  file, error   \* the two trailing columns

vars == <<table, units, phase, u, r, cols, file, error>>

\* Every vector has one entry a row: a row is pushed whole.
TypeOK ==
  /\ table \in TableNames /\ units \in UnitLists
  /\ phase \in {"rows", "columns", "done", "mismatch", "panicked"}
  /\ u \in 1..(Len(units) + 1) /\ r \in Nat \ {0}
  /\ DOMAIN cols = DOMAIN Columns[table]
  /\ \A m \in DOMAIN cols : Len(cols[m]) = Len(file)
  /\ Len(error) = Len(file)

Init ==
  /\ table \in TableNames /\ units \in UnitLists
  /\ phase = "rows" /\ u = 1 /\ r = 1
  /\ cols = [m \in DOMAIN Columns[table] |-> <<>>] /\ file = <<>> /\ error = <<>>

Result == units[u].result
Rows   == View(table, Message[Result.value])

\* Faulty variant: the file is pushed once a unit, on its first row.
PushRowFileOnce ==
  /\ phase = "rows" /\ u <= Len(units) /\ Result.ok /\ r <= Len(Rows)
  /\ cols' = [m \in DOMAIN cols |-> Append(cols[m], Rows[r][Columns[table][m].field])]
  /\ file' = Append(file, IF r = 1 THEN units[u].file ELSE NoFile)
  /\ error' = Append(error, None)
  /\ r' = r + 1 /\ UNCHANGED <<table, units, phase, u>>

\* Some(..) of the next row on every column.
PushRow ==
  /\ phase = "rows" /\ u <= Len(units) /\ Result.ok /\ r <= Len(Rows)
  /\ cols' = [m \in DOMAIN cols |-> Append(cols[m], Rows[r][Columns[table][m].field])]
  /\ file' = Append(file, units[u].file) /\ error' = Append(error, None)
  /\ r' = r + 1 /\ UNCHANGED <<table, units, phase, u>>

UnitDone ==
  /\ phase = "rows" /\ u <= Len(units) /\ Result.ok /\ r > Len(Rows)
  /\ u' = u + 1 /\ r' = 1 /\ UNCHANGED <<table, units, phase, cols, file, error>>

\* Faulty variant: the error row forgets the data columns.
PushErrorAlone ==
  /\ phase = "rows" /\ u <= Len(units) /\ ~Result.ok
  /\ file' = Append(file, units[u].file) /\ error' = Append(error, Result.value)
  /\ u' = u + 1 /\ UNCHANGED <<table, units, phase, r, cols>>

\* None on every data column.
PushError ==
  /\ phase = "rows" /\ u <= Len(units) /\ ~Result.ok
  /\ cols' = [m \in DOMAIN cols |-> Append(cols[m], None)]
  /\ file' = Append(file, units[u].file) /\ error' = Append(error, Result.value)
  /\ u' = u + 1 /\ UNCHANGED <<table, units, phase, r>>

\* The builders: a nested column's i32 offsets count elements (ArrowList, whose RowsFit
\* is taken to hold: no one row has 2 * Limit of them), and those of every string
\* builder, of a VARCHAR column or inside a nested one, count bytes.
SumOf(ns) ==
  LET sum[n \in 0..Len(ns)] == IF n = 0 THEN 0 ELSE sum[n-1] + ns[n]
  IN  sum[Len(ns)]

Amounts(Amount(_), col) ==
  [n \in DOMAIN col |-> IF col[n] \in {None, NoFile} THEN 0 ELSE Amount(col[n])]

Total(Amount(_), col) == SumOf(Amounts(Amount, col))

Parts == [list_frame |-> {"function", "filename"}, list_value_type |-> {"type", "unit"},
          value_type |-> {"type", "unit"}, map |-> {"key", "value"}]
PartSize(type, part, x) ==
  CASE x[part] = None -> 0
    [] type = "map" /\ part = "value" ->
         IF x[part].num = None THEN Size(x[part].text) ELSE NumberSize
    [] OTHER -> Size(x[part])

PartBytes(type, part, cell) ==
  IF type = "value_type" THEN PartSize(type, part, cell)
  ELSE SumOf([n \in DOMAIN cell |-> PartSize(type, part, cell[n])])

Overflows(type, col) ==
  \/ type \in Nested /\ Total(Len, col) >= Limit
  \/ type = "str" /\ Total(Size, col) >= Limit
  \/ type \in DOMAIN Parts /\ \E part \in Parts[type] :
       Total(LAMBDA cell : PartBytes(type, part, cell), col) >= Limit

BuildColumns ==
  /\ phase = "rows" /\ u > Len(units)
  /\ phase' = IF \/ \E m \in DOMAIN cols : Overflows(Columns[table][m].type, cols[m])
                 \/ Overflows("str", file) \/ Overflows("str", error)
              THEN "panicked" ELSE "columns"
  /\ UNCHANGED <<table, units, u, r, cols, file, error>>

\* RecordBatch::try_new: as many columns as fields, of their types, equally long.
Agrees ==
  /\ Len(Columns[table]) = Len(Schema[table])
  /\ \A m \in DOMAIN cols : /\ Columns[table][m].type = Schema[table][m].type
                            /\ Len(cols[m]) = Len(file)

TryNew ==
  /\ phase = "columns" /\ phase' = IF Agrees THEN "done" ELSE "mismatch"
  /\ UNCHANGED <<table, units, u, r, cols, file, error>>

Next == PushRow \/ UnitDone \/ PushError \/ BuildColumns \/ TryNew

Spec == Init /\ [][Next]_vars /\ WF_vars(Next)

-------------------------------------------------------------------------------
\* DecodeUnits for one table: a profile has as many rows as the table's view.
D(t) == INSTANCE DecodeUnits WITH RowCount <- [p \in Profiles |-> Len(View(t, Message[p]))]

\* The view's name for a column; only the stack differs.
ViewField(name) == IF name = "frame" THEN "frames" ELSE name

\* The rows of the batch after the first `start` ones are those of a block, read by the
\* declared column names.
HoldsBlock(start, block) ==
  \A n \in DOMAIN block.rows :
    /\ file[start + n] = block.file
    /\ error[start + n] = IF block.error = NoError THEN None ELSE block.error
    /\ \A m \in DOMAIN Schema[table] :
         cols[m][start + n] =
           IF block.rows[n] = D(table)!NullRow THEN None
           ELSE View(table, Message[block.rows[n][1]])[block.rows[n][2]]
                  [ViewField(Schema[table][m].name)]

\* A batch is the blocks Scan delivers, one after another and nothing else: for every
\* decoded unit the rows of its view with the unit's file and no error, for every
\* other unit one row with its file and message and NULL in every other column; cut[b]
\* is the rows of the first b blocks (table/mod.rs:3-8, arrow_build.rs:9-11).
BatchIsBlocks ==
  phase = "done" =>
    \E cut \in [0..Len(units) -> 0..Len(file)] :
      /\ cut[0] = 0 /\ cut[Len(units)] = Len(file)
      /\ \A b \in DOMAIN units :
           LET block == D(table)!Build(units)[b]
           IN  cut[b] = cut[b - 1] + Len(block.rows) /\ HoldsBlock(cut[b - 1], block)

\* What the units themselves have for a field of the view, or for the file and error
\* columns: counted by its places, element by element and byte by byte.
ViewOf(b) == IF units[b].result.ok THEN View(table, Message[units[b].result.value])
             ELSE <<>>

Held(Amount(_), field) ==
  Cardinality(UNION {UNION {{<<b, n>>} \X (1..Amount(ViewOf(b)[n][field])) :
                              n \in {n \in DOMAIN ViewOf(b) : ViewOf(b)[n][field] # None}} :
                       b \in DOMAIN units})

FileBytes ==
  Cardinality(UNION {{b} \X (1..Len(D(table)!Build(units)[b].rows)) \X (1..Size(units[b].file)) :
                       b \in {b \in DOMAIN units : units[b].file # NoFile}})

ErrorBytes ==
  Cardinality(UNION {{b} \X (1..Size(units[b].result.value)) :
                       b \in {b \in DOMAIN units : ~units[b].result.ok}})

TooMuchFor(type, field) ==
  \/ type \in Nested /\ Held(Len, field) >= Limit
  \/ type = "str"    /\ Held(Size, field) >= Limit
  \/ type \in DOMAIN Parts /\ \E part \in Parts[type] :
       Held(LAMBDA cell : PartBytes(type, part, cell), field) >= Limit

\* The rows of a whole glob are lost to a panic exactly when what its units have for
\* one column reaches the limit of that column's offsets, all files together: an
\* element count, the bytes of a text, the name of a file once for each of its rows,
\* or the messages of the failed files.  No row that is counted is missing from the
\* columns, and none is counted twice (table/mod.rs:71-74, arrow_build.rs:115-121).
LostExactlyAtLimit ==
  phase # "rows" =>
    (phase = "panicked" <=>
       \/ \E m \in DOMAIN Schema[table] :
            TooMuchFor(Schema[table][m].type, ViewField(Schema[table][m].name))
       \/ FileBytes >= Limit \/ ErrorBytes >= Limit)

\* The schema a table declares on bind and the columns it builds never disagree,
\* whatever it is built from (arrow_build.rs:4-7).
BatchMatchesSchema == phase # "mismatch"

\* A client that writes SQL from the documentation finds every documented column under
\* its name, at its place and with its DuckDB type, and no other column in the batch
\* (meta.rs:98-99).
BatchMatchesDocs ==
  phase = "done" =>
    LET docs == Docs[table] \o TrailingDocs
    IN  /\ Len(docs) = Len(cols) + 2
        /\ \A m \in DOMAIN docs :
             docs[m] =
               IF m <= Len(cols) THEN F(Schema[table][m].name, SqlType[Columns[table][m].type])
               ELSE F(Trailing[m - Len(cols)].name, SqlType[Trailing[m - Len(cols)].type])
=============================================================================
