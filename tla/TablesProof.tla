----------------------------- MODULE TablesProof -----------------------------
(***************************************************************************)
(* Theorems about Tables: whatever units a batch is built from, its        *)
(* vectors stay as long as each other and fit the schema of its table, and *)
(* its rows are those promised, in the documented columns.                 *)
(***************************************************************************)
EXTENDS Tables, CoreProof

\* A vector is a sequence of whatever has been pushed onto it.
IsVector(v) == \E S : v \in Seq(S)

LEMMA PushedVector ==
  ASSUME NEW v, IsVector(v), NEW x
  PROVE  IsVector(Append(v, x)) /\ Len(Append(v, x)) = Len(v) + 1
<1>1. PICK S : v \in Seq(S)
      BY DEF IsVector
<1>2. v \in Seq(S \cup {x})
      BY <1>1
<1>3. Append(v, x) \in Seq(S \cup {x}) /\ Len(Append(v, x)) = Len(v) + 1
      BY <1>2
<1>. QED BY <1>3 DEF IsVector

Vectors ==
  /\ IsVector(file) /\ IsVector(error)
  /\ \A m \in DOMAIN cols : IsVector(cols[m])

\* In every table the columns have, position by position, the fields' types.
LEMMA ColumnsFitSchema ==
  ASSUME NEW t \in TableNames
  PROVE  /\ Len(Columns[t]) = Len(Schema[t])
         /\ DOMAIN Columns[t] = 1..Len(Columns[t])
         /\ \A m \in DOMAIN Columns[t] : Columns[t][m].type = Schema[t][m].type
<1>. USE DEF F, C
<1>1. CASE t = "stacks"
  <2>1. Columns[t] = StacksColumns /\ Schema[t] = StacksSchema
        BY <1>1 DEF Columns, Schema
  <2>. QED BY <2>1 DEF StacksColumns, StacksSchema
<1>2. CASE t = "samples"
  <2>1. Columns[t] = SamplesColumns /\ Schema[t] = SamplesSchema
        BY <1>2 DEF Columns, Schema
  <2>. QED BY <2>1 DEF SamplesColumns, SamplesSchema
<1>3. CASE t = "functions"
  <2>1. Columns[t] = FunctionsColumns /\ Schema[t] = FunctionsSchema
        BY <1>3 DEF Columns, Schema
  <2>. QED BY <2>1 DEF FunctionsColumns, FunctionsSchema
<1>4. CASE t = "locations"
  <2>1. Columns[t] = LocationsColumns /\ Schema[t] = LocationsSchema
        BY <1>4 DEF Columns, Schema
  <2>. QED BY <2>1 DEF LocationsColumns, LocationsSchema
<1>5. CASE t = "mappings"
  <2>1. Columns[t] = MappingsColumns /\ Schema[t] = MappingsSchema
        BY <1>5 DEF Columns, Schema
  <2>. QED BY <2>1 DEF MappingsColumns, MappingsSchema
<1>6. CASE t = "meta"
  <2>1. Columns[t] = MetaColumns /\ Schema[t] = MetaSchema
        BY <1>6 DEF Columns, Schema
  <2>. QED BY <2>1 DEF MetaColumns, MetaSchema
<1>. QED BY <1>1, <1>2, <1>3, <1>4, <1>5, <1>6 DEF TableNames

Inv == TypeOK /\ Vectors /\ BatchMatchesSchema

LEMMA TableInit == Init => Inv
<1>. SUFFICES ASSUME Init PROVE Inv
     OBVIOUS
<1>1. IsVector(<<>>)
      BY DEF IsVector
<1>2. Len(units) \in Nat
      BY UnitListsAssumption DEF Init
<1>3. /\ DOMAIN cols = DOMAIN Columns[table]
      /\ \A m \in DOMAIN cols : cols[m] = <<>>
      BY DEF Init
<1>4. Vectors
      BY <1>1, <1>3 DEF Init, Vectors
<1>5. TypeOK
      BY <1>2, <1>3 DEF Init, TypeOK
<1>. QED BY <1>4, <1>5 DEF Init, Inv, BatchMatchesSchema

\* Pushing one cell on every column keeps the columns vectors of one length.
LEMMA PushKeepsLength ==
  ASSUME TypeOK, Vectors, NEW cell, NEW x, NEW y,
         cols' = [m \in DOMAIN cols |-> Append(cols[m], cell[m])],
         file' = Append(file, x), error' = Append(error, y), table' = table
  PROVE  /\ Vectors'
         /\ (DOMAIN cols = DOMAIN Columns[table])'
         /\ (\A m \in DOMAIN cols : Len(cols[m]) = Len(file))'
         /\ (Len(error) = Len(file))'
<1>1. /\ IsVector(file') /\ Len(file') = Len(file) + 1
      /\ IsVector(error') /\ Len(error') = Len(error) + 1
      BY PushedVector DEF Vectors
<1>2. DOMAIN cols' = DOMAIN cols
      OBVIOUS
<1>3. \A m \in DOMAIN cols' : IsVector(cols'[m]) /\ Len(cols'[m]) = Len(cols[m]) + 1
  <2>. SUFFICES ASSUME NEW m \in DOMAIN cols
                PROVE  IsVector(cols'[m]) /\ Len(cols'[m]) = Len(cols[m]) + 1
       BY <1>2
  <2>1. cols'[m] = Append(cols[m], cell[m])
        OBVIOUS
  <2>2. IsVector(cols[m])
        BY DEF Vectors
  <2>. QED BY <2>1, <2>2, PushedVector
<1>. QED BY <1>1, <1>2, <1>3 DEF TypeOK, Vectors

LEMMA ColumnsAgree == ASSUME TypeOK PROVE Agrees
<1>1. table \in TableNames
      BY DEF TypeOK
<1>. QED BY <1>1, ColumnsFitSchema DEF TypeOK, Agrees

LEMMA TableStep == Inv /\ [Next]_vars => Inv'
<1>. SUFFICES ASSUME Inv, [Next]_vars PROVE Inv'
     OBVIOUS
<1>. USE DEF Inv
<1>0. Len(units) \in Nat
      BY UnitListsAssumption DEF TypeOK
<1>1. CASE PushRow
  <2>1. /\ cols' = [m \in DOMAIN cols |-> Append(cols[m], Rows[r][Columns[table][m].field])]
        /\ file' = Append(file, units[u].file) /\ error' = Append(error, None)
        /\ r' = r + 1 /\ UNCHANGED <<table, units, phase, u>>
        BY <1>1 DEF PushRow
  <2>2. /\ Vectors'
        /\ (DOMAIN cols = DOMAIN Columns[table])'
        /\ (\A m \in DOMAIN cols : Len(cols[m]) = Len(file))'
        /\ (Len(error) = Len(file))'
    <3> DEFINE cell == [m \in DOMAIN cols |-> Rows[r][Columns[table][m].field]]
    <3>1. cols' = [m \in DOMAIN cols |-> Append(cols[m], cell[m])]
          BY <2>1
    <3>. HIDE DEF cell
    <3>. QED BY <2>1, <3>1, PushKeepsLength, Zenon
  <2>3. r' \in Nat \ {0}
        BY <2>1 DEF TypeOK
  <2>. QED BY <2>1, <2>2, <2>3 DEF TypeOK, BatchMatchesSchema
<1>2. CASE PushError
  <2>1. /\ cols' = [m \in DOMAIN cols |-> Append(cols[m], None)]
        /\ file' = Append(file, units[u].file) /\ error' = Append(error, Result.value)
        /\ u' = u + 1 /\ u <= Len(units) /\ UNCHANGED <<table, units, phase, r>>
        BY <1>2 DEF PushError
  <2>2. /\ Vectors'
        /\ (DOMAIN cols = DOMAIN Columns[table])'
        /\ (\A m \in DOMAIN cols : Len(cols[m]) = Len(file))'
        /\ (Len(error) = Len(file))'
    <3> DEFINE cell == [m \in DOMAIN cols |-> None]
    <3>1. cols' = [m \in DOMAIN cols |-> Append(cols[m], cell[m])]
          BY <2>1
    <3>. HIDE DEF cell
    <3>. QED BY <2>1, <3>1, PushKeepsLength, Zenon
  <2>3. u' \in 1..(Len(units) + 1)
        BY <1>0, <2>1 DEF TypeOK
  <2>. QED BY <2>1, <2>2, <2>3 DEF TypeOK, BatchMatchesSchema
<1>3. CASE UnitDone
  <2>1. u' \in 1..(Len(units) + 1)
        BY <1>0, <1>3 DEF UnitDone, TypeOK
  <2>. QED BY <1>3, <2>1 DEF UnitDone, TypeOK, Vectors, BatchMatchesSchema
<1>4. CASE BuildColumns
  <2>1. phase' \in {"panicked", "columns"} /\ UNCHANGED <<table, units, u, r, cols, file, error>>
        BY <1>4, Zenon DEF BuildColumns
  <2>. QED BY <2>1 DEF TypeOK, Vectors, BatchMatchesSchema
<1>5. CASE TryNew
  <2>1. phase' = "done" /\ UNCHANGED <<table, units, u, r, cols, file, error>>
        BY <1>5, ColumnsAgree DEF TryNew
  <2>. QED BY <2>1 DEF TypeOK, Vectors, BatchMatchesSchema
<1>6. CASE UNCHANGED vars
      BY <1>6 DEF vars, TypeOK, Vectors, BatchMatchesSchema
<1>. QED BY <1>1, <1>2, <1>3, <1>4, <1>5, <1>6 DEF Next

LEMMA TableInvariance == Spec => []Inv
BY TableInit, TableStep, PTL DEF Spec

\* Every vector of a batch, the two trailing ones included, has one entry for every
\* row, whatever units it is built from: an error row leaves no column short.
THEOREM VectorsKeepPace == Spec => []TypeOK
<1>1. Inv => TypeOK
      BY DEF Inv
<1>. QED BY <1>1, TableInvariance, PTL

\* RecordBatch::try_new never refuses what build made: of all six tables, for any units,
\* the columns fit the schema that on_bind declared (arrow_build.rs:4-7).
THEOREM SchemasAgree == Spec => []BatchMatchesSchema
<1>1. Inv => BatchMatchesSchema
      BY DEF Inv
<1>. QED BY <1>1, TableInvariance, PTL

-------------------------------------------------------------------------------
(* The rows of a batch *)

\* A function on 1..n is a sequence of length n.
LEMMA LenOfTable ==
  ASSUME NEW n \in Nat, NEW f, f = [x \in 1..n |-> f[x]]
  PROVE  Len(f) = n
<1> DEFINE S == {f[x] : x \in 1..n}
<1>1. f \in [1..n -> S]
  <2>1. \A x \in 1..n : f[x] \in S
        OBVIOUS
  <2>. HIDE DEF S
  <2>. QED BY <2>1
<1>. HIDE DEF S
<1>. QED BY <1>1

LEMMA ViewLength ==
  ASSUME NEW t \in TableNames, NEW p \in Profiles
  PROVE  Len(View(t, Message[p])) \in Nat
<1>1. PICK q \in ProfileType : q = Message[p]
      BY MessageAssumption
<1>2. /\ q.sample \in Seq(SampleType) /\ q.function \in Seq(FunctionType)
      /\ q.location \in Seq(LocationType) /\ q.mapping \in Seq(MappingType)
      BY DEF ProfileType
<1>3. Len(Stacks(q)) = Len(q.sample)
  <2>1. Stacks(q) = [x \in 1..Len(q.sample) |-> Stacks(q)[x]]
        BY <1>2 DEF Stacks
  <2>. QED BY <1>2, <2>1, LenOfTable
<1>4. Len(Samples(q)) = Len(q.sample)
  <2>1. Samples(q) = [x \in 1..Len(q.sample) |-> Samples(q)[x]]
        BY <1>2 DEF Samples
  <2>. QED BY <1>2, <2>1, LenOfTable
<1>5. Len(Functions(q)) = Len(q.function)
  <2>1. Functions(q) = [x \in 1..Len(q.function) |-> Functions(q)[x]]
        BY <1>2 DEF Functions
  <2>. QED BY <1>2, <2>1, LenOfTable
<1>6. Len(Locations(q)) = Len(q.location)
  <2>1. Locations(q) = [x \in 1..Len(q.location) |-> Locations(q)[x]]
        BY <1>2 DEF Locations
  <2>. QED BY <1>2, <2>1, LenOfTable
<1>7. Len(Mappings(q)) = Len(q.mapping)
  <2>1. Mappings(q) = [x \in 1..Len(q.mapping) |-> Mappings(q)[x]]
        BY <1>2 DEF Mappings
  <2>. QED BY <1>2, <2>1, LenOfTable
<1>8. Len(<<Meta(q)>>) = 1
      OBVIOUS
<1>. QED BY <1>1, <1>2, <1>3, <1>4, <1>5, <1>6, <1>7, <1>8 DEF View, TableNames

\* Every column is the field of the view that its declared name says.
LEMMA ColumnsReadTheirFields ==
  ASSUME NEW t \in TableNames
  PROVE  /\ DOMAIN Schema[t] = DOMAIN Columns[t]
         /\ \A m \in DOMAIN Columns[t] :
              Columns[t][m].field = ViewField(Schema[t][m].name)
<1>. USE DEF F, C, ViewField
<1>1. CASE t = "stacks"
  <2>1. Columns[t] = StacksColumns /\ Schema[t] = StacksSchema
        BY <1>1 DEF Columns, Schema
  <2>. QED BY <2>1 DEF StacksColumns, StacksSchema
<1>2. CASE t = "samples"
  <2>1. Columns[t] = SamplesColumns /\ Schema[t] = SamplesSchema
        BY <1>2 DEF Columns, Schema
  <2>. QED BY <2>1 DEF SamplesColumns, SamplesSchema
<1>3. CASE t = "functions"
  <2>1. Columns[t] = FunctionsColumns /\ Schema[t] = FunctionsSchema
        BY <1>3 DEF Columns, Schema
  <2>. QED BY <2>1 DEF FunctionsColumns, FunctionsSchema
<1>4. CASE t = "locations"
  <2>1. Columns[t] = LocationsColumns /\ Schema[t] = LocationsSchema
        BY <1>4 DEF Columns, Schema
  <2>. QED BY <2>1 DEF LocationsColumns, LocationsSchema
<1>5. CASE t = "mappings"
  <2>1. Columns[t] = MappingsColumns /\ Schema[t] = MappingsSchema
        BY <1>5 DEF Columns, Schema
  <2>. QED BY <2>1 DEF MappingsColumns, MappingsSchema
<1>6. CASE t = "meta"
  <2>1. Columns[t] = MetaColumns /\ Schema[t] = MetaSchema
        BY <1>6 DEF Columns, Schema
  <2>. QED BY <2>1 DEF MetaColumns, MetaSchema
<1>. QED BY <1>1, <1>2, <1>3, <1>4, <1>5, <1>6 DEF TableNames

\* The rows a unit ought to have, and row n of them at place `at` of a batch.
RowsOf(t, unit) ==
  IF unit.result.ok THEN Len(View(t, Message[unit.result.value])) ELSE 1

RowIs(t, cs, fs, es, at, unit, n) ==
  /\ fs[at] = unit.file
  /\ es[at] = IF unit.result.ok THEN None ELSE unit.result.value
  /\ \A m \in DOMAIN cs :
       cs[m][at] = IF unit.result.ok
                   THEN View(t, Message[unit.result.value])[n][Columns[t][m].field]
                   ELSE None

\* Appending a row leaves the others where they are.
LEMMA PushedRow ==
  ASSUME Inv, NEW cell, NEW x, NEW y,
         cols' = [m \in DOMAIN cols |-> Append(cols[m], cell[m])],
         file' = Append(file, x), error' = Append(error, y)
  PROVE  /\ Len(file) \in Nat /\ Len(file') = Len(file) + 1
         /\ \A at \in 1..Len(file) : \A unit, n :
              RowIs(table, cols, file, error, at, unit, n)
                => RowIs(table, cols', file', error', at, unit, n)
         /\ file'[Len(file) + 1] = x /\ error'[Len(file) + 1] = y
         /\ DOMAIN cols' = DOMAIN cols
         /\ \A m \in DOMAIN cols : cols'[m][Len(file) + 1] = cell[m]
<1>1. ASSUME NEW v, NEW z, IsVector(v)
      PROVE  /\ Len(v) \in Nat /\ Append(v, z)[Len(v) + 1] = z
             /\ \A at \in 1..Len(v) : Append(v, z)[at] = v[at]
  <2>1. PICK S : v \in Seq(S)
        BY <1>1 DEF IsVector
  <2>. QED BY <2>1
<1>2. /\ IsVector(file) /\ IsVector(error) /\ Len(error) = Len(file)
      /\ \A m \in DOMAIN cols : IsVector(cols[m]) /\ Len(cols[m]) = Len(file)
      BY DEF Inv, Vectors, TypeOK
<1>3. /\ Len(file) \in Nat /\ Len(file') = Len(file) + 1
      /\ \A at \in 1..Len(file) : file'[at] = file[at] /\ error'[at] = error[at]
      /\ file'[Len(file) + 1] = x /\ error'[Len(file) + 1] = y
      BY <1>1, <1>2, PushedVector
<1>4. DOMAIN cols' = DOMAIN cols
      OBVIOUS
<1>5. ASSUME NEW m \in DOMAIN cols
      PROVE  /\ cols'[m][Len(file) + 1] = cell[m]
             /\ \A at \in 1..Len(file) : cols'[m][at] = cols[m][at]
  <2>1. cols'[m] = Append(cols[m], cell[m])
        OBVIOUS
  <2>. QED BY <1>1, <1>2, <2>1
<1>6. ASSUME NEW at \in 1..Len(file), NEW unit, NEW n,
             RowIs(table, cols, file, error, at, unit, n)
      PROVE  RowIs(table, cols', file', error', at, unit, n)
  <2>1. file'[at] = file[at] /\ error'[at] = error[at]
        BY <1>3
  <2>2. \A m \in DOMAIN cols' : m \in DOMAIN cols /\ cols'[m][at] = cols[m][at]
        BY <1>4, <1>5
  <2>. QED BY <1>6, <2>1, <2>2, Zenon DEF RowIs
<1>. QED BY <1>3, <1>4, <1>5, <1>6

\* The first q units are in the batch, unit b from row cut[b - 1] on.
Blocks(t, us, cs, fs, es, cut, q) ==
  \A b \in 1..q :
    /\ cut[b] = cut[b - 1] + RowsOf(t, us[b])
    /\ \A n \in 1..RowsOf(t, us[b]) : RowIs(t, cs, fs, es, cut[b - 1] + n, us[b], n)

\* The batch so far: the blocks of the units done with, and the first r - 1 rows of the
\* unit at hand.
PlacedBy(cut) ==
  /\ cut \in [0..Len(units) -> 0..Len(file)] /\ cut[0] = 0
  /\ Blocks(table, units, cols, file, error, cut, u - 1)
  /\ Len(file) = cut[u - 1] + (r - 1)
  /\ \A n \in 1..(r - 1) : RowIs(table, cols, file, error, cut[u - 1] + n, units[u], n)
  /\ IF u <= Len(units) /\ Result.ok THEN r - 1 <= RowsOf(table, units[u]) ELSE r = 1

Placed ==
  /\ \E cut \in [0..Len(units) -> 0..Len(file)] : PlacedBy(cut)
  /\ phase # "rows" => u = Len(units) + 1

LEMMA RowsOfType ==
  ASSUME TypeOK, NEW b \in 1..Len(units)
  PROVE  RowsOf(table, units[b]) \in Nat
BY UnitListsAssumption, ViewLength DEF TypeOK, RowsOf

LEMMA PlacedInit == Init => Placed
<1>. SUFFICES ASSUME Init PROVE Placed
     OBVIOUS
<1>1. Len(units) \in Nat /\ file = <<>> /\ u = 1 /\ r = 1 /\ phase = "rows" /\ Len(file) = 0
      BY UnitListsAssumption DEF Init
<1>2. PICK cut : cut = [b \in 0..Len(units) |-> 0]
      OBVIOUS
<1>3. cut \in [0..Len(units) -> 0..Len(file)] /\ cut[0] = 0
      BY <1>1, <1>2
<1>4. Blocks(table, units, cols, file, error, cut, u - 1)
      BY <1>1 DEF Blocks
<1>5. IF u <= Len(units) /\ Result.ok THEN r - 1 <= RowsOf(table, units[u]) ELSE r = 1
  <2>1. CASE u <= Len(units)
    <3>1. RowsOf(table, units[u]) \in Nat
          BY <1>1, <2>1, TableInit, RowsOfType DEF Inv
    <3>. QED BY <1>1, <3>1
  <2>. QED BY <1>1, <2>1
<1>6. PlacedBy(cut)
      BY <1>1, <1>3, <1>4, <1>5 DEF PlacedBy
<1>. QED BY <1>1, <1>3, <1>6 DEF Placed

\* Blocks stay where they are when a row is pushed after them.
LEMMA BlocksStay ==
  ASSUME NEW t, NEW us, NEW cs, NEW fs, NEW es, NEW cs2, NEW fs2, NEW es2, NEW L \in Nat,
         NEW U \in Nat, NEW cut \in [0..U -> 0..L], NEW q \in 0..U,
         \A at \in 1..L : \A unit, n :
           RowIs(t, cs, fs, es, at, unit, n) => RowIs(t, cs2, fs2, es2, at, unit, n),
         \A b \in 1..U : RowsOf(t, us[b]) \in Nat,
         Blocks(t, us, cs, fs, es, cut, q)
  PROVE  Blocks(t, us, cs2, fs2, es2, cut, q)
<1>. SUFFICES ASSUME NEW b \in 1..q, NEW n \in 1..RowsOf(t, us[b])
              PROVE  RowIs(t, cs2, fs2, es2, cut[b - 1] + n, us[b], n)
     BY DEF Blocks
<1>1. /\ cut[b] = cut[b - 1] + RowsOf(t, us[b])
      /\ RowIs(t, cs, fs, es, cut[b - 1] + n, us[b], n)
      BY DEF Blocks
<1>2. cut[b] \in 0..L /\ cut[b - 1] \in 0..L /\ RowsOf(t, us[b]) \in Nat
      OBVIOUS
<1>3. cut[b - 1] + n \in 1..L
      BY <1>1, <1>2
<1>. QED BY <1>1, <1>3

LEMMA PushRowPlaces ==
  ASSUME Inv, Placed, PushRow
  PROVE  Placed'
<1>1. /\ cols' = [m \in DOMAIN cols |-> Append(cols[m], Rows[r][Columns[table][m].field])]
      /\ file' = Append(file, units[u].file) /\ error' = Append(error, None)
      /\ r' = r + 1 /\ UNCHANGED <<table, units, phase, u>>
      /\ phase = "rows" /\ u <= Len(units) /\ Result.ok /\ r <= Len(Rows)
      BY DEF PushRow
<1>2. /\ Len(units) \in Nat /\ u \in 1..Len(units) /\ r \in Nat \ {0}
      /\ RowsOf(table, units[u]) \in Nat
  <2>1. Len(units) \in Nat /\ u \in 1..Len(units) /\ r \in Nat \ {0}
        BY <1>1, UnitListsAssumption DEF Inv, TypeOK
  <2>. QED BY <2>1, RowsOfType DEF Inv
<1>3. Rows = View(table, Message[units[u].result.value]) /\ RowsOf(table, units[u]) = Len(Rows)
      /\ units[u].result.ok
      BY <1>1 DEF Rows, Result, RowsOf
<1>4. PICK cut \in [0..Len(units) -> 0..Len(file)] : PlacedBy(cut)
      BY DEF Placed
<1>5. PICK cell : cell = [m \in DOMAIN cols |-> Rows[r][Columns[table][m].field]]
      OBVIOUS
<1>6. cols' = [m \in DOMAIN cols |-> Append(cols[m], cell[m])]
      BY <1>1, <1>5
<1>7. /\ Len(file) \in Nat /\ Len(file') = Len(file) + 1
      /\ \A at \in 1..Len(file) : \A unit, n :
           RowIs(table, cols, file, error, at, unit, n)
             => RowIs(table, cols', file', error', at, unit, n)
      /\ file'[Len(file) + 1] = units[u].file /\ error'[Len(file) + 1] = None
      /\ DOMAIN cols' = DOMAIN cols
      /\ \A m \in DOMAIN cols : cols'[m][Len(file) + 1] = cell[m]
  <2>1. file' = Append(file, units[u].file) /\ error' = Append(error, None)
        BY <1>1
  <2>. QED BY <1>6, <2>1, PushedRow, Zenon
<1>8. RowIs(table, cols', file', error', Len(file) + 1, units[u], r)
      BY <1>3, <1>5, <1>7 DEF RowIs
<1>9. /\ cut[0] = 0 /\ Len(file) = cut[u - 1] + (r - 1)
      /\ Blocks(table, units, cols, file, error, cut, u - 1)
      /\ \A n \in 1..(r - 1) : RowIs(table, cols, file, error, cut[u - 1] + n, units[u], n)
      BY <1>4 DEF PlacedBy
<1>10. \A b \in 1..Len(units) : RowsOf(table, units[b]) \in Nat
       BY RowsOfType DEF Inv
<1>11. Blocks(table, units, cols', file', error', cut, u - 1)
  <2>1. u - 1 \in 0..Len(units)
        BY <1>2
  <2>. QED BY <1>2, <1>7, <1>9, <1>10, <2>1, BlocksStay
<1>12. cut[u - 1] \in Nat
  <2>1. Len(file) \in Nat /\ u - 1 \in 0..Len(units)
        BY <1>2, <1>7
  <2>. QED BY <2>1
<1>13. ASSUME NEW n \in 1..(r' - 1)
       PROVE  RowIs(table, cols', file', error', cut[u - 1] + n, units[u], n)
  <2>1. CASE n = r
        BY <1>2, <1>8, <1>9, <1>12, <2>1
  <2>2. CASE n # r
    <3>1. n \in 1..(r - 1)
          BY <1>1, <1>2, <2>2
    <3>2. cut[u - 1] + n \in 1..Len(file)
          BY <1>2, <1>9, <1>12, <3>1
    <3>. QED BY <1>7, <1>9, <3>1, <3>2
  <2>. QED BY <2>1, <2>2
<1>14. cut \in [0..Len(units) -> 0..Len(file')]
       BY <1>7
<1>15. PlacedBy(cut)'
  <2>1. Len(file') = cut[u - 1] + (r' - 1)
        BY <1>1, <1>2, <1>7, <1>9, <1>12
  <2>2. r' - 1 <= RowsOf(table, units[u])
    <3>1. r \in Nat /\ r' = r + 1 /\ r <= RowsOf(table, units[u])
          BY <1>1, <1>2, <1>3
    <3>. QED BY <3>1
  <2>. QED BY <1>1, <1>9, <1>11, <1>13, <1>14, <2>1, <2>2 DEF PlacedBy, Result
<1>. QED BY <1>1, <1>14, <1>15 DEF Placed

\* A unit is done with: its rows are there, and the cut after them is where they end.
LEMMA CutMade ==
  ASSUME NEW cut, PlacedBy(cut), Inv, u <= Len(units),
         Len(file) \in Nat, r - 1 = RowsOf(table, units[u]),
         NEW next, next = [cut EXCEPT ![u] = Len(file)]
  PROVE  /\ next \in [0..Len(units) -> 0..Len(file)] /\ next[0] = 0
         /\ next[u] = Len(file)
         /\ Blocks(table, units, cols, file, error, next, u)
<1>1. Len(units) \in Nat /\ u \in 1..Len(units) /\ r \in Nat \ {0}
      BY UnitListsAssumption DEF Inv, TypeOK
<1>2. /\ cut \in [0..Len(units) -> 0..Len(file)] /\ cut[0] = 0
      /\ Blocks(table, units, cols, file, error, cut, u - 1)
      /\ Len(file) = cut[u - 1] + (r - 1)
      /\ \A n \in 1..(r - 1) : RowIs(table, cols, file, error, cut[u - 1] + n, units[u], n)
      BY DEF PlacedBy
<1>3. /\ next \in [0..Len(units) -> 0..Len(file)] /\ next[0] = 0 /\ next[u] = Len(file)
      /\ \A b \in 0..(u - 1) : next[b] = cut[b]
      BY <1>1, <1>2
<1>4. ASSUME NEW b \in 1..u
      PROVE  /\ next[b] = next[b - 1] + RowsOf(table, units[b])
             /\ \A n \in 1..RowsOf(table, units[b]) :
                  RowIs(table, cols, file, error, next[b - 1] + n, units[b], n)
  <2>1. CASE b = u
    <3>1. next[b - 1] = cut[u - 1]
          BY <1>1, <1>3, <2>1
    <3>. QED BY <1>2, <1>3, <2>1, <3>1
  <2>2. CASE b # u
    <3>1. b \in 1..(u - 1) /\ next[b] = cut[b] /\ next[b - 1] = cut[b - 1]
          BY <1>1, <1>3, <2>2
    <3>. QED BY <1>2, <3>1 DEF Blocks
  <2>. QED BY <2>1, <2>2
<1>. QED BY <1>3, <1>4 DEF Blocks

LEMMA UnitDonePlaces ==
  ASSUME Inv, Placed, UnitDone
  PROVE  Placed'
<1>1. /\ u' = u + 1 /\ r' = 1 /\ UNCHANGED <<table, units, phase, cols, file, error>>
      /\ phase = "rows" /\ u <= Len(units) /\ Result.ok /\ r > Len(Rows)
      BY DEF UnitDone
<1>2. /\ Len(units) \in Nat /\ u \in 1..Len(units) /\ r \in Nat \ {0}
      /\ RowsOf(table, units[u]) \in Nat /\ Len(file) \in Nat
  <2>1. Len(units) \in Nat /\ u \in 1..Len(units) /\ r \in Nat \ {0}
        BY <1>1, UnitListsAssumption DEF Inv, TypeOK
  <2>2. Len(file) \in Nat
        BY DEF Inv, Vectors, IsVector
  <2>. QED BY <2>1, <2>2, RowsOfType DEF Inv
<1>3. RowsOf(table, units[u]) = Len(Rows)
      BY <1>1 DEF Rows, Result, RowsOf
<1>4. PICK cut \in [0..Len(units) -> 0..Len(file)] : PlacedBy(cut)
      BY DEF Placed
<1>5. r - 1 = RowsOf(table, units[u])
  <2>1. r - 1 <= RowsOf(table, units[u])
        BY <1>1, <1>4 DEF PlacedBy
  <2>. QED BY <1>1, <1>2, <1>3, <2>1
<1>6. PICK next : next = [cut EXCEPT ![u] = Len(file)]
      OBVIOUS
<1>7. /\ next \in [0..Len(units) -> 0..Len(file)] /\ next[0] = 0
      /\ next[u] = Len(file)
      /\ Blocks(table, units, cols, file, error, next, u)
      BY <1>1, <1>2, <1>4, <1>5, <1>6, CutMade
<1>8. u' - 1 = u /\ r' - 1 = 0
      BY <1>1, <1>2
<1>9. IF u' <= Len(units') /\ Result'.ok THEN r' - 1 <= RowsOf(table', units'[u']) ELSE r' = 1
  <2>1. CASE u' <= Len(units)
    <3>1. RowsOf(table, units[u']) \in Nat
          BY <1>1, <1>2, <2>1, RowsOfType DEF Inv
    <3>. QED BY <1>1, <1>8, <3>1
  <2>. QED BY <1>1, <2>1
<1>10. PlacedBy(next)'
  <2>1. Len(file) = next[u] + 0
        BY <1>2, <1>7
  <2>2. \A n \in 1..(r' - 1) : FALSE
        BY <1>8
  <2>3. Blocks(table, units, cols, file, error, next, u' - 1)
        BY <1>7, <1>8
  <2>. QED BY <1>1, <1>7, <1>8, <1>9, <2>1, <2>2, <2>3 DEF PlacedBy
<1>. QED BY <1>1, <1>7, <1>10 DEF Placed

LEMMA PushErrorPlaces ==
  ASSUME Inv, Placed, PushError
  PROVE  Placed'
<1>1. /\ cols' = [m \in DOMAIN cols |-> Append(cols[m], None)]
      /\ file' = Append(file, units[u].file) /\ error' = Append(error, Result.value)
      /\ u' = u + 1 /\ UNCHANGED <<table, units, phase, r>>
      /\ phase = "rows" /\ u <= Len(units) /\ ~Result.ok
      BY DEF PushError
<1>2. Len(units) \in Nat /\ u \in 1..Len(units)
      BY <1>1, UnitListsAssumption DEF Inv, TypeOK
<1>3. RowsOf(table, units[u]) = 1 /\ ~units[u].result.ok
      BY <1>1 DEF Result, RowsOf
<1>4. PICK cut \in [0..Len(units) -> 0..Len(file)] : PlacedBy(cut)
      BY DEF Placed
<1>5. PICK cell : cell = [m \in DOMAIN cols |-> None]
      OBVIOUS
<1>6. cols' = [m \in DOMAIN cols |-> Append(cols[m], cell[m])]
      BY <1>1, <1>5
<1>7. /\ Len(file) \in Nat /\ Len(file') = Len(file) + 1
      /\ \A at \in 1..Len(file) : \A unit, n :
           RowIs(table, cols, file, error, at, unit, n)
             => RowIs(table, cols', file', error', at, unit, n)
      /\ file'[Len(file) + 1] = units[u].file /\ error'[Len(file) + 1] = Result.value
      /\ DOMAIN cols' = DOMAIN cols
      /\ \A m \in DOMAIN cols : cols'[m][Len(file) + 1] = cell[m]
  <2>1. file' = Append(file, units[u].file) /\ error' = Append(error, Result.value)
        BY <1>1
  <2>. QED BY <1>6, <2>1, PushedRow, Zenon
<1>8. RowIs(table, cols', file', error', Len(file) + 1, units[u], 1)
      BY <1>3, <1>5, <1>7 DEF RowIs, Result
<1>9. /\ cut[0] = 0 /\ r = 1 /\ Len(file) = cut[u - 1] + (r - 1)
      /\ Blocks(table, units, cols, file, error, cut, u - 1)
      BY <1>1, <1>4 DEF PlacedBy
<1>10. Len(file) = cut[u - 1]
       BY <1>2, <1>7, <1>9
<1>11. Blocks(table, units, cols', file', error', cut, u - 1)
  <2>1. u - 1 \in 0..Len(units) /\ \A b \in 1..Len(units) : RowsOf(table, units[b]) \in Nat
        BY <1>2, RowsOfType DEF Inv
  <2>. QED BY <1>2, <1>7, <1>9, <2>1, BlocksStay
<1>12. PICK next : next = [cut EXCEPT ![u] = Len(file')]
       OBVIOUS
<1>13. /\ next \in [0..Len(units) -> 0..Len(file')] /\ next[0] = 0 /\ next[u] = Len(file')
       /\ \A b \in 0..(u - 1) : next[b] = cut[b]
       BY <1>2, <1>7, <1>9, <1>12
<1>14. ASSUME NEW b \in 1..u
       PROVE  /\ next[b] = next[b - 1] + RowsOf(table, units[b])
              /\ \A n \in 1..RowsOf(table, units[b]) :
                   RowIs(table, cols', file', error', next[b - 1] + n, units[b], n)
  <2>1. CASE b = u
    <3>1. next[b - 1] = Len(file) /\ next[b] = Len(file) + 1
          BY <1>2, <1>7, <1>10, <1>13, <2>1
    <3>2. \A n \in 1..RowsOf(table, units[b]) : n = 1
          BY <1>3, <2>1
    <3>. QED BY <1>3, <1>8, <2>1, <3>1, <3>2
  <2>2. CASE b # u
    <3>1. b \in 1..(u - 1) /\ next[b] = cut[b] /\ next[b - 1] = cut[b - 1]
          BY <1>2, <1>13, <2>2
    <3>. QED BY <1>11, <3>1 DEF Blocks
  <2>. QED BY <2>1, <2>2
<1>15. Blocks(table, units, cols', file', error', next, u)
       BY <1>14 DEF Blocks
<1>16. u' - 1 = u /\ r' = 1
       BY <1>1, <1>2, <1>9
<1>17. IF u' <= Len(units') /\ Result'.ok THEN r' - 1 <= RowsOf(table', units'[u']) ELSE r' = 1
  <2>1. CASE u' <= Len(units)
    <3>1. RowsOf(table, units[u']) \in Nat
          BY <1>1, <1>2, <2>1, RowsOfType DEF Inv
    <3>. QED BY <1>1, <1>16, <3>1
  <2>. QED BY <1>1, <1>16, <2>1
<1>18. PlacedBy(next)'
  <2>1. Len(file') = next[u] + (r' - 1)
        BY <1>7, <1>13, <1>16
  <2>2. \A n \in 1..(r' - 1) : FALSE
        BY <1>16
  <2>3. Blocks(table, units, cols', file', error', next, u' - 1)
        BY <1>15, <1>16
  <2>. QED BY <1>1, <1>13, <1>16, <1>17, <2>1, <2>2, <2>3 DEF PlacedBy
<1>. QED BY <1>1, <1>13, <1>18 DEF Placed

LEMMA PlacedStep == Inv /\ Placed /\ [Next]_vars => Placed'
<1>. SUFFICES ASSUME Inv, Placed, [Next]_vars PROVE Placed'
     OBVIOUS
<1>1. CASE UNCHANGED <<table, units, u, r, cols, file, error>> /\ u = Len(units) + 1
  <2>1. PICK cut \in [0..Len(units) -> 0..Len(file)] : PlacedBy(cut)
        BY DEF Placed
  <2>2. PlacedBy(cut)'
        BY <1>1, <2>1 DEF PlacedBy, Result
  <2>. QED BY <1>1, <2>2 DEF Placed
<1>2. CASE BuildColumns
  <2>1. UNCHANGED <<table, units, u, r, cols, file, error>> /\ u > Len(units)
        BY <1>2, Zenon DEF BuildColumns
  <2>2. u = Len(units) + 1
        BY <2>1, UnitListsAssumption DEF Inv, TypeOK
  <2>. QED BY <1>1, <2>1, <2>2
<1>3. CASE TryNew
  <2>1. UNCHANGED <<table, units, u, r, cols, file, error>> /\ phase # "rows"
        BY <1>3 DEF TryNew
  <2>. QED BY <1>1, <2>1 DEF Placed
<1>4. CASE UNCHANGED vars
  <2>1. PICK cut \in [0..Len(units) -> 0..Len(file)] : PlacedBy(cut)
        BY DEF Placed
  <2>2. PlacedBy(cut)'
        BY <1>4, <2>1 DEF PlacedBy, Result, vars
  <2>. QED BY <1>4, <2>2 DEF Placed, vars
<1>. QED BY <1>2, <1>3, <1>4, PushRowPlaces, PushErrorPlaces, UnitDonePlaces DEF Next

\* The block DecodeUnits promises for a unit, in the terms of RowIs.
LEMMA BlockOfUnit ==
  ASSUME NEW t \in TableNames, NEW us \in UnitLists, NEW b \in 1..Len(us)
  PROVE  LET block == D(t)!Build(us)[b]
         IN  /\ Len(block.rows) = RowsOf(t, us[b])
             /\ DOMAIN block.rows = 1..RowsOf(t, us[b])
             /\ block.file = us[b].file
             /\ (IF block.error = NoError THEN None ELSE block.error)
                  = IF us[b].result.ok THEN None ELSE us[b].result.value
             /\ us[b].result.ok => \A n \in DOMAIN block.rows :
                                     /\ block.rows[n] # D(t)!NullRow
                                     /\ block.rows[n][1] = us[b].result.value
                                     /\ block.rows[n][2] = n
             /\ ~us[b].result.ok => \A n \in DOMAIN block.rows :
                                      block.rows[n] = D(t)!NullRow
<1> DEFINE unit  == us[b]
           block == D(t)!Build(us)[b]
<1>1. block = D(t)!Block(unit) /\ DOMAIN us = 1..Len(us)
      BY UnitListsAssumption DEF D!Build
<1>2. block.file = unit.file
      BY <1>1 DEF D!Block
<1>3. CASE unit.result.ok
  <2>1. unit.result.value \in Profiles
        BY <1>1, <1>3, UnitListsAssumption
  <2>2. PICK len \in Nat : len = Len(View(t, Message[unit.result.value]))
        BY <2>1, ViewLength
  <2>3. RowsOf(t, unit) = len
        BY <1>3, <2>2 DEF RowsOf
  <2>4. block.rows = [n \in 1..len |-> <<unit.result.value, n>>] /\ block.error = NoError
        BY <1>1, <1>3, <2>1, <2>2 DEF D!Block
  <2>. HIDE DEF block, unit
  <2>5. \A n \in 1..len : block.rows[n] = <<unit.result.value, n>>
        BY <2>4
  <2>6. DOMAIN block.rows = 1..len /\ block.rows = [n \in 1..len |-> block.rows[n]]
        BY <2>4
  <2>7. Len(block.rows) = len
        BY <2>6, LenOfTable
  <2>8. \A n \in 1..len : /\ block.rows[n] # D(t)!NullRow
                          /\ block.rows[n][1] = unit.result.value
                          /\ block.rows[n][2] = n
        BY <2>5 DEF D!NullRow
  <2>9. (IF block.error = NoError THEN None ELSE block.error)
          = IF unit.result.ok THEN None ELSE unit.result.value
        BY <1>3, <2>4
  <2>. QED BY <1>2, <1>3, <2>3, <2>6, <2>7, <2>8, <2>9 DEF block, unit
<1>4. CASE ~unit.result.ok
  <2>1. unit.result.value # NoError
        BY <1>1, <1>4, UnitListsAssumption
  <2>2. block.rows = <<D(t)!NullRow>> /\ block.error = unit.result.value
        BY <1>1, <1>4 DEF D!Block
  <2>3. RowsOf(t, unit) = 1
        BY <1>4 DEF RowsOf
  <2>. HIDE DEF block, unit
  <2>4. Len(block.rows) = 1 /\ DOMAIN block.rows = 1..1 /\ block.rows[1] = D(t)!NullRow
        BY <2>2
  <2>5. (IF block.error = NoError THEN None ELSE block.error)
          = IF unit.result.ok THEN None ELSE unit.result.value
        BY <1>4, <2>1, <2>2
  <2>. QED BY <1>2, <1>4, <2>3, <2>4, <2>5 DEF block, unit
<1>. QED BY <1>3, <1>4

LEMMA PlacedBlock ==
  ASSUME TypeOK, NEW b \in 1..Len(units), NEW start \in Nat,
         \A n \in 1..RowsOf(table, units[b]) :
           RowIs(table, cols, file, error, start + n, units[b], n)
  PROVE  HoldsBlock(start, D(table)!Build(units)[b])
<1>1. PICK block : block = D(table)!Build(units)[b]
      OBVIOUS
<1>2. /\ DOMAIN block.rows = 1..RowsOf(table, units[b]) /\ block.file = units[b].file
      /\ (IF block.error = NoError THEN None ELSE block.error)
           = IF units[b].result.ok THEN None ELSE units[b].result.value
      /\ units[b].result.ok => \A n \in DOMAIN block.rows :
                                 /\ block.rows[n] # D(table)!NullRow
                                 /\ block.rows[n][1] = units[b].result.value
                                 /\ block.rows[n][2] = n
      /\ ~units[b].result.ok => \A n \in DOMAIN block.rows :
                                  block.rows[n] = D(table)!NullRow
  <2>1. table \in TableNames /\ units \in UnitLists
        BY DEF TypeOK
  <2>. QED BY <1>1, <2>1, BlockOfUnit
<1>3. /\ DOMAIN Schema[table] = DOMAIN cols
      /\ \A m \in DOMAIN cols : Columns[table][m].field = ViewField(Schema[table][m].name)
      BY ColumnsReadTheirFields DEF TypeOK
<1>4. ASSUME NEW n \in DOMAIN block.rows
      PROVE  /\ file[start + n] = block.file
             /\ error[start + n] = IF block.error = NoError THEN None ELSE block.error
             /\ \A m \in DOMAIN Schema[table] :
                  cols[m][start + n] =
                    IF block.rows[n] = D(table)!NullRow THEN None
                    ELSE View(table, Message[block.rows[n][1]])[block.rows[n][2]]
                           [ViewField(Schema[table][m].name)]
  <2>1. RowIs(table, cols, file, error, start + n, units[b], n)
        BY <1>2
  <2>2. /\ file[start + n] = block.file
        /\ error[start + n] = IF block.error = NoError THEN None ELSE block.error
        BY <1>2, <2>1 DEF RowIs
  <2>3. ASSUME NEW m \in DOMAIN Schema[table]
        PROVE  cols[m][start + n] =
                 IF block.rows[n] = D(table)!NullRow THEN None
                 ELSE View(table, Message[block.rows[n][1]])[block.rows[n][2]]
                        [ViewField(Schema[table][m].name)]
    <3>1. cols[m][start + n] = IF units[b].result.ok
                               THEN View(table, Message[units[b].result.value])[n]
                                      [ViewField(Schema[table][m].name)]
                               ELSE None
          BY <1>3, <2>1 DEF RowIs
    <3>. QED BY <1>2, <3>1
  <2>. QED BY <2>2, <2>3
<1>. QED BY <1>1, <1>4, Zenon DEF HoldsBlock

LEMMA PlacedMeansBlocks == Inv /\ Placed => BatchIsBlocks
<1>. SUFFICES ASSUME Inv, Placed, phase = "done" PROVE
       \E cut \in [0..Len(units) -> 0..Len(file)] :
         /\ cut[0] = 0 /\ cut[Len(units)] = Len(file)
         /\ \A b \in DOMAIN units :
              LET block == D(table)!Build(units)[b]
              IN  cut[b] = cut[b - 1] + Len(block.rows) /\ HoldsBlock(cut[b - 1], block)
     BY Zenon DEF BatchIsBlocks
<1>1. /\ u = Len(units) + 1 /\ Len(units) \in Nat /\ DOMAIN units = 1..Len(units)
      /\ Len(file) \in Nat /\ table \in TableNames /\ units \in UnitLists
      BY UnitListsAssumption DEF Inv, TypeOK, Vectors, IsVector, Placed
<1>2. PICK cut \in [0..Len(units) -> 0..Len(file)] : PlacedBy(cut)
      BY DEF Placed
<1>3. /\ cut[0] = 0 /\ r = 1 /\ Len(file) = cut[u - 1] + (r - 1) /\ u - 1 = Len(units)
      /\ Blocks(table, units, cols, file, error, cut, Len(units))
      BY <1>1, <1>2 DEF PlacedBy
<1>4. cut[Len(units)] = Len(file)
      BY <1>1, <1>3
<1>5. ASSUME NEW b \in DOMAIN units
      PROVE  LET block == D(table)!Build(units)[b]
             IN  cut[b] = cut[b - 1] + Len(block.rows) /\ HoldsBlock(cut[b - 1], block)
  <2>1. /\ cut[b] = cut[b - 1] + RowsOf(table, units[b])
        /\ \A n \in 1..RowsOf(table, units[b]) :
             RowIs(table, cols, file, error, cut[b - 1] + n, units[b], n)
        BY <1>1, <1>3 DEF Blocks
  <2>2. b \in 1..Len(units) /\ cut[b - 1] \in Nat
        BY <1>1
  <2>3. HoldsBlock(cut[b - 1], D(table)!Build(units)[b])
        BY <2>1, <2>2, PlacedBlock DEF Inv
  <2>4. Len(D(table)!Build(units)[b].rows) = RowsOf(table, units[b])
        BY <1>1, <2>2, BlockOfUnit
  <2>. QED BY <2>1, <2>3, <2>4
<1>. QED BY <1>2, <1>3, <1>4, <1>5, Zenon

\* A batch that is delivered holds, for any list of units and any of the six tables, the
\* rows of each unit's view, whole, in order and under the names declared on bind, with
\* the unit's file, and one error row for each unit that failed (table/mod.rs:3-8,
\* arrow_build.rs:9-11).
THEOREM BatchesAreBlocks == Spec => []BatchIsBlocks
<1>1. Inv /\ Placed /\ [Next]_vars => Placed'
      BY PlacedStep
<1>. QED BY <1>1, PlacedInit, PlacedMeansBlocks, TableInvariance, PTL DEF Spec

-------------------------------------------------------------------------------
(* The documented columns *)

\* Every documented column has the name of the field and the DuckDB type of the builder
\* at its place.
LEMMA DocsNameColumns ==
  ASSUME NEW t \in TableNames
  PROVE  /\ Docs[t] \in Seq({Docs[t][m] : m \in DOMAIN Docs[t]})
         /\ DOMAIN Docs[t] = DOMAIN Columns[t]
         /\ \A m \in DOMAIN Docs[t] :
              Docs[t][m] = F(Schema[t][m].name, SqlType[Columns[t][m].type])
<1>0. /\ SqlType["i64"] = "BIGINT" /\ SqlType["u64"] = "UBIGINT" /\ SqlType["str"] = "VARCHAR"
      /\ SqlType["list_i64"] = ValuesSql /\ SqlType["list_u64"] = IdsSql
      /\ SqlType["list_frame"] = FrameSql /\ SqlType["list_lineref"] = LinesSql
      /\ SqlType["value_type"] = ValueTypeSql /\ SqlType["list_value_type"] = ValueTypesSql
      /\ SqlType["map"] = LabelsSql
      BY DEF SqlType
<1>. USE DEF F, C
<1>1. CASE t = "stacks"
  <2>1. Docs[t] = StacksDocs /\ Columns[t] = StacksColumns /\ Schema[t] = StacksSchema
        BY <1>1 DEF Docs, Columns, Schema
  <2>2. Docs[t] \in Seq({Docs[t][m] : m \in DOMAIN Docs[t]})
        BY <2>1 DEF StacksDocs
  <2>3. DOMAIN Docs[t] = DOMAIN Columns[t]
        BY <2>1 DEF StacksDocs, StacksColumns
  <2>4. \A m \in DOMAIN Docs[t] :
          Docs[t][m] = F(Schema[t][m].name, SqlType[Columns[t][m].type])
        BY <1>0, <2>1, SMTT(30) DEF StacksDocs, StacksColumns, StacksSchema
  <2>. QED BY <2>2, <2>3, <2>4
<1>2. CASE t = "samples"
  <2>1. Docs[t] = SamplesDocs /\ Columns[t] = SamplesColumns /\ Schema[t] = SamplesSchema
        BY <1>2 DEF Docs, Columns, Schema
  <2>2. Docs[t] \in Seq({Docs[t][m] : m \in DOMAIN Docs[t]})
        BY <2>1 DEF SamplesDocs
  <2>3. DOMAIN Docs[t] = DOMAIN Columns[t]
        BY <2>1 DEF SamplesDocs, SamplesColumns
  <2>4. \A m \in DOMAIN Docs[t] :
          Docs[t][m] = F(Schema[t][m].name, SqlType[Columns[t][m].type])
        BY <1>0, <2>1, SMTT(30) DEF SamplesDocs, SamplesColumns, SamplesSchema
  <2>. QED BY <2>2, <2>3, <2>4
<1>3. CASE t = "functions"
  <2>1. Docs[t] = FunctionsDocs /\ Columns[t] = FunctionsColumns /\ Schema[t] = FunctionsSchema
        BY <1>3 DEF Docs, Columns, Schema
  <2>2. Docs[t] \in Seq({Docs[t][m] : m \in DOMAIN Docs[t]})
        BY <2>1 DEF FunctionsDocs
  <2>3. DOMAIN Docs[t] = DOMAIN Columns[t]
        BY <2>1 DEF FunctionsDocs, FunctionsColumns
  <2>4. \A m \in DOMAIN Docs[t] :
          Docs[t][m] = F(Schema[t][m].name, SqlType[Columns[t][m].type])
        BY <1>0, <2>1, SMTT(30) DEF FunctionsDocs, FunctionsColumns, FunctionsSchema
  <2>. QED BY <2>2, <2>3, <2>4
<1>4. CASE t = "locations"
  <2>1. Docs[t] = LocationsDocs /\ Columns[t] = LocationsColumns /\ Schema[t] = LocationsSchema
        BY <1>4 DEF Docs, Columns, Schema
  <2>2. Docs[t] \in Seq({Docs[t][m] : m \in DOMAIN Docs[t]})
        BY <2>1 DEF LocationsDocs
  <2>3. DOMAIN Docs[t] = DOMAIN Columns[t]
        BY <2>1 DEF LocationsDocs, LocationsColumns
  <2>4. \A m \in DOMAIN Docs[t] :
          Docs[t][m] = F(Schema[t][m].name, SqlType[Columns[t][m].type])
        BY <1>0, <2>1, SMTT(30) DEF LocationsDocs, LocationsColumns, LocationsSchema
  <2>. QED BY <2>2, <2>3, <2>4
<1>5. CASE t = "mappings"
  <2>1. Docs[t] = MappingsDocs /\ Columns[t] = MappingsColumns /\ Schema[t] = MappingsSchema
        BY <1>5 DEF Docs, Columns, Schema
  <2>2. Docs[t] \in Seq({Docs[t][m] : m \in DOMAIN Docs[t]})
        BY <2>1 DEF MappingsDocs
  <2>3. DOMAIN Docs[t] = DOMAIN Columns[t]
        BY <2>1 DEF MappingsDocs, MappingsColumns
  <2>4. \A m \in DOMAIN Docs[t] :
          Docs[t][m] = F(Schema[t][m].name, SqlType[Columns[t][m].type])
        BY <1>0, <2>1, SMTT(30) DEF MappingsDocs, MappingsColumns, MappingsSchema
  <2>. QED BY <2>2, <2>3, <2>4
<1>6. CASE t = "meta"
  <2>1. Docs[t] = MetaDocs /\ Columns[t] = MetaColumns /\ Schema[t] = MetaSchema
        BY <1>6 DEF Docs, Columns, Schema
  <2>2. Docs[t] \in Seq({Docs[t][m] : m \in DOMAIN Docs[t]})
        BY <2>1 DEF MetaDocs
  <2>3. DOMAIN Docs[t] = DOMAIN Columns[t]
        BY <2>1 DEF MetaDocs, MetaColumns
  <2>4. \A m \in DOMAIN Docs[t] :
          Docs[t][m] = F(Schema[t][m].name, SqlType[Columns[t][m].type])
        BY <1>0, <2>1, SMTT(30) DEF MetaDocs, MetaColumns, MetaSchema
  <2>. QED BY <2>2, <2>3, <2>4
<1>. QED BY <1>1, <1>2, <1>3, <1>4, <1>5, <1>6 DEF TableNames

LEMMA ConcatAt ==
  ASSUME NEW S, NEW s \in Seq(S), NEW tail \in Seq(S)
  PROVE  /\ Len(s) \in Nat /\ Len(tail) \in Nat
         /\ Len(s \o tail) = Len(s) + Len(tail)
         /\ DOMAIN (s \o tail) = 1..(Len(s) + Len(tail))
         /\ \A m \in 1..Len(s) : (s \o tail)[m] = s[m]
         /\ \A m \in (Len(s) + 1)..(Len(s) + Len(tail)) :
              (s \o tail)[m] = tail[m - Len(s)]
<1>1. Len(s) \in Nat /\ Len(tail) \in Nat
      OBVIOUS
<1>2. s \o tail \in Seq(S) /\ Len(s \o tail) = Len(s) + Len(tail)
      OBVIOUS
<1>3. \A m \in 1..Len(s) : (s \o tail)[m] = s[m]
      OBVIOUS
<1>4. \A m \in (Len(s) + 1)..(Len(s) + Len(tail)) : (s \o tail)[m] = tail[m - Len(s)]
      OBVIOUS
<1>. QED BY <1>1, <1>2, <1>3, <1>4

\* Docs over Columns, and the trailing two after both.
LEMMA DocsAreBatch ==
  ASSUME TypeOK, cols = [m \in DOMAIN Columns[table] |-> cols[m]]
  PROVE  BatchMatchesDocs
<1>1. table \in TableNames /\ DOMAIN cols = DOMAIN Columns[table]
      BY DEF TypeOK
<1>2. PICK docs \in Seq({Docs[table][m] : m \in DOMAIN Docs[table]}) : docs = Docs[table]
      BY <1>1, DocsNameColumns
<1>3. PICK k \in Nat : k = Len(docs) /\ DOMAIN docs = 1..k
      BY <1>2
<1>4. /\ DOMAIN cols = 1..k
      /\ \A m \in 1..k : docs[m] = F(Schema[table][m].name, SqlType[Columns[table][m].type])
      BY <1>1, <1>2, <1>3, DocsNameColumns
<1>5. Len(cols) = k
  <2>1. cols = [m \in 1..k |-> cols[m]]
        BY <1>1, <1>4
  <2>. QED BY <2>1, LenOfTable
<1>6. /\ TrailingDocs \in Seq({TrailingDocs[1], TrailingDocs[2]}) /\ Len(TrailingDocs) = 2
      /\ \A m \in 1..2 :
           TrailingDocs[m] = F(Trailing[m].name, SqlType[Trailing[m].type])
      BY DEF TrailingDocs, Trailing, F, SqlType
<1> DEFINE all == docs \o TrailingDocs
<1>7. /\ Len(all) = k + 2 /\ DOMAIN all = 1..(k + 2)
      /\ \A m \in 1..k : all[m] = docs[m]
      /\ \A m \in (k + 1)..(k + 2) : all[m] = TrailingDocs[m - k]
  <2>1. PICK S : docs \in Seq(S) /\ TrailingDocs \in Seq(S)
    <3> DEFINE A == {Docs[table][m] : m \in DOMAIN Docs[table]}
               B == {TrailingDocs[1], TrailingDocs[2]}
    <3>. HIDE DEF A, B
    <3>1. docs \in Seq(A \cup B) /\ TrailingDocs \in Seq(A \cup B)
          BY <1>2, <1>6 DEF A, B
    <3>. QED BY <3>1
  <2>2. PICK tail \in Seq(S) : tail = TrailingDocs
        BY <2>1
  <2>3. /\ Len(docs \o tail) = Len(docs) + Len(tail)
        /\ DOMAIN (docs \o tail) = 1..(Len(docs) + Len(tail))
        /\ \A m \in 1..Len(docs) : (docs \o tail)[m] = docs[m]
        /\ \A m \in (Len(docs) + 1)..(Len(docs) + Len(tail)) :
             (docs \o tail)[m] = tail[m - Len(docs)]
    <3>1. docs \in Seq(S) /\ tail \in Seq(S)
          BY <2>1
    <3>2. PICK d \in Seq(S) : d = docs
          BY <3>1
    <3>3. /\ Len(d \o tail) = Len(d) + Len(tail)
          /\ DOMAIN (d \o tail) = 1..(Len(d) + Len(tail))
          /\ \A m \in 1..Len(d) : (d \o tail)[m] = d[m]
          /\ \A m \in (Len(d) + 1)..(Len(d) + Len(tail)) :
               (d \o tail)[m] = tail[m - Len(d)]
          BY <3>1, ConcatAt, ZenonT(30)
    <3>. QED BY <3>2, <3>3
  <2>4. Len(docs) = k /\ Len(tail) = 2
        BY <1>3, <1>6, <2>2
  <2>. QED BY <2>2, <2>3, <2>4, Zenon
<1>8. ASSUME NEW m \in DOMAIN all
      PROVE  all[m] =
               IF m <= Len(cols) THEN F(Schema[table][m].name, SqlType[Columns[table][m].type])
               ELSE F(Trailing[m - Len(cols)].name, SqlType[Trailing[m - Len(cols)].type])
  <2>. HIDE DEF all
  <2>1. m \in 1..(k + 2)
        BY <1>7
  <2>2. CASE m <= k
    <3>1. m \in 1..k
          BY <1>3, <2>1, <2>2
    <3>. QED BY <1>4, <1>5, <1>7, <2>2, <3>1
  <2>3. CASE ~(m <= k)
    <3>1. m \in (k + 1)..(k + 2) /\ m - k \in 1..2
          BY <1>3, <2>1, <2>3
    <3>. QED BY <1>5, <1>6, <1>7, <2>3, <3>1
  <2>. QED BY <2>2, <2>3
<1>. QED BY <1>2, <1>5, <1>7, <1>8 DEF BatchMatchesDocs

\* Whatever it is built from, a batch has the documented columns, by name, place and
\* DuckDB type, and then file and error (meta.rs:98-99, 125-139).
THEOREM DocsAreTrue == Spec => []BatchMatchesDocs
<1> DEFINE Full == cols = [m \in DOMAIN Columns[table] |-> cols[m]]
<1>1. Init => Full
      BY DEF Init
<1>2. Inv /\ Full /\ [Next]_vars => Full'
  <2>. SUFFICES ASSUME Inv, Full, [Next]_vars PROVE Full'
       OBVIOUS
  <2>1. DOMAIN cols = DOMAIN Columns[table]
        BY DEF Inv, TypeOK
  <2>. QED BY <2>1 DEF Next, PushRow, UnitDone, PushError, BuildColumns, TryNew, vars
<1>3. Inv /\ Full => BatchMatchesDocs
      BY DocsAreBatch DEF Inv
<1>. HIDE DEF Full
<1>. QED BY <1>1, <1>2, <1>3, TableInvariance, PTL DEF Spec
===============================================================================
