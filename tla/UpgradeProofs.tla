----------------------------- MODULE UpgradeProofs -----------------------------
(***************************************************************************)
(* Opening never leaves a half made schema behind, however often and       *)
(* wherever the process stops.  The invariant follows the transaction's    *)
(* copy of the database from statement to statement.                       *)
(***************************************************************************)
EXTENDS Upgrade, TLAPS

\* The columns that the first n upgrade statements add.
Added(n) == {AddedColumns[i] : i \in 1 .. n}

\* The transaction's database when statement k is next.
Halfway(d, k) ==
    /\ DOMAIN d = {"version", "tables", "columns", "campaign", "rows"}
    /\ k \in 1 .. Statements + 1
    /\ k = 1 => FoundWhole(d)
    /\ k = 2 => \/ d.version = SchemaVersion /\ d.tables = {"schema_meta"}
                \/ d.version # NoVersion /\ FoundWhole(d)
    /\ k > 2 => /\ d.tables = SchemaTables
                /\ \/ d.version = SchemaVersion /\ d.columns = AllColumns
                   \/ d.version = 1 /\ k <= Statements /\ d.columns = Added(k - 3)

UpgradeInv ==
    /\ FoundWhole(file)
    /\ state = "serving" => file.version = SchemaVersion
    /\ state = "checking" => file.version = SchemaVersion
    /\ \A d \in staged : Halfway(d, step)
    /\ state \in {"checking", "serving"} => staged = {}

LEMMA MetaHalfway ==
  ASSUME NEW d, Halfway(d, 1)
  PROVE  Halfway(CreateMeta(d), 2)
<1> DEFINE e == CreateMeta(d)
<1>1. FoundWhole(d)
  BY DEF Halfway
<1>2. /\ DOMAIN e = DOMAIN d /\ e.tables = d.tables \cup {"schema_meta"} /\ e.columns = d.columns
      /\ e.version = IF d.version = NoVersion THEN SchemaVersion ELSE d.version
  BY <1>1 DEF FoundWhole, CreateMeta
<1> HIDE DEF e
<1>3. 2 \in 1 .. Statements + 1 /\ 2 # 1 /\ ~(2 > 2)
  BY DEF Statements, AddedColumns
<1>4. \/ e.version = SchemaVersion /\ e.tables = {"schema_meta"}
      \/ e.version # NoVersion /\ FoundWhole(e)
  <2>1. CASE d.version = NoVersion
    BY <1>1, <1>2, <2>1 DEF FoundWhole
  <2>2. CASE d.version # NoVersion
    BY <1>1, <1>2, <2>2 DEF FoundWhole, SchemaTables, SchemaVersion, NoVersion
  <2>3. QED
    BY <2>1, <2>2
<1>5. Halfway(e, 2)
  BY <1>1, <1>2, <1>3, <1>4 DEF Halfway, FoundWhole
<1>6. QED
  BY <1>5 DEF e

LEMMA TablesHalfway ==
  ASSUME NEW d, Halfway(d, 2), ~Fails(d, 2)
  PROVE  Halfway(CreateTables(d), 3)
<1> DEFINE e == CreateTables(d)
<1>1. DOMAIN d = {"version", "tables", "columns", "campaign", "rows"}
  BY DEF Halfway
<1>2. /\ DOMAIN e = DOMAIN d /\ e.tables = SchemaTables /\ e.version = d.version
      /\ e.columns = IF "findings" \in d.tables THEN d.columns ELSE AllColumns
  BY <1>1 DEF CreateTables
<1> HIDE DEF e
<1>3. ~(d.version > SchemaVersion)
  BY DEF Fails
<1>4. \/ e.version = SchemaVersion /\ e.columns = AllColumns
      \/ e.version = 1 /\ e.columns = {}
  <2>1. CASE d.version = SchemaVersion /\ d.tables = {"schema_meta"}
    BY <1>2, <2>1
  <2>2. CASE d.version # NoVersion /\ FoundWhole(d)
    <3>1. d.version \in {1, SchemaVersion}
      BY <1>3, <2>2 DEF FoundWhole, SchemaVersion, NoVersion
    <3>2. "findings" \in d.tables
      BY <2>2, <3>1 DEF FoundWhole, SchemaTables
    <3>3. QED
      BY <1>2, <2>2, <3>1, <3>2 DEF FoundWhole
  <2>3. QED
    BY <2>1, <2>2 DEF Halfway
<1>5. Added(3 - 3) = {}
  BY DEF Added
<1>6. Halfway(e, 3)
  BY <1>1, <1>2, <1>4, <1>5 DEF Halfway, Statements, AddedColumns
<1>7. QED
  BY <1>6 DEF e

LEMMA ColumnsHalfway ==
  ASSUME NEW d, NEW k \in 3 .. Statements - 1, Halfway(d, k), k <= Remaining(d)
  PROVE  Halfway(AddColumn(d, k - 2), k + 1)
<1> DEFINE e == AddColumn(d, k - 2)
<1>1. DOMAIN d = {"version", "tables", "columns", "campaign", "rows"}
  BY DEF Halfway
<1>2. /\ DOMAIN e = DOMAIN d /\ e.tables = d.tables /\ e.version = d.version
      /\ e.columns = d.columns \cup {AddedColumns[k - 2]}
  BY <1>1 DEF AddColumn
<1> HIDE DEF e
<1>3. d.tables = SchemaTables /\ d.version = 1 /\ d.columns = Added(k - 3)
  BY DEF Halfway, Remaining, SchemaVersion
<1>4. k - 3 \in Nat /\ k - 2 = (k - 3) + 1 /\ (k + 1) - 3 = k - 2
  BY DEF Statements, AddedColumns
<1>5. e.columns = Added((k + 1) - 3)
  <2>1. 1 .. (k - 2) = (1 .. (k - 3)) \cup {k - 2}
    BY <1>4
  <2>2. QED
    BY <1>2, <1>3, <1>4, <2>1 DEF Added
<1>6. k + 1 \in 1 .. Statements + 1 /\ k + 1 <= Statements /\ k + 1 > 2 /\ k + 1 # 1 /\ k + 1 # 2
  BY DEF Statements, AddedColumns
<1>7. Halfway(e, k + 1)
  BY <1>1, <1>2, <1>3, <1>5, <1>6 DEF Halfway
<1>8. QED
  BY <1>7 DEF e

LEMMA VersionHalfway ==
  ASSUME NEW d, Halfway(d, Statements), Statements <= Remaining(d)
  PROVE  Halfway([d EXCEPT !.version = SchemaVersion], Statements + 1)
<1> DEFINE e == [d EXCEPT !.version = SchemaVersion]
<1>1. DOMAIN d = {"version", "tables", "columns", "campaign", "rows"}
  BY DEF Halfway
<1>2. /\ DOMAIN e = DOMAIN d /\ e.tables = d.tables /\ e.version = SchemaVersion
      /\ e.columns = d.columns
  BY <1>1
<1> HIDE DEF e
<1>3. Statements = 8
  BY DEF Statements, AddedColumns
<1>4. d.tables = SchemaTables /\ d.columns = Added(5)
  BY <1>3 DEF Halfway, Remaining, SchemaVersion
<1>5. Added(5) = AllColumns
  BY DEF Added, AllColumns, AddedColumns
<1>6. Halfway(e, Statements + 1)
  BY <1>1, <1>2, <1>3, <1>4, <1>5 DEF Halfway
<1>7. QED
  BY <1>6 DEF e

LEMMA StatementHalfway ==
  ASSUME NEW d, NEW k, Halfway(d, k), k <= Remaining(d), ~Fails(d, k)
  PROVE  Halfway(Statement(d, k), k + 1)
<1>1. Statements = 8 /\ k \in 1 .. 8
  <2>1. k \in 1 .. 9
    BY DEF Halfway, Statements, AddedColumns
  <2>2. Remaining(d) <= 8
    BY DEF Remaining, Statements, AddedColumns
  <2>3. Remaining(d) \in {2, 8}
    BY DEF Remaining, Statements, AddedColumns
  <2>4. QED
    BY <2>1, <2>3 DEF Statements, AddedColumns
<1>2. CASE k = 1
  <2>1. Halfway(d, 1) /\ k + 1 = 2 /\ Statement(d, k) = CreateMeta(d)
    BY <1>1, <1>2 DEF Statement
  <2>2. QED
    BY <2>1, MetaHalfway
<1>3. CASE k = 2
  <2>1. Halfway(d, 2) /\ ~Fails(d, 2)
    BY <1>3
  <2>2. k + 1 = 3 /\ Statement(d, k) = CreateTables(d)
    BY <1>1, <1>3 DEF Statement
  <2>3. QED
    BY <2>1, <2>2, TablesHalfway
<1>4. CASE k \in 3 .. Statements - 1
  <2>1. Statement(d, k) = AddColumn(d, k - 2)
    BY <1>1, <1>4 DEF Statement
  <2>2. QED
    BY <1>4, <2>1, ColumnsHalfway
<1>5. CASE k = Statements
  <2>1. Statement(d, k) = [d EXCEPT !.version = SchemaVersion]
    BY <1>1, <1>5 DEF Statement
  <2>2. QED
    BY <1>5, <2>1, VersionHalfway
<1>6. QED
  BY <1>1, <1>2, <1>3, <1>4, <1>5

LEMMA UpgradeInductively == UpgradeInv /\ [Next]_vars => UpgradeInv'
<1> SUFFICES ASSUME UpgradeInv, [Next]_vars PROVE UpgradeInv'
  OBVIOUS
<1>1. CASE Start
  BY <1>1 DEF Start, UpgradeInv, Halfway, Statements, AddedColumns, FoundWhole
<1>2. CASE Migrate
  <2>1. PICK d \in staged : /\ step <= Remaining(d) /\ ~Fails(d, step)
                            /\ staged' = {Statement(d, step)}
    BY <1>2 DEF Migrate
  <2>2. Halfway(Statement(d, step), step + 1)
    BY <2>1, StatementHalfway DEF UpgradeInv
  <2>3. QED
    BY <1>2, <2>1, <2>2 DEF Migrate, UpgradeInv
<1>3. CASE Commit
  <2>1. PICK d \in staged : step > Remaining(d) /\ file' = d
    BY <1>3 DEF Commit
  <2>2. Halfway(d, step)
    BY <2>1 DEF UpgradeInv
  <2>3. step > 2 /\ d.version = SchemaVersion
    <3>1. Remaining(d) \in {2, 8} /\ step \in 1 .. 9 /\ Statements = 8
      BY <2>2 DEF Halfway, Remaining, Statements, AddedColumns
    <3>2. step > 2
      BY <2>1, <3>1
    <3>3. d.version = 1 => Remaining(d) = 8
      BY <3>1 DEF Remaining, SchemaVersion
    <3>4. QED
      BY <2>1, <2>2, <3>1, <3>2, <3>3 DEF Halfway
  <2>4. FoundWhole(d)
    BY <2>2, <2>3 DEF Halfway, FoundWhole, SchemaVersion, NoVersion
  <2>5. QED
    BY <1>3, <2>1, <2>3, <2>4 DEF Commit, UpgradeInv
<1>4. CASE Fail \/ VerifySchema \/ Stop
  BY <1>4 DEF Fail, VerifySchema, Stop, UpgradeInv
<1>5. CASE UNCHANGED vars
  BY <1>5 DEF vars, UpgradeInv
<1>6. QED
  BY <1>1, <1>2, <1>3, <1>4, <1>5 DEF Next, Opening

\* A database is never left between two schemas: what is committed has all the tables
\* and columns of the version it names or none of the later ones, and only the current
\* version is served (migrations.go: one transaction; diagnostics.go).
THEOREM SchemaStaysWhole == Spec => []SchemaWhole
<1>1. Init => UpgradeInv
  BY FilesAssumption DEF Init, UpgradeInv
<1>2. UpgradeInv => SchemaWhole
  BY DEF UpgradeInv, FoundWhole, SchemaWhole
<1>3. QED
  BY <1>1, <1>2, UpgradeInductively, PTL DEF Spec
===============================================================================
