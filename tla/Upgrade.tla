-------------------------------- MODULE Upgrade --------------------------------
(***************************************************************************)
(* Opening a database (src/internal/storage/sqlite/open.go, migrations.go, *)
(* diagnostics.go): one transaction that creates what is missing and       *)
(* brings a database of schema 1 to schema 2, then a look at the result.   *)
(* The process may stop at any statement and is started again.             *)
(*                                                                         *)
(* The program that wrote schema 1 is not part of the repository.  That    *)
(* its findings had no inspection batch, key or lists of evidence is read  *)
(* off the columns that the upgrade adds.                                  *)
(***************************************************************************)
EXTENDS Evidence

CONSTANTS
    Files,      \* databases found at the first start: [version, tables, columns, campaign, rows]
    MaxStops    \* bound: stops of the process

ASSUME MaxStopsAssumption == MaxStops \in Nat

VARIABLES
    file,   \* what is committed
    staged, \* {} or the open transaction's database
    step,   \* the statement that is next
    state,  \* of the process: "down", "migrating", "checking", "serving" or "failed"
    stops

vars == <<file, staged, step, state, stops>>

-------------------------------------------------------------------------------
(* The schema *)

SchemaVersion == 2
NoVersion == 0      \* there is no row in schema_meta

SchemaTables == {"schema_meta", "campaigns", "sampling_points", "instrument_evidence",
                 "measurement_rounds", "inspection_batches", "findings",
                 "release_credentials", "idempotency_records", "audit_events"}

\* verifySchema does not ask for the inspection batches.
RequiredTables == SchemaTables \ {"inspection_batches"}

\* The columns of the findings that schema 2 added, in the order of the upgrade.
AddedColumns == <<"check_batch_id", "finding_key", "evidence_round_ids_json",
                  "evidence_sample_ids_json", "missing_replicates_json">>

AllColumns == {AddedColumns[i] : i \in DOMAIN AddedColumns}

\* A finding and a campaign as schema 1 had them: no batch (0), no lists.
OldFinding(f) == [f EXCEPT !.batch = 0, !.samples = {}, !.missing = {}]

OldCampaign(c) ==
    [c EXCEPT !.batches = {}, !.currentBatch = {},
              !.findings = [g \in {OldFinding(f) : f \in DOMAIN @} |->
                              c.findings[CHOOSE f \in DOMAIN c.findings : OldFinding(f) = g]]]

\* The rows of a finding without the columns of its lists, and with their default.
WithRoundList(rows, text) ==
    [rows EXCEPT !.findings = {[r EXCEPT !.roundList = text] : r \in @}]

OldRows(c) == WithRoundList(EvidenceRows(c, {}), "none")

\* The databases that are found: a new one is empty, one of schema 1 lacks the columns
\* that were added since, one of schema 2 is what this program creates; of a later schema
\* nothing is known.
FoundWhole(d) ==
    /\ DOMAIN d = {"version", "tables", "columns", "campaign", "rows"}
    /\ d.version \in Nat
    /\ d.version = NoVersion => d.tables = {}
    /\ d.version = 1 => "findings" \in d.tables /\ d.columns = {}
    /\ d.version = SchemaVersion => d.tables = SchemaTables /\ d.columns = AllColumns

ASSUME FilesAssumption == \A d \in Files : FoundWhole(d)

-------------------------------------------------------------------------------
(* Opening *)

Init ==
    /\ file \in Files
    /\ staged = {} /\ step = 0 /\ state = "down" /\ stops = 0

Start ==
    /\ state = "down"
    /\ state' = "migrating"
    /\ staged' = {file} /\ step' = 1
    /\ UNCHANGED <<file, stops>>

\* A statement of the transaction: the version first, then the tables, then, for an old
\* database only, the columns one by one and the new version.
CreateMeta(d) ==
    [d EXCEPT !.tables = @ \cup {"schema_meta"},
              !.version = IF @ = NoVersion THEN SchemaVersion ELSE @]

CreateTables(d) ==
    [d EXCEPT !.columns = IF "findings" \in d.tables THEN @ ELSE AllColumns,
              !.tables = SchemaTables]

AddColumn(d, i) ==
    [d EXCEPT !.columns = @ \cup {AddedColumns[i]},
              !.rows = IF AddedColumns[i] = "evidence_round_ids_json"
                         THEN {WithRoundList(rows, "[]") : rows \in @} ELSE @]

Statements == 3 + Len(AddedColumns)

Statement(d, i) ==
    CASE i = 1 -> CreateMeta(d)
      [] i = 2 -> CreateTables(d)
      [] i = Statements -> [d EXCEPT !.version = SchemaVersion]
      [] OTHER -> AddColumn(d, i - 2)

\* What makes a statement fail: a version of the future, a column that is there already.
Fails_TableExists(d, i) ==
    \/ i = 2 /\ d.version > SchemaVersion
    \/ i = 2 /\ d.tables \ {"schema_meta"} # {}
    \/ i \in 3 .. Statements - 1 /\ AddedColumns[i - 2] \in d.columns

Fails(d, i) ==
    \/ i = 2 /\ d.version > SchemaVersion
    \/ i \in 3 .. Statements - 1 /\ AddedColumns[i - 2] \in d.columns

Remaining(d) == IF d.version < SchemaVersion THEN Statements ELSE 2

Migrate_NoTransaction ==
    /\ state = "migrating"
    /\ \E d \in staged :
         /\ step <= Remaining(d) /\ ~Fails(d, step)
         /\ staged' = {Statement(d, step)}
         /\ file' = Statement(d, step)
    /\ step' = step + 1
    /\ UNCHANGED <<state, stops>>

Migrate ==
    /\ state = "migrating"
    /\ \E d \in staged :
         /\ step <= Remaining(d) /\ ~Fails(d, step)
         /\ staged' = {Statement(d, step)}
    /\ step' = step + 1
    /\ UNCHANGED <<file, state, stops>>

Commit ==
    /\ state = "migrating"
    /\ \E d \in staged : step > Remaining(d) /\ file' = d
    /\ staged' = {} /\ step' = 0 /\ state' = "checking"
    /\ UNCHANGED stops

\* Open rolls back, closes the database and reports the error; the process ends.
Fail ==
    /\ state = "migrating"
    /\ \E d \in staged : step <= Remaining(d) /\ Fails(d, step)
    /\ staged' = {} /\ step' = 0 /\ state' = "failed"
    /\ UNCHANGED <<file, stops>>

\* The tables were just created if they were missing, so that verifySchema finds them; its
\* quick_check is about files that are not intact, which are left out.
VerifySchema ==
    /\ state = "checking"
    /\ RequiredTables \subseteq file.tables
    /\ state' = "serving"
    /\ UNCHANGED <<file, staged, step, stops>>

\* The process stops, or is stopped, and is started again later.
Stop ==
    /\ state # "down" /\ stops < MaxStops
    /\ stops' = stops + 1
    /\ staged' = {} /\ step' = 0 /\ state' = "down"
    /\ UNCHANGED file

Opening == Start \/ Migrate \/ Commit \/ Fail \/ VerifySchema

Next == Opening \/ Stop

\* Opening goes on by itself, and a stopped process is started again.
Fairness == WF_vars(Opening)

Spec == Init /\ [][Next]_vars /\ Fairness

-------------------------------------------------------------------------------
(* Properties *)

\* A database that is of a supported version gets the service going in the end, however
\* often it was interrupted: a half upgraded one would be refused for ever, because its
\* columns cannot be added twice.
EventuallyServes == (file.version <= SchemaVersion) ~> (state = "serving")

\* What is committed is the schema that its version promises, and only the current
\* version is served: a later one is left alone (README.md:79).
SchemaWhole ==
    /\ state = "serving" => file.version = SchemaVersion
    /\ file.version = 1 => file.columns = {}
    /\ file.version = SchemaVersion => file.columns = AllColumns /\ file.tables = SchemaTables
================================================================================
