----------------------------- MODULE Migrations -----------------------------
(***************************************************************************)
(* The versioned schema of the SQLite store (src/internal/store/           *)
(* migrations.go) and the processes that migrate one database file at the  *)
(* same time: the server and the `task` command both open the store, and   *)
(* opening it runs the migrations.                                         *)
(*                                                                         *)
(* A database is the last version it recorded, the columns of tasks in     *)
(* their order, the task types its CHECK constraint allows, one row of     *)
(* each of these types, and the result tables that refer to tasks.  The    *)
(* columns of tasks are grouped: "head" is id to repo_full_name, "outcome" *)
(* result to delivery_id, "times" the four timestamps.  A cell holds the   *)
(* name of the column its value was stored under, so a value in another    *)
(* column shows.  Indexes only matter by the version that creates them.    *)
(***************************************************************************)
EXTENDS Integers, Sequences, FiniteSets, SequencesExt

CONSTANT Procs      \* the processes that open the database

VARIABLES
  db,       \* the committed content of the file
  writer,   \* the process inside a write transaction, if any
  mig       \* each process's own migration loop

Latest == 26

TaskTypes == {"review_pr", "fix_issue", "gen_tests", "gen_daily_report",
              "analyze_issue", "run_e2e", "triage_e2e", "fix_review",
              "code_from_doc"}

NoDB == [version |-> 0, columns |-> <<>>, types |-> {}, rows |-> <<>>,
         children |-> <<>>, refused |-> FALSE]

Refuse(d) == [d EXCEPT !.refused = TRUE]

\* A row stored with every column of the table; only reviews have a PR number.
FullRow(d, type) ==
  [col \in Range(d.columns) |->
     IF col = "pr_number" /\ type # "review_pr" THEN "null" ELSE col]

-----------------------------------------------------------------------------
\* v1 creates tasks, v2-v6 its indexes (the unique one on deliveries at v5).
FirstTasks(v, d) ==
  IF v # 1 THEN d
  ELSE [d EXCEPT !.columns = <<"head", "outcome", "times">>,
                 !.types = {"review_pr", "fix_issue", "gen_tests"}]

\* One more key, unless it is there.
Extend(f, key, value) ==
  [k \in DOMAIN f \cup {key} |-> IF k \in DOMAIN f THEN f[k] ELSE value]

CreateChild(d, table, nullable) ==
  [d EXCEPT !.children = Extend(@, table, [nullable |-> nullable, linked |-> TRUE])]

\* v7 creates review_results, v8-v12 its indexes.
ReviewResults(v, d) == IF v = 7 THEN CreateChild(d, "review_results", TRUE) ELSE d

\* ALTER TABLE tasks ADD COLUMN, with a value for the rows there are; a second
\* time it is a duplicate column.
AddColumn(d, col, value) ==
  IF col \in Range(d.columns) THEN Refuse(d)
  ELSE [d EXCEPT !.columns = Append(@, col),
                 !.rows = [t \in DOMAIN @ |-> Extend(@[t], col, value)]]

\* v15: the PR number of the reviews stored before v13 is read from payload.
Backfill(d) ==
  [d EXCEPT !.rows = [t \in DOMAIN @ |->
     IF t = "review_pr" THEN [@[t] EXCEPT !["pr_number"] = "pr_number"] ELSE @[t]]]

PRNumber(v, d) ==
  CASE v = 13 -> AddColumn(d, "pr_number", "null")
    [] v = 14 -> d                                        \* its index
    [] v = 15 -> Backfill(d)

\* DROP TABLE tasks deletes its rows: with foreign keys on, ON DELETE SET NULL
\* clears the task of every result, and a NOT NULL result refuses it.
DropTasks(d, foreignKeys) ==
  IF ~foreignKeys THEN d
  ELSE IF \E table \in DOMAIN d.children : ~d.children[table].nullable THEN Refuse(d)
  ELSE [d EXCEPT !.children =
          [table \in DOMAIN @ |-> [@[table] EXCEPT !.linked = FALSE]]]

\* tasks_new with INSERT ... SELECT * : column i of the copy takes column i.
CopyByPosition(columns, d) ==
  [t \in DOMAIN d.rows |->
     [col \in Range(columns) |->
        d.rows[t][d.columns[CHOOSE i \in DOMAIN columns : columns[i] = col]]]]

\* v26 names the columns on both sides instead.
CopyByName(columns, d) ==
  [t \in DOMAIN d.rows |-> [col \in Range(columns) |-> d.rows[t][col]]]

\* A copy refused by the CHECK of the new table fails the migration.
RebuildTasks(d, types, columns, select, foreignKeys) ==
  IF \/ Len(columns) # Len(d.columns)
     \/ ~(DOMAIN d.rows \subseteq types)
  THEN Refuse(d)
  ELSE DropTasks([d EXCEPT !.types = types, !.columns = columns,
                           !.rows = IF select = "*" THEN CopyByPosition(columns, d)
                                    ELSE CopyByName(columns, d)], foreignKeys)

\* v16, v18: one more task type each; v17 adds triggered_by.
DailyReportAndAnalysis(v, d, foreignKeys) ==
  CASE v = 16 -> RebuildTasks(d, d.types \cup {"gen_daily_report"},
                    <<"head", "outcome", "times", "pr_number">>, "*", foreignKeys)
    [] v = 17 -> AddColumn(d, "triggered_by", "triggered_by")
    [] v = 18 -> RebuildTasks(d, d.types \cup {"analyze_issue"},
                    <<"head", "outcome", "times", "pr_number", "triggered_by">>,
                    "*", foreignKeys)

\* v19 declares task_id NOT NULL and ON DELETE SET NULL; v20 rebuilds the table,
\* which nothing refers to, with a nullable task_id.
TestGenResults(v, d) ==
  CASE v = 19 -> CreateChild(d, "test_gen_results", FALSE)
    [] v = 20 -> [d EXCEPT !.children["test_gen_results"].nullable = TRUE]

\* v21, v23: the end-to-end task types; v22 creates e2e_results.
EndToEnd(v, d, foreignKeys) ==
  CASE v = 21 -> RebuildTasks(d, d.types \cup {"run_e2e"},
                    <<"head", "outcome", "times", "pr_number", "triggered_by">>,
                    "*", foreignKeys)
    [] v = 22 -> CreateChild(d, "e2e_results", TRUE)
    [] v = 23 -> RebuildTasks(d, d.types \cup {"triage_e2e"},
                    <<"head", "outcome", "times", "pr_number", "triggered_by">>,
                    "*", foreignKeys)

\* v24: the tables of the iteration loop, which no foreign key ties to tasks,
\* and one more task type; v25 adds a column to one of these tables.
IterationTables(v, d, foreignKeys) ==
  IF v = 25 THEN d
  ELSE RebuildTasks(d, d.types \cup {"fix_review"},
         <<"head", "outcome", "times", "pr_number", "triggered_by">>,
         "*", foreignKeys)

\* v26: no CHECK on the type any more, and the columns in another order.
CodeFromDoc(d, foreignKeys) ==
  CreateChild(RebuildTasks(d, TaskTypes,
      <<"head", "pr_number", "outcome", "triggered_by", "times">>,
      "names", foreignKeys),
    "code_from_doc_results", TRUE)

Migrate(v, d, foreignKeys) ==
  CASE v \in 1..6    -> FirstTasks(v, d)
    [] v \in 7..12   -> ReviewResults(v, d)
    [] v \in 13..15  -> PRNumber(v, d)
    [] v \in 16..18  -> DailyReportAndAnalysis(v, d, foreignKeys)
    [] v \in 19..20  -> TestGenResults(v, d)
    [] v \in 21..23  -> EndToEnd(v, d, foreignKeys)
    [] v \in 24..25  -> IterationTables(v, d, foreignKeys)
    [] v = 26        -> CodeFromDoc(d, foreignKeys)

\* Mutant: PRAGMA foreign_keys is issued inside the transaction, where it does
\* nothing.
AlwaysOn(v) == TRUE

\* DisableForeignKeys of the migrations that rebuild tasks: the pragma is
\* switched on the process's own connection before the transaction begins.
ForeignKeys(v) == v \notin {16, 18, 21, 23, 24, 26}

\* The empty tables an installation that ended at version v was left with, and
\* the same with what was stored in them: a row of each type and results of them.
Schema[v \in 0..Latest] ==
  IF v = 0 THEN NoDB
  ELSE [Migrate(v, Schema[v - 1], ForeignKeys(v)) EXCEPT !.version = v]

Installed(v) ==
  [Schema[v] EXCEPT !.rows = [t \in Schema[v].types |-> FullRow(Schema[v], t)]]

-----------------------------------------------------------------------------
\* A process's handle on the store.  "reading" has looked the next version up in
\* its transaction, "writing" has executed the SQL and holds the write lock.
Closed == [at |-> "closed", seen |-> 0]

MigInit ==
  /\ writer = "none"
  /\ mig = [p \in Procs |-> Closed]

MTo(p, at) == mig' = [mig EXCEPT ![p].at = at]

Release(p) == writer' = IF writer = p THEN "none" ELSE writer

\* NewSQLiteStore: the directory, the connection, then RunMigrations.
OpenStore(p) ==
  /\ mig[p].at = "closed"
  /\ MTo(p, "migrating")
  /\ UNCHANGED <<db, writer>>

\* RunMigrations passes every version the file has, each looked up in a
\* transaction of its own, and begins the first it has not.
BeginMigration(p) ==
  /\ mig[p].at = "migrating"
  /\ mig' = [mig EXCEPT ![p] =
       [at |-> IF db.version = Latest THEN "open" ELSE "reading", seen |-> db.version]]
  /\ UNCHANGED <<db, writer>>

\* Mutant: the version is looked up before the transaction, so a version another
\* process has just applied is applied again.
ExecuteUnchecked(p) ==
  /\ mig[p].at = "reading" /\ writer = "none"
  /\ IF Migrate(mig[p].seen + 1, db, ForeignKeys(mig[p].seen + 1)).refused
     THEN MTo(p, "refused") /\ UNCHANGED writer
     ELSE MTo(p, "writing") /\ writer' = p
  /\ UNCHANGED db

\* executeMigrationInTx executes the SQL.  The transaction only takes the write
\* lock now: not if another process committed since it read (SQLite refuses the
\* upgrade of an old snapshot), and not while another one holds it.
ExecuteMigration(p) ==
  /\ mig[p].at = "reading" /\ writer = "none"
  /\ IF db.version # mig[p].seen THEN MTo(p, "failed") /\ UNCHANGED writer
     ELSE IF Migrate(mig[p].seen + 1, db, ForeignKeys(mig[p].seen + 1)).refused
     THEN MTo(p, "refused") /\ UNCHANGED writer
     ELSE MTo(p, "writing") /\ writer' = p
  /\ UNCHANGED db

\* The version is recorded and the transaction committed; a rebuild then turns
\* foreign keys on again and checks them.
CommitMigration(p) ==
  /\ mig[p].at = "writing"
  /\ db' = [Migrate(mig[p].seen + 1, db, ForeignKeys(mig[p].seen + 1))
             EXCEPT !.version = mig[p].seen + 1]
  /\ MTo(p, "migrating")
  /\ writer' = "none"

\* A statement fails, or the lock is held beyond busy_timeout: the transaction
\* rolls back, NewSQLiteStore closes the database and returns the error.
MigrationFails(p) ==
  /\ mig[p].at \in {"migrating", "reading", "writing"}
  /\ MTo(p, "failed")
  /\ Release(p)
  /\ UNCHANGED db

MigrationStep(p) == BeginMigration(p) \/ ExecuteMigration(p) \/ CommitMigration(p)

\* Close, or the end of the process.
CloseStore(p) ==
  /\ mig' = [mig EXCEPT ![p] = Closed]
  /\ Release(p)
  /\ UNCHANGED db

-----------------------------------------------------------------------------
StoreTypes ==
  /\ db.version \in 0..Latest /\ writer \in Procs \cup {"none"}
  /\ mig \in [Procs -> [at : {"closed", "migrating", "reading", "writing", "open",
                              "refused", "failed"}, seen : 0..Latest]]

\* Whatever version an installation starts from, and however often processes
\* that migrate it together fail, everything stored stays under the column it
\* was stored in, reviews keep or get their PR number, and every result keeps
\* its task: dropping tasks must not run ON DELETE SET NULL
\* (migrations.go:592-594).  No migration is refused by the data of an older
\* version or by one another process applied between its look-up and its SQL;
\* and once a process has the store open, every task type the program enqueues
\* can be stored and a task that has results can be deleted.
UpgradesAreSafe ==
  /\ \A t \in DOMAIN db.rows : \A col \in DOMAIN db.rows[t] :
       \/ db.rows[t][col] = col
       \/ col = "pr_number" /\ db.rows[t][col] = "null"
            /\ (t = "review_pr" => db.version < 15)
  /\ \A table \in DOMAIN db.children : db.children[table].linked
  /\ \A p \in Procs :
       /\ mig[p].at # "refused"
       /\ mig[p].at = "open" =>
            /\ TaskTypes \subseteq db.types
            /\ \A table \in DOMAIN db.children : db.children[table].nullable

-----------------------------------------------------------------------------
(* The inductive invariant that implies it.                                *)
DBFields == {"version", "columns", "types", "rows", "children", "refused"}

\* The columns of tasks after the migration to version v.
ColumnsAt(v) ==
  IF v = 0 THEN <<>>
  ELSE IF v < 13 THEN <<"head", "outcome", "times">>
  ELSE IF v < 17 THEN <<"head", "outcome", "times", "pr_number">>
  ELSE IF v < 26 THEN <<"head", "outcome", "times", "pr_number", "triggered_by">>
  ELSE <<"head", "pr_number", "outcome", "triggered_by", "times">>

\* A row keeps what was stored in it.
RowKept(row, t, v) ==
  /\ DOMAIN row = Range(ColumnsAt(v))
  /\ \A col \in DOMAIN row :
       row[col] = col \/ (col = "pr_number" /\ row[col] = "null" /\ (t = "review_pr" => v < 15))

ChildrenAt(children, v) ==
  \A table \in DOMAIN children :
    /\ children[table].linked
    /\ children[table].nullable \/ (table = "test_gen_results" /\ v = 19)
    /\ DOMAIN children[table] = {"nullable", "linked"}
    /\ table = "test_gen_results" => v >= 19

\* A database that migrations have brought to version v.
Kept(d, v) ==
  /\ DOMAIN d = DBFields /\ ~d.refused
  /\ d.columns = ColumnsAt(v)
  /\ d.types \subseteq TaskTypes /\ (v = Latest => d.types = TaskTypes)
  /\ DOMAIN d.rows \subseteq d.types /\ (v = 0 => d.types = {})
  /\ \A t \in DOMAIN d.rows : RowKept(d.rows[t], t, v)
  /\ ChildrenAt(d.children, v)

\* Who writes holds the lock, and nobody has committed since it looked.
UpgradeInv ==
  /\ StoreTypes /\ Kept(db, db.version)
  /\ \A p \in Procs :
       /\ mig[p].at \in {"reading", "writing"} => mig[p].seen < Latest
       /\ mig[p].at = "writing" => writer = p /\ db.version = mig[p].seen
       /\ mig[p].at # "refused"
       /\ mig[p].at = "open" => db.version = Latest
=============================================================================
