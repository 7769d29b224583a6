------------------------------ MODULE Migrations ------------------------------
(***************************************************************************)
(* yainit --schema: apply_schema() (postgres_schema.py, schema.sql) and    *)
(* then apply_migrations() (postgres_migrations.py, sql/migrations) on one *)
(* database, by operators who may run it twice at once, be interrupted and *)
(* run it again; and the preflight that lets the daemon start.             *)
(*                                                                         *)
(* The schema is a set of features: a column, a constraint, a type, a      *)
(* trigger, or a group of them that always comes together.  A migration is *)
(* what its statements need, refuse to find, drop and add.  The ids        *)
(* '001'... are numbers: they compare the same way.  DDL takes locks until *)
(* the transaction ends, so that a .sql migration is one step; what        *)
(* schema.sql looks up before it waits for a lock is a step of its own.    *)
(***************************************************************************)
EXTENDS Integers, Sequences, FiniteSets

CONSTANTS Runners,        \* yainit processes
          PyKinds,        \* .py migrations packaged after 013: "transactional"
                          \* or "autocommit" (closes the transaction itself)
          RecordFailures  \* where recording one may fail: "insert", "commit"

ASSUME PyAssumption ==
    /\ PyKinds \in Seq({"transactional", "autocommit"})
    /\ RecordFailures \subseteq {"insert", "commit"}

SqlIds == 1..13
Ids == 1..(13 + Len(PyKinds))
Latest == 13 + Len(PyKinds)     \* last_migration of schema.sql
PyIds == Ids \ SqlIds

VARIABLES
    schema,      \* features of the database
    pyEffects,   \* .py migrations whose effect it has
    hasTracker,  \* yascheduler_migrations exists
    tracker,     \* its rows
    orphans,     \* a RUNNING legacy task has the ip of no node
    pc,          \* per runner: what it does next, or its exit
    missing,     \* per runner: objects that schema.sql found absent
    todo,        \* per runner: the next pending migration
    commits,     \* transactions that recorded it, per migration
    daemon       \* "down" or "up"

database == <<schema, pyEffects, hasTracker, tracker>>
runner == <<pc, missing, todo>>
vars == <<database, orphans, runner, commits, daemon>>

-----------------------------------------------------------------------------
(* Features. *)

NodesTable == {"nodes", "node_id_identity", "hostname", "username", "port",
               "nodes_timestamps", "nodes_trigger", "jump_host", "external_id",
               "status_column", "port_checks", "ncpus_check"}
TasksTable == {"tasks", "task_id_identity", "title", "status_enum", "typed_columns",
               "allocated_node_id", "tasks_timestamps", "tasks_trigger", "field_check"}
Types == {"task_status", "node_status"}

\* schema.sql
Snapshot == NodesTable \cup TasksTable \cup Types \cup {"touch_function"}

\* What a database from before the migrations has, with username and port or
\* without.
Legacy == {"nodes", "ip", "ip_unique",
           "tasks", "task_id_serial", "label", "metadata", "task_ip", "status_smallint"}

\* "future" stands for what the migrations of a newer package add.
Features == Snapshot \cup Legacy \cup {"node_id_serial", "future"}

Migration(needs, fresh, drops, adds) ==
    [needs |-> needs, fresh |-> fresh, drops |-> drops, adds |-> adds]

\* Mutant: 008 creates its type without looking for it.
GuardedTypesOfNodes == {"node_status"}

\* CREATE TYPE has no IF NOT EXISTS: these are looked up first.
GuardedTypes == {"task_status", "node_status"}

\* 001 to 013.  "fresh" is what ADD COLUMN, ADD CONSTRAINT, RENAME and ADD
\* GENERATED refuse to find; "adds" is guarded by IF NOT EXISTS or replaced.
AddUsernamePort == Migration({"nodes"}, {}, {}, {"username", "port"})
AddNodeId == Migration({"nodes"}, {"node_id_serial"}, {}, {})
DropTmpNodeFakeIp == Migration({"ip_unique"}, {}, {"ip_unique"}, {})
AddAllocatedNodeId ==
    Migration({"ip", "task_ip", "node_id_serial"}, {"allocated_node_id"}, {}, {})
SerialToIdentity ==
    Migration({"node_id_serial", "task_id_serial"}, {"node_id_identity", "task_id_identity"},
              {"node_id_serial", "task_id_serial"}, {})
RenameLabelToTitle == Migration({"label"}, {"title"}, {"label"}, {})
AddCreatedUpdatedAt ==
    Migration({"tasks"}, {}, {}, {"tasks_timestamps", "touch_function", "tasks_trigger"})
StatusToEnum ==
    Migration({"status_smallint"}, {"status_enum"}, {"status_smallint"}, {"task_status"})
DropAllocatedIp == Migration({"tasks"}, {}, {"task_ip"}, {})
ExtractMetadataColumns == Migration({"metadata"}, {"typed_columns"}, {"metadata"}, {})
TaskStatusFieldCheck ==
    Migration({"status_enum", "typed_columns", "allocated_node_id"}, {"field_check"}, {}, {})
NodeRenameAndFields ==
    Migration({"ip", "port", "touch_function"}, {"hostname", "port_checks"}, {"ip"},
              {"nodes_timestamps", "nodes_trigger", "jump_host", "external_id",
               "node_status", "status_column"})
NcpusNullable == Migration({"nodes"}, {"ncpus_check"}, {}, {})

SqlMigrations ==
    <<AddUsernamePort, AddNodeId, DropTmpNodeFakeIp, AddAllocatedNodeId, SerialToIdentity,
      RenameLabelToTitle, AddCreatedUpdatedAt, StatusToEnum, DropAllocatedIp,
      ExtractMetadataColumns, TaskStatusFieldCheck, NodeRenameAndFields, NcpusNullable>>

\* 004 finds no node for an orphan, whose NULL the CHECK of 011 refuses.
Applicable(i) ==
    /\ SqlMigrations[i].needs \subseteq schema
    /\ (SqlMigrations[i].fresh \cup ((SqlMigrations[i].adds \cap Types) \ GuardedTypes))
          \cap schema = {}
    /\ i = 11 => ~orphans

Effect(i, before) ==
    LET m == SqlMigrations[i] IN (before \ m.drops) \cup m.fresh \cup m.adds

\* The schema at each version.
Version[i \in {0} \cup SqlIds] ==
    IF i = 0 THEN Legacy ELSE Effect(i, Version[i - 1])

-----------------------------------------------------------------------------

TypeOK ==
    /\ schema \subseteq Features
    /\ pyEffects \subseteq PyIds
    /\ hasTracker \in BOOLEAN /\ orphans \in BOOLEAN
    /\ tracker \subseteq Ids \cup {Latest + 1}
    /\ tracker # {} => hasTracker
    /\ pc \in [Runners -> {"idle", "schema", "last", "apply", "record", "ok", "failed"}]
    /\ missing \in [Runners -> SUBSET ({"tracker", "nodes", "tasks"} \cup Types)]
    /\ \A r \in Runners : missing[r] # {} => pc[r] = "schema"
    /\ todo \in [Runners -> Ids \cup {Latest + 1, Latest + 2}]
    /\ commits \in [Ids -> 0..2]
    /\ daemon \in {"down", "up"}

\* The cohorts: fresh, legacy, at some version with a tracker, and migrated by
\* a newer package.
Init ==
    /\ \/ /\ schema \in {{}, Legacy, Legacy \cup {"username", "port"}}
          /\ hasTracker = FALSE /\ tracker = {} /\ pyEffects = {}
       \/ \E i \in SqlIds :
             schema = Version[i] /\ hasTracker = TRUE /\ tracker = {i} /\ pyEffects = {}
       \/ /\ schema = Snapshot \cup {"future"} /\ pyEffects = PyIds
          /\ hasTracker = TRUE /\ tracker = {Latest, Latest + 1}
    /\ orphans \in BOOLEAN
    /\ orphans => "nodes" \in schema /\ "field_check" \notin schema
    /\ pc = [r \in Runners |-> "idle"]
    /\ missing = [r \in Runners |-> {}]
    /\ todo = [r \in Runners |-> 1]
    /\ commits = [i \in Ids |-> 0]
    /\ daemon = "down"

Goes(r, to) == pc' = [pc EXCEPT ![r] = to]

\* An error: ROLLBACK, exit 1.
Fails(r) ==
    /\ Goes(r, "failed")
    /\ missing' = [missing EXCEPT ![r] = {}]
    /\ UNCHANGED <<database, todo, commits>>

-----------------------------------------------------------------------------
(* apply_schema() *)

\* BEGIN and the look-ups (to_regclass, to_regtype, IF NOT EXISTS).
SchemaLooks(r) ==
    /\ pc[r] = "idle"
    /\ missing' = [missing EXCEPT ![r] =
                      (IF hasTracker THEN {} ELSE {"tracker"})
                      \cup (({"nodes", "tasks"} \cup Types) \ schema)]
    /\ Goes(r, "schema")
    /\ UNCHANGED <<database, orphans, todo, commits, daemon>>

\* Mutant: the tracker is seeded when it is created, nodes or no nodes.
SeedsAny(r) == "tracker" \in missing[r]

\* Only a fresh database is seeded.
Seeds(r) == {"tracker", "nodes"} \subseteq missing[r]

\* The objects found absent are created, which fails if they exist by now; the
\* function is replaced, the triggers too where their column exists.
SchemaCommits(r) ==
    /\ pc[r] = "schema"
    /\ IF missing[r] \cap (schema \cup IF hasTracker THEN {"tracker"} ELSE {}) # {}
       THEN Fails(r)
       ELSE LET created == (missing[r] \cap Types)
                           \cup (IF "nodes" \in missing[r] THEN NodesTable ELSE {})
                           \cup (IF "tasks" \in missing[r] THEN TasksTable ELSE {})
                           \cup {"touch_function"}
                now == schema \cup created
            IN /\ schema' = now
                     \cup (IF "tasks_timestamps" \in now THEN {"tasks_trigger"} ELSE {})
                     \cup (IF "nodes_timestamps" \in now THEN {"nodes_trigger"} ELSE {})
               /\ pyEffects' = IF "nodes" \in missing[r] THEN PyIds ELSE pyEffects
               /\ hasTracker' = TRUE
               /\ tracker' = IF Seeds(r) THEN {Latest} ELSE tracker
               /\ missing' = [missing EXCEPT ![r] = {}]
               /\ Goes(r, "last")
               /\ UNCHANGED <<todo, commits>>
    /\ UNCHANGED <<orphans, daemon>>

-----------------------------------------------------------------------------
(* apply_migrations() *)

\* MAX(migration_id); 0 for an empty tracker.
Last == IF tracker = {} THEN 0 ELSE CHOOSE i \in tracker : \A j \in tracker : j <= i

\* The pending list is computed once: everything after the last one applied.
ReadLast(r) ==
    /\ pc[r] = "last"
    /\ todo' = [todo EXCEPT ![r] = Last + 1]
    /\ Goes(r, "apply")
    /\ UNCHANGED <<database, orphans, missing, commits, daemon>>

\* Mutant: INSERT ... ON CONFLICT DO NOTHING.
InsertsAny(i) == i \in Ids

\* migration_id is the primary key: a second INSERT fails.
Inserts(i) == i \notin tracker

Records(r, i) ==
    /\ tracker' = tracker \cup {i}
    /\ commits' = [commits EXCEPT ![i] = IF @ < 2 THEN @ + 1 ELSE @]
    /\ todo' = [todo EXCEPT ![r] = i + 1]

\* Mutant: a migration that fails is skipped.
ApplySqlGoesOn(r) ==
    /\ pc[r] = "apply" /\ todo[r] \in SqlIds
    /\ IF Applicable(todo[r]) /\ Inserts(todo[r])
       THEN schema' = Effect(todo[r], schema) /\ Records(r, todo[r])
       ELSE todo' = [todo EXCEPT ![r] = @ + 1] /\ UNCHANGED <<schema, tracker, commits>>
    /\ UNCHANGED <<pc, missing, pyEffects, hasTracker, orphans, daemon>>

\* The file and the tracker row, in one transaction.
ApplySql(r) ==
    /\ pc[r] = "apply" /\ todo[r] \in SqlIds
    /\ IF Applicable(todo[r]) /\ Inserts(todo[r])
       THEN /\ schema' = Effect(todo[r], schema)
            /\ Records(r, todo[r])
            /\ UNCHANGED <<pc, missing, pyEffects, hasTracker>>
       ELSE Fails(r)
    /\ UNCHANGED <<orphans, daemon>>

Autocommits(i) == PyKinds[i - 13] = "autocommit"

\* BEGIN and migrate(), which is not idempotent.  One that calls
\* self.commit() has its effect for good.
PyMigrate(r) ==
    /\ pc[r] = "apply" /\ todo[r] \in PyIds
    /\ IF todo[r] \in pyEffects
       THEN Fails(r)
       ELSE /\ pyEffects' = IF Autocommits(todo[r]) THEN pyEffects \cup {todo[r]}
                            ELSE pyEffects
            /\ Goes(r, "record")
            /\ UNCHANGED <<schema, hasTracker, tracker, missing, todo, commits>>
    /\ UNCHANGED <<orphans, daemon>>

\* _record_py_tracker(): INSERT and COMMIT.  For a row that exists the retry
\* fails like the first try.
PyRecord(r) ==
    /\ pc[r] = "record"
    /\ IF Inserts(todo[r]) /\ (todo[r] \in pyEffects => Autocommits(todo[r]))
       THEN /\ pyEffects' = pyEffects \cup {todo[r]}
            /\ Records(r, todo[r])
            /\ Goes(r, "apply")
            /\ UNCHANGED <<schema, hasTracker, missing>>
       ELSE Fails(r)
    /\ UNCHANGED <<orphans, daemon>>

\* A DatabaseError in the first try and its retry.  After a failed INSERT the
\* transaction is aborted and refuses BEGIN; after a failed COMMIT it is gone
\* with the effect, and the retry records the migration alone.
PyRecordRetry(r) ==
    /\ pc[r] = "record"
    /\ \E where \in RecordFailures :
          IF Inserts(todo[r]) /\ (where = "commit" \/ Autocommits(todo[r]))
          THEN /\ Records(r, todo[r])
               /\ Goes(r, "apply")
               /\ UNCHANGED <<schema, pyEffects, hasTracker, missing>>
          ELSE Fails(r)
    /\ UNCHANGED <<orphans, daemon>>

Done(r) ==
    /\ pc[r] = "apply" /\ todo[r] > Latest
    /\ Goes(r, "ok")
    /\ UNCHANGED <<database, orphans, missing, todo, commits, daemon>>

-----------------------------------------------------------------------------

\* The process or its connection dies: the open transaction is rolled back.
Interrupt(r) ==
    /\ pc[r] \in {"schema", "last", "apply", "record"}
    /\ Fails(r)
    /\ UNCHANGED <<orphans, daemon>>

\* yainit is run again, after an error or to no purpose.
RunAgain(r) ==
    /\ pc[r] \in {"failed", "ok"}
    /\ Goes(r, "idle")
    /\ UNCHANGED <<database, orphans, missing, todo, commits, daemon>>

\* check_migration_status()
Status ==
    CASE ~hasTracker   -> "missing"
      [] hasTracker /\ tracker = {} -> "empty"
      [] tracker # {} /\ Last < Latest -> "behind"
      [] tracker # {} /\ Last > Latest -> "ahead"
      [] tracker # {} /\ Last = Latest -> "current"

\* The preflight of the daemon, which refuses to start in any other state.
StartDaemon ==
    /\ daemon = "down"
    /\ Status = "current"
    /\ daemon' = "up"
    /\ UNCHANGED <<database, orphans, runner, commits>>

StopDaemon ==
    /\ daemon = "up"
    /\ daemon' = "down"
    /\ UNCHANGED <<database, orphans, runner, commits>>

RunnerStep(r) ==
    \/ SchemaLooks(r) \/ SchemaCommits(r) \/ ReadLast(r)
    \/ ApplySql(r) \/ PyMigrate(r) \/ PyRecord(r) \/ PyRecordRetry(r)
    \/ Done(r) \/ Interrupt(r) \/ RunAgain(r)

Next == StartDaemon \/ StopDaemon \/ \E r \in Runners : RunnerStep(r)

Spec == Init /\ [][Next]_vars

-----------------------------------------------------------------------------
(* Properties. *)

\* The daemon runs on the schema of schema.sql, whatever cohort the database
\* came from and whoever migrates it: the preflight, which reads the tracker
\* only, is sound.
DaemonOnSnapshot == daemon = "up" => schema = Snapshot /\ pyEffects = PyIds

\* A yainit that exits 0 leaves a database that is up to date, or newer.
SuccessIsHead ==
    \A r \in Runners : pc[r] = "ok" => Snapshot \subseteq schema /\ pyEffects = PyIds

\* No migration is committed twice, by two runners or by one that was
\* interrupted: they are not idempotent ("the tracker guards").
AppliedOnce == \A i \in Ids : commits[i] <= 1

\* A yainit that was interrupted, or ran beside another, never leaves a
\* database that the next one cannot bring further: what schema.sql creates
\* early is not in the way of the migrations.
CanUpgrade ==
    hasTracker /\ Last \in {0} \cup (SqlIds \ {13}) /\ ~orphans => Applicable(Last + 1)

\* "migrate() applied <=> tracker recorded", once no runner is in between.
\* A database seeded to the head has all of them.
AppliedIffRecorded ==
    (\A r \in Runners : pc[r] # "record") =>
        \A i \in PyIds : i \in pyEffects <=> Last >= i
=============================================================================
