-------------------------- MODULE Migrations_proofs --------------------------
(***************************************************************************)
(* The schema and its migrations, for any number of yainit processes, any  *)
(* .py migrations and failures, interrupted and run again anywhere.        *)
(*                                                                         *)
(* The runners do not exclude each other: each reads the tracker once and  *)
(* works through what was pending then.  What keeps them apart is the      *)
(* primary key of the tracker, and that no row of it ever goes away: a     *)
(* runner can only add the row after the last (NextInLine), so that rows   *)
(* are added in order and the schema is always at the version of the last  *)
(* row (UpgradeInv), up to what schema.sql creates ahead of time.          *)
(***************************************************************************)
EXTENDS Migrations, TLAPS

\* The groups of variables, to expand UNCHANGED.
USE DEF database, runner, vars

States == {"idle", "schema", "last", "apply", "record", "ok", "failed"}

\* A committed migration has its row; rows, and runners past apply_schema(), are
\* there only with the table.
TrackerInv ==
    /\ hasTracker \in BOOLEAN
    /\ tracker # {} => hasTracker
    /\ pc \in [Runners -> States]
    /\ \A r \in Runners : pc[r] \in {"last", "apply", "record"} => hasTracker
    /\ todo = [r \in Runners |-> todo[r]]
    /\ \A r \in Runners : pc[r] = "record" => todo[r] \in PyIds
    /\ commits \in [Ids -> 0..2]
    /\ \A i \in Ids : commits[i] <= 1 /\ (commits[i] # 0 => i \in tracker)

LEMMA InitTracker == Init => TrackerInv
  <1> SUFFICES ASSUME Init PROVE TrackerInv
    OBVIOUS
  <1>1. hasTracker \in BOOLEAN /\ (tracker # {} => hasTracker)
    BY DEF Init
  <1>2. /\ pc = [r \in Runners |-> "idle"] /\ commits = [i \in Ids |-> 0]
        /\ todo = [r \in Runners |-> 1]
    BY DEF Init
  <1> QED
    BY <1>1, <1>2 DEF TrackerInv, States

\* Steps that leave the table alone.
LEMMA TrackerFrame ==
    ASSUME TrackerInv, UNCHANGED <<hasTracker, tracker, commits>>,
           NEW r \in Runners, NEW to \in States, Goes(r, to),
           to \in {"last", "apply", "record"} => hasTracker,
           UNCHANGED todo \/ \E x : todo' = [todo EXCEPT ![r] = x],
           to = "record" => todo'[r] \in PyIds
    PROVE  TrackerInv'
  BY DEF TrackerInv, Goes

\* apply_schema() replaces the rows of the tracker only when it creates it.
LEMMA SchemaKeepsTracker ==
    ASSUME TrackerInv, NEW r \in Runners, SchemaCommits(r)
    PROVE  TrackerInv'
  <1>1. CASE Fails(r)
    BY <1>1, TrackerFrame DEF Fails, States
  <1>2. CASE ~Fails(r)
    <2>1. hasTracker' = TRUE /\ UNCHANGED <<commits, todo>> /\ Goes(r, "last")
      BY <1>2 DEF SchemaCommits
    <2>2. Seeds(r) => tracker = {}
      BY <1>2 DEF SchemaCommits, Seeds, TrackerInv
    <2>3. tracker \subseteq tracker'
      BY <1>2, <2>2 DEF SchemaCommits
    <2> QED
      BY <2>1, <2>3 DEF TrackerInv, Goes, States
  <1> QED
    BY <1>1, <1>2

\* A row is added together with the commit it stands for.
LEMMA RecordsOnce ==
    ASSUME TrackerInv, NEW r \in Runners, NEW i \in Ids, i \notin tracker,
           hasTracker, UNCHANGED hasTracker,
           tracker' = tracker \cup {i},
           commits' = [commits EXCEPT ![i] = IF @ < 2 THEN @ + 1 ELSE @],
           todo' = [todo EXCEPT ![r] = i + 1],
           Goes(r, "apply") \/ (UNCHANGED pc /\ pc[r] = "apply")
    PROVE  TrackerInv'
  <1>1. commits' \in [Ids -> 0..2]
    BY DEF TrackerInv
  <1>2. \A j \in Ids : commits'[j] <= 1 /\ (commits'[j] # 0 => j \in tracker')
    BY DEF TrackerInv
  <1>3. pc' \in [Runners -> States]
    BY DEF TrackerInv, Goes, States
  <1>4. \A q \in Runners : pc'[q] = "record" => todo'[q] \in PyIds
    BY DEF TrackerInv, Goes
  <1> QED
    BY <1>1, <1>2, <1>3, <1>4 DEF TrackerInv, Goes

LEMMA StepTracker == TrackerInv /\ [Next]_vars => TrackerInv'
  <1> SUFFICES ASSUME TrackerInv, [Next]_vars PROVE TrackerInv'
    OBVIOUS
  <1>1. ASSUME NEW r \in Runners, RunnerStep(r) PROVE TrackerInv'
    <2>0. /\ SqlIds \subseteq Ids /\ PyIds \subseteq Ids
          /\ pc[r] = "apply" => hasTracker
          /\ pc[r] = "record" => hasTracker /\ todo[r] \in PyIds
      BY PyAssumption DEF SqlIds, Ids, PyIds, TrackerInv
    <2>1. CASE SchemaLooks(r)
      BY <2>1, TrackerFrame DEF SchemaLooks, States
    <2>2. CASE SchemaCommits(r)
      BY <2>2, SchemaKeepsTracker
    <2>3. CASE ReadLast(r)
      BY <2>3, TrackerFrame DEF ReadLast, States, TrackerInv
    <2>4. CASE ApplySql(r)
      <3>1. CASE Fails(r)
        BY <3>1, TrackerFrame DEF Fails, States
      <3>2. CASE ~Fails(r)
        BY <2>0, <2>4, <3>2, RecordsOnce DEF ApplySql, Records, Inserts
      <3> QED
        BY <3>1, <3>2
    <2>5. CASE PyMigrate(r)
      BY <2>0, <2>5, TrackerFrame DEF PyMigrate, Fails, States
    <2>6. CASE PyRecord(r)
      <3>1. CASE Fails(r)
        BY <3>1, TrackerFrame DEF Fails, States
      <3>2. CASE ~Fails(r)
        BY <2>0, <2>6, <3>2, RecordsOnce DEF PyRecord, Records, Inserts
      <3> QED
        BY <3>1, <3>2
    <2>7. CASE PyRecordRetry(r)
      <3>1. CASE Fails(r)
        BY <3>1, TrackerFrame DEF Fails, States
      <3>2. CASE ~Fails(r)
        BY <2>0, <2>7, <3>2, RecordsOnce DEF PyRecordRetry, Records, Inserts
      <3> QED
        BY <3>1, <3>2
    <2>8. CASE Done(r) \/ RunAgain(r)
      BY <2>8, TrackerFrame DEF Done, RunAgain, States
    <2>9. CASE Interrupt(r)
      BY <2>9, TrackerFrame DEF Interrupt, Fails, States
    <2> QED
      BY <1>1, <2>1, <2>2, <2>3, <2>4, <2>5, <2>6, <2>7, <2>8, <2>9 DEF RunnerStep
  <1>2. CASE StartDaemon \/ StopDaemon \/ UNCHANGED vars
    BY <1>2 DEF StartDaemon, StopDaemon, TrackerInv
  <1> QED
    BY <1>1, <1>2 DEF Next

\* No migration is committed twice ("the tracker guards", the migrations are
\* not idempotent): by the primary key of the tracker, for any runners.
THEOREM MigrationsAppliedOnce == Spec => []AppliedOnce
  <1>1. TrackerInv => AppliedOnce
    BY DEF TrackerInv, AppliedOnce
  <1> QED
    BY InitTracker, StepTracker, <1>1, PTL DEF Spec

-----------------------------------------------------------------------------
(* What the schema is at each version: the migrations computed in closed   *)
(* form.                                                                   *)

Content(k) ==
    {"nodes", "tasks"}
    \cup (IF k < 3 THEN {"ip_unique"} ELSE {})
    \cup (IF k < 5 THEN {"task_id_serial"} ELSE {"node_id_identity", "task_id_identity"})
    \cup (IF k < 6 THEN {"label"} ELSE {"title"})
    \cup (IF k < 8 THEN {"status_smallint"} ELSE {"task_status", "status_enum"})
    \cup (IF k < 9 THEN {"task_ip"} ELSE {})
    \cup (IF k < 10 THEN {"metadata"} ELSE {"typed_columns"})
    \cup (IF k < 12 THEN {"ip"}
          ELSE {"hostname", "port_checks", "nodes_timestamps", "nodes_trigger",
                "jump_host", "external_id", "node_status", "status_column"})
    \cup (IF k >= 1 THEN {"username", "port"} ELSE {})
    \cup (IF k \in 2..4 THEN {"node_id_serial"} ELSE {})
    \cup (IF k >= 4 THEN {"allocated_node_id"} ELSE {})
    \cup (IF k >= 7 THEN {"tasks_timestamps", "touch_function", "tasks_trigger"} ELSE {})
    \cup (IF k >= 11 THEN {"field_check"} ELSE {})
    \cup (IF k >= 13 THEN {"ncpus_check"} ELSE {})

\* What schema.sql creates ahead of the migrations on an old database.
Early == Types \cup {"touch_function"}

\* What a database may have ahead of its version.
Ahead(k) ==
    Early \cup (IF k = 0 THEN {"username", "port"} ELSE {})
          \cup (IF k > Latest THEN {"future"} ELSE {})

\* Database S is at version k.
At(S, k) == Content(k) \subseteq S /\ S \subseteq Content(k) \cup Ahead(k)

LEMMA Numbers ==
    /\ Latest \in Nat /\ Latest >= 13
    /\ Ids = 1..Latest /\ PyIds = 14..Latest
  BY PyAssumption DEF Latest, Ids, PyIds, SqlIds

LEMMA SqlIdsListed ==
    \A i \in SqlIds : \/ i = 1 \/ i = 2 \/ i = 3 \/ i = 4 \/ i = 5 \/ i = 6 \/ i = 7
                      \/ i = 8 \/ i = 9 \/ i = 10 \/ i = 11 \/ i = 12 \/ i = 13
  BY DEF SqlIds

LEMMA LegacyContent == Content(0) = Legacy
  BY DEF Content, Legacy

LEMMA HeadContent == Content(13) = Snapshot
  BY DEF Content, Snapshot, NodesTable, TasksTable, Types

\* The .py migrations do not change the features.
LEMMA HeadStays == ASSUME NEW k \in Nat, k >= 13 PROVE Content(k) = Snapshot
  BY HeadContent DEF Content

LEMMA FeaturesCover == ASSUME NEW k \in Nat PROVE Content(k) \cup Ahead(k) \subseteq Features
  BY DEF Content, Ahead, Early, Features, Snapshot, Legacy, NodesTable, TasksTable, Types

\* A step from version i - 1 to version i, by the migration's own statements.
Leads(i) ==
    /\ Content(i) = (Content(i - 1) \ SqlMigrations[i].drops)
                    \cup SqlMigrations[i].fresh \cup SqlMigrations[i].adds
    /\ SqlMigrations[i].needs \subseteq Content(i - 1)
    /\ SqlMigrations[i].fresh \cap (Content(i - 1) \cup Ahead(i - 1)) = {}

LEMMA MigrationsLead == \A i \in SqlIds : Leads(i)
  <1> USE DEF Leads, Content, Ahead, Early, Types, SqlMigrations, Migration
  <1> USE Numbers
  <1>1. Leads(1)
    BY DEF AddUsernamePort
  <1>2. Leads(2)
    BY DEF AddNodeId
  <1>3. Leads(3)
    BY DEF DropTmpNodeFakeIp
  <1>4. Leads(4)
    BY DEF AddAllocatedNodeId
  <1>5. Leads(5)
    BY DEF SerialToIdentity
  <1>6. Leads(6)
    BY DEF RenameLabelToTitle
  <1>7. Leads(7)
    BY DEF AddCreatedUpdatedAt
  <1>8. Leads(8)
    BY DEF StatusToEnum
  <1>9. Leads(9)
    BY DEF DropAllocatedIp
  <1>10. Leads(10)
    BY DEF ExtractMetadataColumns
  <1>11. Leads(11)
    BY DEF TaskStatusFieldCheck
  <1>12. Leads(12)
    BY DEF NodeRenameAndFields
  <1>13. Leads(13)
    BY DEF NcpusNullable
  <1> HIDE DEF Leads
  <1> QED
    BY ONLY SqlIdsListed, <1>1, <1>2, <1>3, <1>4, <1>5, <1>6, <1>7, <1>8, <1>9, <1>10, <1>11,
       <1>12, <1>13

\* The recursive definition has the closed form.
LEMMA VersionIs == \A k \in 0..13 : Version[k] = Content(k)
  <1> DEFINE Closed == [k \in {0} \cup SqlIds |-> Content(k)]
             Step(f) == [i \in {0} \cup SqlIds |->
                            IF i = 0 THEN Legacy ELSE Effect(i, f[i - 1])]
  <1>1. \A k \in SqlIds : Content(k) = Effect(k, Content(k - 1))
    BY MigrationsLead DEF Effect, Leads
  <1>2. \A k \in SqlIds : k # 0 /\ k - 1 \in {0} \cup SqlIds
    BY DEF SqlIds
  <1>3. Closed = Step(Closed)
    BY <1>1, <1>2, LegacyContent
  <1>4. \E f : f = Step(f)
    BY <1>3
  <1>5. Version = Step(Version)
    <2> HIDE DEF Step
    <2>1. Version = CHOOSE f : f = Step(f)
      BY DEF Version, Step
    <2> QED
      BY <1>4, <2>1
  <1>6. Version[0] = Content(0)
    BY <1>5, LegacyContent
  <1>7. \A k \in SqlIds : Version[k - 1] = Content(k - 1) => Version[k] = Content(k)
    BY <1>1, <1>2, <1>5
  <1> HIDE DEF Step, Closed
  <1>8. /\ Version[1] = Content(1) /\ Version[2] = Content(2) /\ Version[3] = Content(3)
        /\ Version[4] = Content(4) /\ Version[5] = Content(5) /\ Version[6] = Content(6)
        /\ Version[7] = Content(7)
    BY <1>6, <1>7 DEF SqlIds
  <1>9. /\ Version[8] = Content(8) /\ Version[9] = Content(9) /\ Version[10] = Content(10)
        /\ Version[11] = Content(11) /\ Version[12] = Content(12) /\ Version[13] = Content(13)
    BY <1>7, <1>8 DEF SqlIds
  <1> QED
    BY <1>6, <1>8, <1>9

LEMMA AtNext ==
    ASSUME NEW i \in SqlIds, NEW S, At(S, i - 1)
    PROVE  At(Effect(i, S), i)
  <1>1. Leads(i)
    BY MigrationsLead
  <1>2. i - 1 # 0 => Ahead(i - 1) = Early /\ Ahead(i) = Early
    BY Numbers DEF Ahead, SqlIds
  <1>3. i - 1 = 0 => Ahead(i - 1) = Early \cup {"username", "port"}
                     /\ Ahead(i) = Early /\ {"username", "port"} \subseteq Content(i)
    BY Numbers DEF Ahead, SqlIds, Content
  <1> QED
    BY <1>1, <1>2, <1>3 DEF At, Effect, Leads

LEMMA AtHead ==
    ASSUME NEW k \in Nat, NEW l \in Nat, k >= 13, l >= k, NEW S, At(S, k)
    PROVE  At(S, l)
  BY HeadStays, Numbers DEF At, Ahead

-----------------------------------------------------------------------------
(* The tracker and the schema. *)

Highest(T) == IF T = {} THEN 0 ELSE CHOOSE i \in T : \A j \in T : j <= i

LEMMA HighestIs ==
    ASSUME NEW T \in SUBSET Nat, NEW m \in T, \A j \in T : j <= m
    PROVE  Highest(T) = m
  <1>1. \E i \in T : \A j \in T : j <= i
    OBVIOUS
  <1>2. Highest(T) \in T /\ \A j \in T : j <= Highest(T)
    BY <1>1 DEF Highest
  <1>3. m <= Highest(T) /\ Highest(T) <= m
    BY <1>2
  <1>4. m \in Nat /\ Highest(T) \in Nat
    BY <1>2
  <1> HIDE DEF Highest
  <1> QED
    BY <1>3, <1>4

LEMMA LastIsHighest == Last = Highest(tracker)
  BY DEF Last, Highest

\* The tracker, if it has rows, has a last one.
LastInv ==
    /\ tracker \subseteq 1..(Latest + 1)
    /\ tracker # {} => \E k \in tracker : \A j \in tracker : j <= k

\* The version in the tracker is the version of the schema.
SchemaInv ==
    /\ hasTracker => At(schema, Last)
    /\ ~hasTracker => schema \in {{}, Legacy, Legacy \cup {"username", "port"}}

\* What a runner looked up: it found no tracker and nobody has made one since,
\* or all it can still create are the types.
MissingInv ==
    /\ missing \in [Runners -> SUBSET ({"tracker", "nodes", "tasks"} \cup Types)]
    /\ \A r \in Runners :
          /\ missing[r] # {} => pc[r] = "schema"
          /\ pc[r] = "schema" =>
                IF "tracker" \in missing[r]
                THEN hasTracker \/ missing[r] = {"tracker"}
                                     \cup (({"nodes", "tasks"} \cup Types) \ schema)
                ELSE hasTracker /\ missing[r] \subseteq Types

\* A runner's pending list starts no later than after the last row, and
\* whatever it has ahead of itself and somebody else has applied has its row.
RunnersInv ==
    /\ todo \in [Runners -> 1..(Latest + 2)]
    /\ \A r \in Runners : pc[r] \in {"apply", "record"} =>
          todo[r] <= Last + 1 /\ todo[r]..Last \subseteq tracker

\* Up to date is final for a runner that said so and for the daemon.
HeadInv ==
    /\ \A r \in Runners : pc[r] = "ok" => Last >= Latest
    /\ daemon = "up" => Last = Latest

OthersInv == orphans \in BOOLEAN /\ daemon \in {"down", "up"} /\ pyEffects \subseteq PyIds

UpgradeInv ==
    /\ TrackerInv /\ LastInv /\ SchemaInv /\ MissingInv
    /\ RunnersInv /\ HeadInv /\ OthersInv

LEMMA LastIs ==
    ASSUME LastInv
    PROVE  /\ Last \in 0..(Latest + 1)
           /\ tracker = {} => Last = 0
           /\ tracker # {} => Last \in tracker
           /\ \A j \in tracker : j <= Last
  <1>1. CASE tracker = {}
    BY <1>1, Numbers DEF Last
  <1>2. CASE tracker # {}
    <2>1. PICK k \in tracker : \A j \in tracker : j <= k
      BY <1>2 DEF LastInv
    <2>2. Last = k
      BY <2>1, HighestIs, LastIsHighest, Numbers DEF LastInv
    <2> QED
      BY <1>2, <2>1, <2>2, Numbers DEF LastInv
  <1> QED
    BY <1>1, <1>2

\* The primary key lets a runner add the row after the last and no other.
LEMMA NextInLine ==
    ASSUME LastInv, RunnersInv, NEW r \in Runners, pc[r] \in {"apply", "record"},
           todo[r] \notin tracker
    PROVE  todo[r] = Last + 1
  <1>1. Last \in Nat /\ todo[r] \in Nat
    BY LastIs, Numbers DEF RunnersInv
  <1>2. todo[r] <= Last => todo[r] \in todo[r]..Last
    BY <1>1
  <1> QED
    BY <1>1, <1>2 DEF RunnersInv

\* A row is added after the last: by a migration of either kind.
LEMMA AppendRow ==
    ASSUME UpgradeInv, tracker' = tracker \cup {Last + 1}, Last + 1 \in Ids
    PROVE  /\ Last' = Last + 1
           /\ tracker' \subseteq 1..(Latest + 1)
           /\ \E k \in tracker' : \A j \in tracker' : j <= k
  <1>1. /\ Last \in Nat /\ Last + 1 \in 1..(Latest + 1)
        /\ \A j \in tracker : j <= Last /\ j \in Nat
    BY LastIs, Numbers DEF UpgradeInv, LastInv
  <1>2. tracker' \in SUBSET Nat /\ Last + 1 \in tracker' /\ \A j \in tracker' : j <= Last + 1
    BY <1>1
  <1>3. Highest(tracker') = Last + 1
    BY <1>2, HighestIs
  <1>4. Last' = Highest(tracker')
    BY DEF Last, Highest
  <1> QED
    BY <1>1, <1>2, <1>3, <1>4 DEF UpgradeInv, LastInv

LEMMA InitUpgrade == Init => UpgradeInv
  <1> SUFFICES ASSUME Init PROVE UpgradeInv
    OBVIOUS
  <1>0. /\ pc = [r \in Runners |-> "idle"] /\ missing = [r \in Runners |-> {}]
        /\ todo = [r \in Runners |-> 1] /\ daemon = "down" /\ orphans \in BOOLEAN
    BY DEF Init
  <1>1. LastInv /\ SchemaInv /\ pyEffects \subseteq PyIds
    <2>1. CASE /\ schema \in {{}, Legacy, Legacy \cup {"username", "port"}}
               /\ hasTracker = FALSE /\ tracker = {} /\ pyEffects = {}
      BY <2>1 DEF LastInv, SchemaInv
    <2>2. ASSUME NEW i \in SqlIds, schema = Version[i], hasTracker = TRUE,
                 tracker = {i}, pyEffects = {}
          PROVE  LastInv /\ SchemaInv /\ pyEffects \subseteq PyIds
      <3>1. i \in 0..13 /\ i \in Nat /\ i \in 1..(Latest + 1)
        BY Numbers DEF SqlIds
      <3>2. Last = i
        BY <2>2, <3>1, HighestIs, LastIsHighest
      <3> QED
        BY <2>2, <3>1, <3>2, VersionIs DEF LastInv, SchemaInv, At
    <2>3. CASE /\ schema = Snapshot \cup {"future"} /\ pyEffects = PyIds
               /\ hasTracker = TRUE /\ tracker = {Latest, Latest + 1}
      <3>1. Last = Latest + 1
        BY <2>3, HighestIs, LastIsHighest, Numbers
      <3>2. Content(Latest + 1) = Snapshot /\ "future" \in Ahead(Latest + 1)
        BY HeadStays, Numbers DEF Ahead
      <3>3. LastInv
        BY <2>3, Numbers DEF LastInv
      <3> QED
        BY <2>3, <3>1, <3>2, <3>3 DEF SchemaInv, At
    <2> QED
      BY <2>1, <2>2, <2>3 DEF Init
  <1>2. MissingInv /\ OthersInv
    BY <1>0, <1>1 DEF MissingInv, OthersInv
  <1>3. RunnersInv /\ HeadInv
    BY <1>0, Numbers DEF RunnersInv, HeadInv
  <1> QED
    BY <1>1, <1>2, <1>3, InitTracker DEF UpgradeInv

\* Steps that leave the schema and the tracker alone.
LEMMA UpgradeFrame ==
    ASSUME UpgradeInv, UNCHANGED <<schema, hasTracker, tracker, orphans, daemon>>,
           NEW r \in Runners, NEW to \in States, Goes(r, to), to # "schema",
           missing' = [missing EXCEPT ![r] = {}] \/ (UNCHANGED missing /\ pc[r] # "schema"),
           UNCHANGED todo \/ todo' = [todo EXCEPT ![r] = Last + 1],
           to \in {"apply", "record"} =>
               pc[r] \in {"apply", "record"} \/ todo'[r] = Last + 1,
           to = "ok" => Last >= Latest,
           pyEffects' \subseteq PyIds, TrackerInv'
    PROVE  UpgradeInv'
  <1>1. Last' = Last /\ Last \in 0..(Latest + 1)
    BY LastIs DEF Last, UpgradeInv
  <1>2. LastInv' /\ SchemaInv' /\ OthersInv'
    BY <1>1 DEF LastInv, SchemaInv, OthersInv, UpgradeInv
  <1>3. MissingInv'
    <2>1. missing' \in [Runners -> SUBSET ({"tracker", "nodes", "tasks"} \cup Types)]
      BY DEF MissingInv, UpgradeInv
    <2>2. missing'[r] = {} /\ pc'[r] # "schema"
      BY DEF MissingInv, UpgradeInv, Goes, TrackerInv
    <2>3. \A q \in Runners : q # r => missing'[q] = missing[q] /\ pc'[q] = pc[q]
      BY DEF MissingInv, UpgradeInv, Goes, TrackerInv
    <2> QED
      BY <2>1, <2>2, <2>3 DEF MissingInv, UpgradeInv
  <1>4. RunnersInv'
    <2>1. todo' \in [Runners -> 1..(Latest + 2)]
      BY <1>1, Numbers DEF RunnersInv, UpgradeInv
    <2>2. ASSUME NEW q \in Runners, pc'[q] \in {"apply", "record"}
          PROVE  todo'[q] <= Last' + 1 /\ todo'[q]..Last' \subseteq tracker'
      <3>1. CASE pc[q] \in {"apply", "record"} /\ todo'[q] = todo[q]
        BY <1>1, <3>1 DEF RunnersInv, UpgradeInv
      <3>2. CASE todo'[q] = Last + 1
        BY <1>1, <3>2, Numbers
      <3> QED
        BY <2>2, <3>1, <3>2 DEF RunnersInv, UpgradeInv, Goes, TrackerInv
    <2> QED
      BY <2>1, <2>2 DEF RunnersInv
  <1>5. HeadInv'
    BY <1>1 DEF HeadInv, UpgradeInv, Goes, TrackerInv
  <1> QED
    BY <1>2, <1>3, <1>4, <1>5 DEF UpgradeInv

LEMMA SchemaLooksUpgrade ==
    ASSUME UpgradeInv, NEW r \in Runners, SchemaLooks(r), TrackerInv'
    PROVE  UpgradeInv'
  <1> USE DEF SchemaLooks
  <1>1. Last' = Last
    BY DEF Last
  <1>2. LastInv' /\ SchemaInv' /\ OthersInv'
    BY <1>1 DEF LastInv, SchemaInv, OthersInv, UpgradeInv
  <1>3. MissingInv'
    <2>1. missing' \in [Runners -> SUBSET ({"tracker", "nodes", "tasks"} \cup Types)]
      BY DEF MissingInv, UpgradeInv
    <2>2. pc'[r] = "schema"
          /\ missing'[r] = (IF hasTracker THEN {} ELSE {"tracker"})
                           \cup (({"nodes", "tasks"} \cup Types) \ schema)
      BY DEF MissingInv, UpgradeInv, Goes, TrackerInv
    <2>3. hasTracker => {"nodes", "tasks"} \subseteq schema
      BY DEF UpgradeInv, SchemaInv, At, Content
    <2>4. \A q \in Runners : q # r => missing'[q] = missing[q] /\ pc'[q] = pc[q]
      BY DEF MissingInv, UpgradeInv, Goes, TrackerInv
    <2>5. "tracker" \notin Types
      BY DEF Types
    <2>6. IF "tracker" \in missing'[r]
          THEN missing'[r] = {"tracker"} \cup (({"nodes", "tasks"} \cup Types) \ schema)
          ELSE hasTracker /\ missing'[r] \subseteq Types
      BY <2>2, <2>3, <2>5
    <2> QED
      BY <2>1, <2>2, <2>4, <2>6 DEF MissingInv, UpgradeInv
  <1>4. RunnersInv' /\ HeadInv'
    BY <1>1 DEF RunnersInv, HeadInv, UpgradeInv, Goes, TrackerInv
  <1> QED
    BY <1>2, <1>3, <1>4 DEF UpgradeInv

\* apply_schema() on a database with a tracker: types and the function at most.
\* Two runners on a database without one: the second fails at the table.
LEMMA SchemaCommitsUpgrade ==
    ASSUME UpgradeInv, NEW r \in Runners, SchemaCommits(r), ~Fails(r), TrackerInv'
    PROVE  UpgradeInv'
  <1> DEFINE created == (missing[r] \cap Types)
                        \cup (IF "nodes" \in missing[r] THEN NodesTable ELSE {})
                        \cup (IF "tasks" \in missing[r] THEN TasksTable ELSE {})
                        \cup {"touch_function"}
             now == schema \cup created
             triggers == (IF "tasks_timestamps" \in now THEN {"tasks_trigger"} ELSE {})
                         \cup (IF "nodes_timestamps" \in now THEN {"nodes_trigger"} ELSE {})
  <1>1. /\ pc[r] = "schema"
        /\ missing[r] \cap (schema \cup IF hasTracker THEN {"tracker"} ELSE {}) = {}
        /\ schema' = now \cup triggers
        /\ pyEffects' = IF "nodes" \in missing[r] THEN PyIds ELSE pyEffects
        /\ hasTracker' = TRUE
        /\ tracker' = IF Seeds(r) THEN {Latest} ELSE tracker
        /\ missing' = [missing EXCEPT ![r] = {}]
        /\ Goes(r, "last")
        /\ UNCHANGED <<todo, commits, orphans, daemon>>
    BY DEF SchemaCommits
  <1>2. CASE hasTracker
    <2>1. "tracker" \notin missing[r] /\ missing[r] \subseteq Types
      BY <1>1, <1>2 DEF UpgradeInv, MissingInv
    <2>2. tracker' = tracker /\ Last' = Last /\ pyEffects' = pyEffects
      <3>1. "nodes" \notin missing[r] /\ ~Seeds(r)
        BY <2>1 DEF Seeds, Types
      <3>2. tracker' = tracker /\ pyEffects' = pyEffects
        BY <1>1, <3>1
      <3> QED
        BY <3>2 DEF Last
    <2>3. created \subseteq Early
      BY <2>1 DEF Types, Early
    <2>4. Last \in Nat
      BY LastIs, Numbers DEF UpgradeInv
    <2>5. At(schema, Last)
      BY <1>2 DEF UpgradeInv, SchemaInv
    <2>6. triggers \subseteq Content(Last)
      <3>1. "tasks_timestamps" \in now => "tasks_timestamps" \in Content(Last)
        BY <2>3, <2>5, Numbers DEF At, Ahead, Early, Types
      <3>2. "nodes_timestamps" \in now => "nodes_timestamps" \in Content(Last)
        BY <2>3, <2>5, Numbers DEF At, Ahead, Early, Types
      <3> QED
        BY <2>4, <3>1, <3>2 DEF Content
    <2>7. At(schema', Last')
      BY <1>1, <2>2, <2>3, <2>5, <2>6 DEF At, Ahead
    <2>8. LastInv' /\ SchemaInv' /\ OthersInv'
      BY <1>1, <2>2, <2>7 DEF LastInv, SchemaInv, OthersInv, UpgradeInv
    <2>9. RunnersInv' /\ HeadInv'
      BY <1>1, <2>2 DEF RunnersInv, HeadInv, UpgradeInv, Goes, TrackerInv
    <2>10. MissingInv'
      BY <1>1, <1>2 DEF MissingInv, UpgradeInv, Goes, TrackerInv
    <2> QED
      BY <2>8, <2>9, <2>10 DEF UpgradeInv
  <1>3. CASE ~hasTracker
    <2>1. /\ tracker = {} /\ Last = 0 /\ Last \in Nat
          /\ \A q \in Runners : pc[q] \notin {"last", "apply", "record", "ok"}
          /\ daemon # "up"
      BY <1>3, LastIs, Numbers DEF UpgradeInv, TrackerInv, HeadInv
    <2>2. missing[r] = {"tracker"} \cup (({"nodes", "tasks"} \cup Types) \ schema)
      BY <1>1, <1>3 DEF UpgradeInv, MissingInv
    <2>3. /\ tracker' \subseteq 1..(Latest + 1)
          /\ Last' \in Nat /\ tracker' # {} => \E k \in tracker' : \A j \in tracker' : j <= k
          /\ At(schema', Last')
      <3>1. CASE schema = {}
        <4>1. tracker' = {Latest}
          BY <1>1, <2>2, <3>1 DEF Seeds
        <4>2. Last' = Latest
          <5>1. Highest(tracker') = Latest
            BY <4>1, HighestIs, Numbers
          <5> QED
            BY <5>1 DEF Last, Highest
        <4>3. created = Snapshot
          BY <2>2, <3>1 DEF Snapshot, Types
        <4>4. schema' = Snapshot
          BY <1>1, <3>1, <4>3 DEF Snapshot, NodesTable, TasksTable
        <4> QED
          BY <4>1, <4>2, <4>4, HeadStays, Numbers DEF At
      <3>2. CASE schema \in {Legacy, Legacy \cup {"username", "port"}}
        <4>1. missing[r] = {"tracker"} \cup Types
          BY <2>2, <3>2 DEF Legacy, Types
        <4>2. tracker' = {} /\ Last' = 0
          BY <1>1, <2>1, <4>1 DEF Seeds, Types, Last
        <4>3. created = Early
          BY <4>1 DEF Early, Types
        <4>4. schema' = schema \cup Early
          BY <1>1, <3>2, <4>3 DEF Legacy, Early, Types
        <4> QED
          BY <3>2, <4>2, <4>4, LegacyContent, Numbers DEF At, Ahead
      <3> QED
        BY <1>3, <3>1, <3>2 DEF UpgradeInv, SchemaInv
    <2>4. LastInv' /\ SchemaInv' /\ OthersInv'
      BY <1>1, <2>3 DEF LastInv, SchemaInv, OthersInv, UpgradeInv
    <2>5. RunnersInv' /\ HeadInv'
      BY <1>1, <2>1 DEF RunnersInv, HeadInv, UpgradeInv, Goes, TrackerInv, States
    <2>6. MissingInv'
      BY <1>1 DEF MissingInv, UpgradeInv, Goes, TrackerInv
    <2> QED
      BY <2>4, <2>5, <2>6 DEF UpgradeInv
  <1> QED
    BY <1>2, <1>3

\* The row that is added is the next one, and the schema is then at its version:
\* no other runner's list is overtaken, and no daemon runs.
LEMMA RecordsUpgrade ==
    ASSUME UpgradeInv, NEW r \in Runners, pc[r] \in {"apply", "record"},
           todo[r] \in Ids, todo[r] \notin tracker,
           Records(r, todo[r]), Goes(r, "apply") \/ (UNCHANGED pc /\ pc[r] = "apply"),
           UNCHANGED <<hasTracker, missing, orphans, daemon>>, pyEffects' \subseteq PyIds,
           \/ todo[r] \in SqlIds /\ schema' = Effect(todo[r], schema)
           \/ todo[r] \in PyIds /\ UNCHANGED schema,
           TrackerInv'
    PROVE  UpgradeInv'
  <1>1. todo[r] = Last + 1
    BY NextInLine DEF UpgradeInv
  <1>2. /\ tracker' = tracker \cup {Last + 1} /\ Last + 1 \in Ids
        /\ todo' = [todo EXCEPT ![r] = Last + 2]
    <2>1. todo[r] + 1 = Last + 2
      BY <1>1, LastIs, Numbers DEF UpgradeInv
    <2> QED
      BY <1>1, <2>1 DEF Records
  <1>3. /\ Last \in 0..(Latest + 1) /\ Last + 1 \in 1..Latest
        /\ Last' = Last + 1
        /\ tracker' \subseteq 1..(Latest + 1)
        /\ \E k \in tracker' : \A j \in tracker' : j <= k
    BY <1>2, AppendRow, LastIs, Numbers DEF UpgradeInv
  <1>4. LastInv' /\ OthersInv'
    BY <1>3 DEF LastInv, OthersInv, UpgradeInv
  <1>5. hasTracker /\ At(schema, Last)
    BY DEF UpgradeInv, TrackerInv, SchemaInv
  <1>6. At(schema', Last')
    <2>1. CASE todo[r] \in SqlIds /\ schema' = Effect(todo[r], schema)
      <3>1. Last = todo[r] - 1
        BY <1>1, <1>3
      <3>2. At(schema, todo[r] - 1)
        BY <1>5, <3>1
      <3> QED
        BY <1>1, <1>3, <2>1, <3>2, AtNext
    <2>2. CASE todo[r] \in PyIds /\ UNCHANGED schema
      <3>1. Last >= 13 /\ Last \in Nat /\ Last + 1 \in Nat /\ Last + 1 >= Last
        BY <1>1, <1>3, <2>2, Numbers
      <3> QED
        BY <1>3, <1>5, <2>2, <3>1, AtHead
    <2> QED
      BY <2>1, <2>2
  <1>7. SchemaInv' /\ MissingInv'
    BY <1>5, <1>6 DEF SchemaInv, MissingInv, UpgradeInv, Goes, TrackerInv
  <1>8. RunnersInv'
    <2>1. todo' \in [Runners -> 1..(Latest + 2)]
      BY <1>2, <1>3, Numbers DEF RunnersInv, UpgradeInv
    <2>2. ASSUME NEW q \in Runners, pc'[q] \in {"apply", "record"}
          PROVE  todo'[q] <= Last' + 1 /\ todo'[q]..Last' \subseteq tracker'
      <3>1. CASE q = r
        <4>1. todo'[q] = Last + 2 /\ (Last + 2)..(Last + 1) = {}
          BY <1>2, <1>3, <3>1 DEF RunnersInv, UpgradeInv
        <4> QED
          BY <1>3, <4>1
      <3>2. CASE q # r
        <4>1. /\ todo'[q] = todo[q] /\ pc[q] \in {"apply", "record"}
              /\ todo[q] \in Nat /\ todo[q] <= Last + 1 /\ todo[q]..Last \subseteq tracker
          BY <1>2, <2>2, <3>2, Numbers DEF RunnersInv, UpgradeInv, Goes, TrackerInv
        <4>2. todo[q]..(Last + 1) \subseteq todo[q]..Last \cup {Last + 1}
          BY <1>3, <4>1
        <4> QED
          BY <1>2, <1>3, <4>1, <4>2
      <3> QED
        BY <3>1, <3>2
    <2> QED
      BY <2>1, <2>2 DEF RunnersInv
  <1>9. HeadInv'
    BY <1>3, Numbers DEF HeadInv, UpgradeInv, Goes, TrackerInv
  <1> QED
    BY <1>4, <1>7, <1>8, <1>9 DEF UpgradeInv

LEMMA FailsUpgrade ==
    ASSUME UpgradeInv, NEW r \in Runners, Fails(r), UNCHANGED <<orphans, daemon>>,
           TrackerInv'
    PROVE  UpgradeInv'
  BY UpgradeFrame DEF Fails, States, UpgradeInv, OthersInv

LEMMA RunnerUpgrade ==
    ASSUME UpgradeInv, NEW r \in Runners, RunnerStep(r), TrackerInv'
    PROVE  UpgradeInv'
  <1>0. pyEffects \subseteq PyIds /\ SqlIds \subseteq Ids /\ PyIds \subseteq Ids
    BY Numbers DEF UpgradeInv, OthersInv, SqlIds
  <1>1. CASE SchemaLooks(r)
    BY <1>1, SchemaLooksUpgrade
  <1>2. CASE SchemaCommits(r)
    <2>1. UNCHANGED <<orphans, daemon>>
      BY <1>2 DEF SchemaCommits
    <2> QED
      BY <1>2, <2>1, FailsUpgrade, SchemaCommitsUpgrade
  <1>3. CASE ReadLast(r)
    <2>1. todo'[r] = Last + 1
      BY <1>3 DEF ReadLast, UpgradeInv, RunnersInv
    <2> QED
      BY <1>0, <1>3, <2>1, UpgradeFrame DEF ReadLast, States
  <1>4. CASE ApplySql(r)
    <2>1. CASE Fails(r)
      BY <1>4, <2>1, FailsUpgrade DEF ApplySql
    <2>2. CASE ~Fails(r)
      BY <1>0, <1>4, <2>2, RecordsUpgrade DEF ApplySql, Inserts
    <2> QED
      BY <2>1, <2>2
  <1>5. CASE PyMigrate(r)
    <2>1. CASE Fails(r)
      BY <1>5, <2>1, FailsUpgrade DEF PyMigrate
    <2>2. CASE ~Fails(r)
      BY <1>0, <1>5, <2>2, UpgradeFrame DEF PyMigrate, States
    <2> QED
      BY <2>1, <2>2
  <1>6. CASE PyRecord(r)
    <2>1. CASE Fails(r)
      BY <1>6, <2>1, FailsUpgrade DEF PyRecord
    <2>2. CASE ~Fails(r)
      <3>1. todo[r] \in PyIds
        BY <1>6 DEF PyRecord, UpgradeInv, TrackerInv
      <3> QED
        BY <1>0, <1>6, <2>2, <3>1, RecordsUpgrade DEF PyRecord, Inserts
    <2> QED
      BY <2>1, <2>2
  <1>7. CASE PyRecordRetry(r)
    <2>1. CASE Fails(r)
      BY <1>7, <2>1, FailsUpgrade DEF PyRecordRetry
    <2>2. CASE ~Fails(r)
      <3>1. todo[r] \in PyIds
        BY <1>7 DEF PyRecordRetry, UpgradeInv, TrackerInv
      <3> QED
        BY <1>0, <1>7, <2>2, <3>1, RecordsUpgrade DEF PyRecordRetry, Inserts
    <2> QED
      BY <2>1, <2>2
  <1>8. CASE Done(r)
    <2>1. Last >= Latest
      BY <1>8, LastIs, Numbers DEF Done, UpgradeInv, RunnersInv
    <2> QED
      BY <1>0, <1>8, <2>1, UpgradeFrame DEF Done, States
  <1>9. CASE Interrupt(r)
    BY <1>9, FailsUpgrade DEF Interrupt
  <1>10. CASE RunAgain(r)
    BY <1>0, <1>10, UpgradeFrame DEF RunAgain, States
  <1> QED
    BY <1>1, <1>2, <1>3, <1>4, <1>5, <1>6, <1>7, <1>8, <1>9, <1>10 DEF RunnerStep

\* What the preflight means by a current schema.
LEMMA Current == ASSUME UpgradeInv, Status = "current" PROVE Last = Latest
  <1>1. hasTracker \in BOOLEAN /\ Last \in Nat /\ Latest \in Nat
    BY LastIs, Numbers DEF UpgradeInv, TrackerInv
  <1>2. ~hasTracker => tracker = {}
    BY DEF UpgradeInv, TrackerInv
  <1>3. CASE tracker = {}
    <2>1. Status \in {"missing", "empty"}
      BY <1>1, <1>3 DEF Status
    <2> QED
      BY <2>1
  <1>4. CASE tracker # {} /\ Last # Latest
    <2>1. hasTracker /\ (Last < Latest \/ Last > Latest)
      BY <1>1, <1>2, <1>4
    <2>2. Status \in {"behind", "ahead"}
      BY <1>4, <2>1 DEF Status
    <2> QED
      BY <2>2
  <1> QED
    BY <1>3, <1>4

LEMMA StepUpgrade == UpgradeInv /\ [Next]_vars => UpgradeInv'
  <1> SUFFICES ASSUME UpgradeInv, [Next]_vars PROVE UpgradeInv'
    OBVIOUS
  <1>0. TrackerInv'
    BY StepTracker DEF UpgradeInv
  <1>1. CASE \E r \in Runners : RunnerStep(r)
    BY <1>0, <1>1, RunnerUpgrade
  <1>2. CASE StartDaemon \/ StopDaemon \/ UNCHANGED vars
    <2>0. UNCHANGED <<database, orphans, runner, commits>>
      BY <1>2 DEF StartDaemon, StopDaemon
    <2>1. UNCHANGED <<database, orphans, runner, commits>> /\ Last' = Last
      <3>1. Last' = Last
        BY <2>0 DEF Last
      <3> QED
        BY <2>0, <3>1
    <2>2. LastInv' /\ SchemaInv' /\ MissingInv' /\ RunnersInv'
      BY <2>1 DEF LastInv, SchemaInv, MissingInv, RunnersInv, UpgradeInv
    <2>3. daemon' \in {"down", "up"} /\ (daemon' = "up" => Last = Latest)
      BY <1>2, Current DEF StartDaemon, StopDaemon, UpgradeInv, OthersInv, HeadInv
    <2> QED
      BY <1>0, <2>1, <2>2, <2>3 DEF UpgradeInv, OthersInv, HeadInv
  <1> QED
    BY <1>1, <1>2 DEF Next

\* The features, the rows and the runners stay what the code can make of them,
\* for any package of .py migrations.
THEOREM MigrationsTypeOK == Spec => []TypeOK
  <1>1. UpgradeInv => TypeOK
    <2> SUFFICES ASSUME UpgradeInv PROVE TypeOK
      OBVIOUS
    <2>1. schema \subseteq Features
      <3>1. CASE hasTracker
        <4>1. Last \in Nat
          BY LastIs, Numbers DEF UpgradeInv
        <4> QED
          BY <3>1, <4>1, FeaturesCover DEF UpgradeInv, SchemaInv, At
      <3>2. CASE ~hasTracker
        BY <3>2 DEF UpgradeInv, SchemaInv, Features, Snapshot, NodesTable, Legacy
      <3> QED
        BY <3>1, <3>2
    <2>2. tracker \subseteq Ids \cup {Latest + 1}
      BY Numbers DEF UpgradeInv, LastInv
    <2>3. todo \in [Runners -> Ids \cup {Latest + 1, Latest + 2}]
      BY Numbers DEF UpgradeInv, RunnersInv
    <2> QED
      BY <2>1, <2>2, <2>3
      DEF UpgradeInv, TrackerInv, MissingInv, OthersInv, TypeOK, States
  <1> QED
    BY InitUpgrade, StepUpgrade, <1>1, PTL DEF Spec

\* Whatever an interrupted yainit, or one that ran beside another, has left, the
\* next migration finds what it needs and not what it would create twice: the
\* statements of 001 to 013 and what schema.sql creates early fit together.
THEOREM UpgradeNeverBlocked == Spec => []CanUpgrade
  <1>1. UpgradeInv => CanUpgrade
    <2> SUFFICES ASSUME UpgradeInv, hasTracker, Last \in {0} \cup (SqlIds \ {13}), ~orphans
                 PROVE  Applicable(Last + 1)
      BY DEF CanUpgrade
    <2>1. Last + 1 \in SqlIds /\ (Last + 1) - 1 = Last
      BY DEF SqlIds
    <2>2. /\ SqlMigrations[Last + 1].needs \subseteq Content(Last)
          /\ SqlMigrations[Last + 1].fresh \cap (Content(Last) \cup Ahead(Last)) = {}
      BY <2>1, MigrationsLead DEF Leads
    <2>3. At(schema, Last)
      BY DEF UpgradeInv, SchemaInv
    <2> QED
      BY <2>2, <2>3 DEF Applicable, At, Types, GuardedTypes
  <1> QED
    BY InitUpgrade, StepUpgrade, <1>1, PTL DEF Spec

-----------------------------------------------------------------------------
(* The effects of the .py migrations: where the tracker is, they are.  After *)
(* a COMMIT that failed, the retry records a migration whose effect is gone, *)
(* so that this needs a database whose COMMITs do not fail.                  *)

PyInv ==
    /\ \A i \in PyIds : i <= Last => i \in pyEffects
    /\ \A r \in Runners :
          pc[r] = "record" /\ Autocommits(todo[r]) => todo[r] \in pyEffects

LEMMA InitPy == Init => PyInv
  <1> SUFFICES ASSUME Init PROVE PyInv
    OBVIOUS
  <1>1. \A r \in Runners : pc[r] # "record"
    BY DEF Init
  <1>2. pyEffects = PyIds \/ \A i \in PyIds : ~(i <= Last)
    <2>1. CASE tracker = {}
      BY <2>1, Numbers DEF Last
    <2>2. ASSUME NEW i \in SqlIds, tracker = {i} PROVE \A j \in PyIds : ~(j <= Last)
      <3>1. Last = i
        BY <2>2, HighestIs, LastIsHighest DEF SqlIds
      <3> QED
        BY <3>1, Numbers DEF SqlIds
    <2> QED
      BY <2>1, <2>2 DEF Init
  <1> QED
    BY <1>1, <1>2 DEF PyInv

\* The steps that add no row and start no record.
LEMMA PyFrame ==
    ASSUME UpgradeInv, PyInv, UNCHANGED tracker, pyEffects \subseteq pyEffects',
           \A q \in Runners : pc'[q] = "record" => pc[q] = "record" /\ todo'[q] = todo[q]
    PROVE  PyInv'
  <1>1. Last' = Last
    BY DEF Last
  <1>2. \A i \in PyIds : i <= Last' => i \in pyEffects'
    BY <1>1 DEF PyInv
  <1>3. \A q \in Runners : pc'[q] = "record" /\ Autocommits(todo'[q]) => todo'[q] \in pyEffects'
    BY DEF PyInv
  <1> QED
    BY <1>2, <1>3 DEF PyInv

LEMMA PyRecords ==
    ASSUME UpgradeInv, PyInv, NEW r \in Runners, NEW i \in Ids, i = Last + 1,
           tracker' = tracker \cup {i},
           pyEffects \subseteq pyEffects', i \in PyIds => i \in pyEffects',
           \A q \in Runners : pc'[q] = "record" => pc[q] = "record" /\ todo'[q] = todo[q]
    PROVE  PyInv'
  <1>1. Last' = Last + 1 /\ Last \in Nat
    BY AppendRow, LastIs, Numbers DEF UpgradeInv
  <1>2. \A j \in PyIds : j <= Last' => j <= Last \/ j = i
    BY <1>1, Numbers
  <1>3. \A j \in PyIds : j <= Last' => j \in pyEffects'
    BY <1>2 DEF PyInv
  <1>4. \A q \in Runners : pc'[q] = "record" /\ Autocommits(todo'[q]) => todo'[q] \in pyEffects'
    BY DEF PyInv
  <1> QED
    BY <1>3, <1>4 DEF PyInv

LEMMA StepPy ==
    ASSUME "commit" \notin RecordFailures, UpgradeInv, PyInv, [Next]_vars, UpgradeInv'
    PROVE  PyInv'
  <1>0. /\ pc \in [Runners -> States] /\ todo \in [Runners -> 1..(Latest + 2)]
        /\ pyEffects \subseteq PyIds
    BY DEF UpgradeInv, TrackerInv, RunnersInv, OthersInv
  <1>1. ASSUME NEW r \in Runners, RunnerStep(r) PROVE PyInv'
    <2>0. SqlIds \subseteq Ids /\ PyIds \subseteq Ids /\ SqlIds \cap PyIds = {}
      BY Numbers DEF SqlIds
    <2>1. CASE Fails(r)
      BY <1>0, <2>1, PyFrame DEF Fails, Goes
    <2>2. CASE SchemaLooks(r) \/ ReadLast(r) \/ Done(r) \/ RunAgain(r)
      BY <1>0, <2>2, PyFrame DEF SchemaLooks, ReadLast, Done, RunAgain, Goes
    <2>3. CASE SchemaCommits(r) /\ ~Fails(r)
      <3>1. /\ pyEffects' = IF "nodes" \in missing[r] THEN PyIds ELSE pyEffects
            /\ tracker' = IF Seeds(r) THEN {Latest} ELSE tracker
            /\ Goes(r, "last") /\ UNCHANGED todo
        BY <2>3 DEF SchemaCommits
      <3>2. \A q \in Runners : pc'[q] = "record" => pc[q] = "record" /\ todo'[q] = todo[q]
        BY <1>0, <3>1 DEF Goes
      <3>3. pyEffects \subseteq pyEffects'
        BY <1>0, <3>1
      <3>4. CASE Seeds(r)
        <4>1. pyEffects' = PyIds
          BY <3>1, <3>4 DEF Seeds
        <4>2. \A q \in Runners : pc[q] = "record" => todo[q] \in PyIds
          BY DEF UpgradeInv, TrackerInv
        <4> QED
          BY <3>2, <4>1, <4>2 DEF PyInv
      <3>5. CASE ~Seeds(r)
        BY <3>1, <3>2, <3>3, <3>5, PyFrame
      <3> QED
        BY <3>4, <3>5
    <2>4. CASE ApplySql(r) /\ ~Fails(r)
      <3>1. /\ pc[r] = "apply" /\ todo[r] \in SqlIds /\ todo[r] \notin tracker
            /\ Records(r, todo[r]) /\ UNCHANGED <<pc, pyEffects>>
        BY <2>4 DEF ApplySql, Inserts
      <3>2. todo[r] = Last + 1
        BY <3>1, NextInLine DEF UpgradeInv
      <3> QED
        BY <1>0, <2>0, <3>1, <3>2, PyRecords DEF Records
    <2>5. CASE PyMigrate(r) /\ ~Fails(r)
      <3>1. /\ pc[r] = "apply" /\ Goes(r, "record") /\ UNCHANGED <<tracker, todo>>
            /\ pyEffects' = IF Autocommits(todo[r]) THEN pyEffects \cup {todo[r]}
                            ELSE pyEffects
        BY <2>5 DEF PyMigrate
      <3>2. Last' = Last
        BY <3>1 DEF Last
      <3>3. \A i \in PyIds : i <= Last' => i \in pyEffects'
        BY <3>1, <3>2 DEF PyInv
      <3>4. \A q \in Runners :
               pc'[q] = "record" /\ Autocommits(todo'[q]) => todo'[q] \in pyEffects'
        BY <1>0, <3>1 DEF PyInv, Goes
      <3> QED
        BY <3>3, <3>4 DEF PyInv
    <2>6. CASE PyRecord(r) /\ ~Fails(r)
      <3>1. /\ pc[r] = "record" /\ todo[r] \notin tracker
            /\ Records(r, todo[r]) /\ Goes(r, "apply")
            /\ pyEffects' = pyEffects \cup {todo[r]}
        BY <2>6 DEF PyRecord, Inserts
      <3>2. todo[r] = Last + 1 /\ todo[r] \in Ids
        BY <2>0, <3>1, NextInLine DEF UpgradeInv, TrackerInv
      <3> QED
        BY <1>0, <3>1, <3>2, PyRecords DEF Records, Goes
    <2>7. CASE PyRecordRetry(r) /\ ~Fails(r)
      <3>1. /\ pc[r] = "record" /\ todo[r] \notin tracker /\ Autocommits(todo[r])
            /\ Records(r, todo[r]) /\ Goes(r, "apply") /\ UNCHANGED pyEffects
        BY <2>7 DEF PyRecordRetry, Inserts
      <3>2. todo[r] = Last + 1 /\ todo[r] \in Ids /\ todo[r] \in pyEffects
        BY <2>0, <3>1, NextInLine DEF UpgradeInv, TrackerInv, PyInv
      <3> QED
        BY <1>0, <3>1, <3>2, PyRecords DEF Records, Goes
    <2> QED
      BY <1>1, <2>1, <2>2, <2>3, <2>4, <2>5, <2>6, <2>7 DEF RunnerStep, Interrupt
  <1>2. CASE StartDaemon \/ StopDaemon \/ UNCHANGED vars
    BY <1>2, PyFrame DEF StartDaemon, StopDaemon
  <1> QED
    BY <1>1, <1>2 DEF Next

\* A yainit that exits 0 leaves a database that is up to date, or newer, whatever
\* cohort it came from and whoever else migrates it.
THEOREM SuccessMeansHead ==
    ASSUME "commit" \notin RecordFailures
    PROVE  Spec => []SuccessIsHead
  <1>1. UpgradeInv /\ PyInv => SuccessIsHead
    <2> SUFFICES ASSUME UpgradeInv, PyInv, NEW r \in Runners, pc[r] = "ok"
                 PROVE  Snapshot \subseteq schema /\ pyEffects = PyIds
      BY DEF SuccessIsHead
    <2>1. Last >= Latest /\ Last \in Nat /\ Last >= 13
      BY LastIs, Numbers DEF UpgradeInv, HeadInv
    <2>2. hasTracker
      BY <2>1, LastIs, Numbers DEF UpgradeInv, TrackerInv
    <2>3. Snapshot \subseteq schema
      BY <2>1, <2>2, HeadStays DEF UpgradeInv, SchemaInv, At
    <2>4. pyEffects = PyIds
      <3>1. \A i \in PyIds : i <= Last
        BY <2>1, Numbers
      <3> QED
        BY <3>1 DEF PyInv, UpgradeInv, OthersInv
    <2> QED
      BY <2>3, <2>4
  <1>2. UpgradeInv /\ PyInv /\ [Next]_vars => (UpgradeInv /\ PyInv)'
    BY StepUpgrade, StepPy
  <1> QED
    BY InitUpgrade, InitPy, <1>1, <1>2, PTL DEF Spec

\* The preflight, which reads the tracker alone, is sound: while the daemon runs
\* the database has the schema of schema.sql and every .py migration's effect.
THEOREM PreflightSound ==
    ASSUME "commit" \notin RecordFailures
    PROVE  Spec => []DaemonOnSnapshot
  <1>1. UpgradeInv /\ PyInv => DaemonOnSnapshot
    <2> SUFFICES ASSUME UpgradeInv, PyInv, daemon = "up"
                 PROVE  schema = Snapshot /\ pyEffects = PyIds
      BY DEF DaemonOnSnapshot
    <2>1. Last = Latest /\ Last \in Nat /\ Last >= 13
      BY LastIs, Numbers DEF UpgradeInv, HeadInv
    <2>2. hasTracker
      BY <2>1, LastIs, Numbers DEF UpgradeInv, TrackerInv
    <2>3. Content(Last) = Snapshot /\ Ahead(Last) \subseteq Snapshot
      BY <2>1, HeadStays, Numbers DEF Ahead, Early, Snapshot
    <2>4. schema = Snapshot
      BY <2>2, <2>3 DEF UpgradeInv, SchemaInv, At
    <2>5. pyEffects = PyIds
      <3>1. \A i \in PyIds : i <= Last
        BY <2>1, Numbers
      <3> QED
        BY <3>1 DEF PyInv, UpgradeInv, OthersInv
    <2> QED
      BY <2>4, <2>5
  <1>2. UpgradeInv /\ PyInv /\ [Next]_vars => (UpgradeInv /\ PyInv)'
    BY StepUpgrade, StepPy
  <1> QED
    BY InitUpgrade, InitPy, <1>1, <1>2, PTL DEF Spec

=============================================================================
