----------------------------- MODULE SchemaSetup -----------------------------
(***************************************************************************)
(* migrate() and seed() of core/schema, two scripts an operator runs, and  *)
(* runs again when one was cut short, against a database in use.           *)
(*                                                                         *)
(* conn.execute sends a whole SQL text without arguments, which PostgreSQL *)
(* (external) executes in one transaction: a text takes effect whole or    *)
(* not at all.  "SET search_path" accepts a schema that does not exist;    *)
(* the CREATE TABLE or INSERT after it then fails.                         *)
(***************************************************************************)
EXTENDS Integers, Sequences, FiniteSets

CONSTANTS
    SeededPlans, \* plan ids of the hitl_queue rows in BOARD_SEED_SQL
    MaxCuts      \* bound: runs cut short by a crash or a lost connection

ASSUME SetupNumbersAssumption == MaxCuts \in Nat

(* The dictionary of migrate(), and schema_order with the two texts after. *)
MigrateOrder == <<"brain", "agents", "plan", "mcp", "process", "admin", "board">>
SeedOrder == <<"plan", "agents", "mcp", "brain", "experience", "board">>

Schemas == {"brain", "agents", "plan", "mcp", "board"}
Texts == {"plan", "agents", "mcp", "brain", "experience", "board"}

VARIABLES
    schemas,   \* schemas that exist
    tables,    \* schemas whose tables exist
    rows,      \* seed texts whose keyed rows are in the database
    pending,   \* the seeded plans in axon_board.hitl_queue
    migrating, \* the next text of the migration that runs, 0 when none does
    seeding,   \* the same of the seeding
    migrated,  \* history: a migration has ended without an exception
    whole,     \* history: the seeding in progress or last ended met no outage
    answered,  \* history: plans decided since they were last seeded
    cuts

database == <<schemas, tables, rows, pending>>
setup_vars == <<schemas, tables, rows, pending, migrating, seeding, migrated,
                whole, answered, cuts>>

SetupTypeOK ==
    /\ schemas \subseteq Schemas /\ tables \subseteq schemas
    /\ rows \subseteq Texts
    /\ pending \subseteq SeededPlans /\ answered \subseteq SeededPlans
    /\ migrating \in 0..Len(MigrateOrder) /\ seeding \in 0..Len(SeedOrder)
    /\ migrated \in BOOLEAN /\ whole \in BOOLEAN
    /\ cuts \in 0..MaxCuts

-----------------------------------------------------------------------------
(* migrate() *)

StartMigration ==
    /\ migrating = 0
    /\ migrating' = 1
    /\ UNCHANGED <<database, seeding, migrated, whole, answered, cuts>>

(* BOARD_SQL alone creates its schema; two texts are only "SELECT 1". *)
CreatesSchema(s) == s = "board"
Reserved(s) == s \in {"process", "admin"}
Migrates(s) == Reserved(s) \/ CreatesSchema(s) \/ s \in schemas

MigrateText ==
    /\ migrating > 0
    /\ LET s == MigrateOrder[migrating]
           last == migrating = Len(MigrateOrder)
       IN  IF Migrates(s)
           THEN /\ schemas' = schemas \cup (IF CreatesSchema(s) THEN {s} ELSE {})
                /\ tables' = tables \cup ({s} \ {"process", "admin"})
                /\ migrating' = IF last THEN 0 ELSE migrating + 1
                /\ migrated' = (migrated \/ last)
           ELSE /\ migrating' = 0 \* the exception ends the program
                /\ UNCHANGED <<schemas, tables, migrated>>
    /\ UNCHANGED <<rows, pending, seeding, whole, answered, cuts>>

-----------------------------------------------------------------------------
(* seed() *)

StartSeeding ==
    /\ seeding = 0
    /\ seeding' = 1
    /\ whole' = migrated
    /\ UNCHANGED <<database, migrating, migrated, answered, cuts>>

Home(text) == IF text = "experience" THEN "brain" ELSE text

(* proposal_allocations is inserted without ON CONFLICT: a second time its *)
(* primary key refuses the rows, and with them the whole text.             *)
Repeatable(text) == text # "agents"

Succeeds(text) == Home(text) \in tables /\ (Repeatable(text) \/ text \notin rows)

(* Keyed rows that are there stay as they are; decided plans are not there *)
(* and return.  The audit, KPI and event rows, which have no key, are      *)
(* added again every time, and left out.                                   *)
SeedRows(text) ==
    IF Succeeds(text)
    THEN /\ rows' = rows \cup {text}
         /\ pending' = IF text = "board" THEN SeededPlans ELSE pending
         /\ answered' = IF text = "board" THEN {} ELSE answered
    ELSE UNCHANGED <<rows, pending, answered>>

StopAtFailure(text) ==
    IF Succeeds(text) /\ seeding < Len(SeedOrder) THEN seeding + 1 ELSE 0 \* mutant

(* Every text has its own try: a failure is printed and the next follows. *)
NextText(text) == IF seeding < Len(SeedOrder) THEN seeding + 1 ELSE 0

SeedText ==
    /\ seeding > 0
    /\ SeedRows(SeedOrder[seeding])
    /\ seeding' = NextText(SeedOrder[seeding])
    /\ UNCHANGED <<schemas, tables, migrating, migrated, whole, cuts>>

-----------------------------------------------------------------------------
(* The environment *)

(* A crash, or a connection that is lost: what was committed stays. *)
CutMigration ==
    /\ migrating > 0 /\ cuts < MaxCuts
    /\ cuts' = cuts + 1
    /\ migrating' = 0
    /\ UNCHANGED <<database, seeding, migrated, whole, answered>>

CutSeeding ==
    /\ seeding > 0 /\ cuts < MaxCuts
    /\ cuts' = cuts + 1
    /\ seeding' = 0
    /\ whole' = FALSE
    /\ UNCHANGED <<database, migrating, migrated, answered>>

(* Somebody creates the schemas the migration expects. *)
CreateSchema(s) ==
    /\ s \in Schemas \ schemas
    /\ schemas' = schemas \cup {s}
    /\ UNCHANGED <<tables, rows, pending, migrating, seeding, migrated, whole, answered, cuts>>

(* A reviewer decides on a seeded plan (see PlanningCycle). *)
Decide(id) ==
    /\ id \in pending
    /\ pending' = pending \ {id}
    /\ answered' = answered \cup {id}
    /\ UNCHANGED <<schemas, tables, rows, migrating, seeding, migrated, whole, cuts>>

SetupInit ==
    /\ schemas = {} /\ tables = {} /\ rows = {} /\ pending = {}
    /\ migrating = 0 /\ seeding = 0
    /\ migrated = FALSE /\ whole = FALSE
    /\ answered = {}
    /\ cuts = 0

SetupNext ==
    \/ StartMigration \/ MigrateText \/ CutMigration
    \/ StartSeeding \/ SeedText \/ CutSeeding
    \/ \E s \in Schemas : CreateSchema(s)
    \/ \E id \in SeededPlans : Decide(id)

SetupSpec == SetupInit /\ [][SetupNext]_setup_vars

-----------------------------------------------------------------------------
(* Properties *)

(***************************************************************************)
(* Running both scripts again repairs whatever earlier runs left: when a   *)
(* seeding that began after a complete migration has met no outage, every  *)
(* seeded row is there, although the text of axon_agents fails every time  *)
(* but the first, and every seeded plan that nobody has decided since is   *)
(* offered.  A migration that ends without exception leaves all tables,    *)
(* however often it was cut short before (migrate.py 320-323, seed.py      *)
(* 437-460).                                                               *)
(***************************************************************************)
SetupConverges ==
    /\ migrated => tables = Schemas
    /\ whole /\ seeding = 0 => rows = Texts /\ SeededPlans \ answered \subseteq pending
=============================================================================
