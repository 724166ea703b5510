------------------------------ MODULE Retention ------------------------------
(***************************************************************************)
(* The two retention routines for experience_records:                      *)
(* ExperienceLedger.apply_retention (core/learning/ledger.py) and          *)
(* apply_retention of core/learning/database.py.  Each sends two           *)
(* statements, which commit on their own; a run may stop in between, and   *)
(* runs of both may overlap.  An age is counted in the days the cutoffs    *)
(* tell apart; each run takes the time once, at its start.                 *)
(***************************************************************************)
EXTENDS Integers

CONSTANTS
    Records,  \* experience records
    Sweeps,   \* concurrent runs of a routine
    Hot,      \* RETENTION_HOT_DAYS
    Warm,     \* RETENTION_WARM_DAYS
    MaxDay,   \* bound: days
    NoRecord, \* not written yet, or deleted
    NoRun     \* a run that is not under way

ASSUME RetentionAssumption == Hot \in Nat /\ Warm \in Nat /\ Hot < Warm /\ MaxDay \in Nat

VARIABLES
    day,
    records, \* the rows of experience_records
    run      \* the routine, its time and its next statement

retention_vars == <<day, records, run>>

Record == [created : Nat, reference : BOOLEAN, detail : {"full", "summary"}]
Running == [routine : {"ledger", "database"}, now : Nat, step : {"first", "second"}]

ASSUME RetentionNamesAssumption == NoRecord \notin Record /\ NoRun \notin Running

RetentionTypeOK ==
    /\ day \in Nat
    /\ records \in [Records -> Record \cup {NoRecord}]
    /\ run \in [Sweeps -> Running \cup {NoRun}]

Kept(x) == records[x] # NoRecord
Recorded == {x \in Records : Kept(x)}

(* The columns of a row against the two cutoffs of a run. *)
BeforeHot(x, now) == records[x].created < now - Hot
BeforeWarm(x, now) == records[x].created < now - Warm

-----------------------------------------------------------------------------
(* The four statements: the records they delete or summarise *)

(* DELETE ... created_at < purge cutoff AND NOT reference, of both. *)
PurgeIgnoresTags(now) == {x \in Recorded : BeforeWarm(x, now)} \* mutant

Purge(now) == {x \in Recorded : BeforeWarm(x, now) /\ ~records[x].reference}

(* The ledger's UPDATE: BETWEEN names the later cutoff first, and so meets *)
(* no record, as Hot < Warm.                                               *)
SummariseInLedger(now) ==
    {x \in Recorded : now - Hot <= records[x].created /\ records[x].created <= now - Warm}

(* database.py's UPDATE. *)
SummariseInDatabase(now) ==
    {x \in Recorded : /\ BeforeHot(x, now) /\ ~BeforeWarm(x, now)
                      /\ records[x].detail = "full"}

Delete(gone) == [x \in Records |-> IF x \in gone THEN NoRecord ELSE records[x]]
Summarise(old) ==
    [x \in Records |-> IF x \in old THEN [records[x] EXCEPT !.detail = "summary"] ELSE records[x]]

-----------------------------------------------------------------------------
StartRetention(r, routine) ==
    /\ run[r] = NoRun
    /\ run' = [run EXCEPT ![r] = [routine |-> routine, now |-> day, step |-> "first"]]
    /\ UNCHANGED <<day, records>>

(* The ledger purges first, database.py summarises first. *)
FirstStatement(r) ==
    /\ run[r] # NoRun /\ run[r].step = "first"
    /\ records' = IF run[r].routine = "ledger" THEN Delete(Purge(run[r].now))
                  ELSE Summarise(SummariseInDatabase(run[r].now))
    /\ run' = [run EXCEPT ![r].step = "second"]
    /\ UNCHANGED day

SecondStatement(r) ==
    /\ run[r] # NoRun /\ run[r].step = "second"
    /\ records' = IF run[r].routine = "ledger" THEN Summarise(SummariseInLedger(run[r].now))
                  ELSE Delete(Purge(run[r].now))
    /\ run' = [run EXCEPT ![r] = NoRun]
    /\ UNCHANGED day

(* A crash, or a statement that fails: the exception leaves the routine. *)
RetentionStops(r) ==
    /\ run[r] # NoRun
    /\ run' = [run EXCEPT ![r] = NoRun]
    /\ UNCHANGED <<day, records>>

(* The environment: plans are recorded, and days pass. *)
WriteRecord(x, reference) ==
    /\ records[x] = NoRecord
    /\ records' = [records EXCEPT ![x] =
           [created |-> day, reference |-> reference, detail |-> "full"]]
    /\ UNCHANGED <<day, run>>

DayPasses ==
    /\ day < MaxDay
    /\ day' = day + 1
    /\ UNCHANGED <<records, run>>

RetentionInit ==
    /\ day = 0
    /\ records = [x \in Records |-> NoRecord]
    /\ run = [r \in Sweeps |-> NoRun]

RetentionNext ==
    \/ \E r \in Sweeps :
        \/ StartRetention(r, "ledger") \/ StartRetention(r, "database")
        \/ FirstStatement(r) \/ SecondStatement(r) \/ RetentionStops(r)
    \/ \E x \in Records, reference \in BOOLEAN : WriteRecord(x, reference)
    \/ DayPasses

RetentionSpec == RetentionInit /\ [][RetentionNext]_retention_vars

-----------------------------------------------------------------------------
(* Properties *)

Age(x) == day - records[x].created

(***************************************************************************)
(* Whatever runs of the two routines overlap, stop halfway or come late, a *)
(* record younger than Hot days keeps its detail, and what an older one    *)
(* loses is its detail alone; it is deleted only when older than Warm days *)
(* and no reference (ledger.py 204-260, database.py 204-278).  That an     *)
(* older record does lose its detail is another matter: the ledger's       *)
(* routine finds none.                                                     *)
(***************************************************************************)
RetentionSparesTheYoung ==
    [][\A x \in Recorded :
        /\ x \notin Recorded' => Age(x) > Warm /\ ~records[x].reference
        /\ x \in Recorded' =>
             \/ records'[x] = records[x]
             \/ /\ Age(x) >= Hot
                /\ records'[x] = [records[x] EXCEPT !.detail = "summary"]]_retention_vars
=============================================================================
