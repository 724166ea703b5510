---------------------------- MODULE EngineMonitor ----------------------------
(***************************************************************************)
(* The thread registry of dashboard/backend/engine_monitor.py and the two  *)
(* routes of escalation_api.py that write to it.                           *)
(*                                                                         *)
(* The registry is a dictionary: a thread that is registered again keeps   *)
(* its place, one that was removed goes to the end.  A thread's id comes   *)
(* from the client (or is a new uuid4), so requests may share it.  The     *)
(* graph (external here, see PlanningCycle) ends or raises.  Severity,     *)
(* level, progress and summaries are left out: no decision here reads      *)
(* them.  mark_waiting_approval is never called: no run of the graph ends  *)
(* with the escalation_level "executive" (see ExecutiveEscalation).        *)
(***************************************************************************)
EXTENDS Integers, FiniteSets

CONSTANTS
    Threads,            \* thread ids
    Requests,           \* concurrent POST /start and POST /{id}/approve
    MaxRetainedThreads, \* MAX_RETAINED_THREADS
    MaxPlace,           \* bound: places ever given in the registry
    NoThread,           \* a thread that is not registered
    NoJob               \* a request that is not running

ASSUME MonitorNumbersAssumption ==
    MaxRetainedThreads \in Nat \ {0} /\ MaxPlace \in Nat /\ IsFiniteSet(Threads)

VARIABLES
    registry, \* _registry
    end,      \* the next place in it
    job,      \* what each request waits for
    shared    \* history: starts on whose thread another request has come in

monitor_vars == <<registry, end, job, shared>>

Thread == [status : {"running", "completed", "error"}, place : Nat]
Job == [kind : {"start", "resume"}, thread : Threads]

ASSUME MonitorNamesAssumption == NoThread \notin Thread /\ NoJob \notin Job

MonitorTypeOK ==
    /\ registry \in [Threads -> Thread \cup {NoThread}]
    /\ end \in 0..MaxPlace
    /\ job \in [Requests -> Job \cup {NoJob}]
    /\ shared \subseteq Requests

Registered == {t \in Threads : registry[t] # NoThread}
Finished == {t \in Registered : registry[t].status \in {"completed", "error"}}
Unfinished == Registered \ Finished

Runs(r, t) == job[r] # NoJob /\ job[r].thread = t
Starts(r, t) == Runs(r, t) /\ job[r].kind = "start"

(* For shared: everybody else who waits for a run of the thread. *)
OthersOn(r, t) == {q \in Requests \ {r} : Runs(q, t)}

-----------------------------------------------------------------------------
(* start_escalation *)

(* register_thread, and the graph's run is awaited. *)
StartEscalation(r, t) ==
    /\ job[r] = NoJob
    /\ IF t \in Registered
       THEN /\ registry' = [registry EXCEPT ![t].status = "running"]
            /\ end' = end
       ELSE /\ end < MaxPlace
            /\ registry' = [registry EXCEPT ![t] = [status |-> "running", place |-> end]]
            /\ end' = end + 1
    /\ job' = [job EXCEPT ![r] = [kind |-> "start", thread |-> t]]
    /\ shared' = shared \cup OthersOn(r, t) \cup (IF OthersOn(r, t) = {} THEN {} ELSE {r})

MarkCompletedOnly(t, status) ==
    IF t \in Registered /\ status = "completed"
    THEN [registry EXCEPT ![t].status = status] ELSE registry \* mutant

(* update_thread; a thread that is not there stays away. *)
Mark(t, status) ==
    IF t \in Registered THEN [registry EXCEPT ![t].status = status] ELSE registry

(* mark_completed when the run ends, mark_error when it raises. *)
EndJob(r, kind) ==
    /\ job[r] # NoJob /\ job[r].kind = kind
    /\ \E status \in {"completed", "error"} : registry' = Mark(job[r].thread, status)
    /\ job' = [job EXCEPT ![r] = NoJob]
    /\ shared' = shared \ {r}
    /\ UNCHANGED end

EndStart(r) == EndJob(r, "start")

-----------------------------------------------------------------------------
(* resume_escalation, of any id: known, running, finished or made up *)
Resume(r, t) ==
    /\ job[r] = NoJob
    /\ job' = [job EXCEPT ![r] = [kind |-> "resume", thread |-> t]]
    /\ shared' = shared \cup OthersOn(r, t)
    /\ UNCHANGED <<registry, end>>

EndResume(r) == EndJob(r, "resume")

-----------------------------------------------------------------------------
(* list_threads and get_summary: a snapshot, then _prune_if_needed *)

HalfAlways == Cardinality(Finished) \div 2 \* mutant

(* How many threads go: half of the finished ones when the others alone    *)
(* reach the limit, the overflow when they do not.                         *)
Surplus ==
    IF Cardinality(Unfinished) >= MaxRetainedThreads
    THEN Cardinality(Finished) \div 2
    ELSE Cardinality(Registered) - MaxRetainedThreads

PruneAnybody == Registered \* mutant

Prunable == Finished

(* The first n prunable threads, in the dictionary's order. *)
First(n) ==
    {t \in Prunable :
        Cardinality({u \in Prunable : registry[u].place < registry[t].place}) < n}

Pruned == IF Cardinality(Registered) <= MaxRetainedThreads THEN {} ELSE First(Surplus)

List ==
    /\ Registered # {}
    /\ registry' = [t \in Threads |-> IF t \in Pruned THEN NoThread ELSE registry[t]]
    /\ UNCHANGED <<end, job, shared>>

MonitorInit ==
    /\ registry = [t \in Threads |-> NoThread]
    /\ end = 0
    /\ job = [r \in Requests |-> NoJob]
    /\ shared = {}

RequestEnds(r) == EndStart(r) \/ EndResume(r)

MonitorNext ==
    \/ \E r \in Requests :
        \/ \E t \in Threads : StartEscalation(r, t) \/ Resume(r, t)
        \/ RequestEnds(r)
    \/ List

MonitorSpec == MonitorInit /\ [][MonitorNext]_monitor_vars

(* The graph's runs end (EveryCycleEnds of PlanningCycle) or raise. *)
MonitorFairness == \A r \in Requests : WF_monitor_vars(RequestEnds(r))

-----------------------------------------------------------------------------
(* Properties *)

(***************************************************************************)
(* A thread shown as running has a run: whatever requests share its id,    *)
(* overwrite its entry or end in an exception, somebody is still there to  *)
(* take it out of that status (escalation_api.py 115-196).                 *)
(***************************************************************************)
RunningHasARun ==
    \A t \in Unfinished : \E r \in Requests : Starts(r, t)

(***************************************************************************)
(* The run of a thread nobody else has touched is shown as running until   *)
(* it ends, however full the registry is and however often it is pruned    *)
(* (_prune_if_needed, 140-154).                                            *)
(***************************************************************************)
UnsharedRunIsShown ==
    \A r \in Requests \ shared : \A t \in Threads : Starts(r, t) => t \in Unfinished

(***************************************************************************)
(* Only finished threads leave the registry, those in front first, and     *)
(* only when a listing has just reported them; a listing brings it to its  *)
(* limit unless the running threads alone reach it (_prune_if_needed).     *)
(***************************************************************************)
PruningSparesTheRunning ==
    [][LET gone == Registered \ Registered'
       IN  /\ gone # {} => List
           /\ \A t \in gone : t \in Finished /\
                  \A u \in Finished \ gone : registry[t].place < registry[u].place
           /\ List => \/ Cardinality(Registered') <= MaxRetainedThreads
                      \/ Cardinality(Unfinished) >= MaxRetainedThreads]_monitor_vars

(***************************************************************************)
(* Every thread leaves the status running.                                 *)
(***************************************************************************)
NothingRunsForever ==
    \A t \in Threads : t \in Unfinished ~> t \notin Unfinished
=============================================================================
