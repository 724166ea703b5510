-------------------------- MODULE EngineMonitorProofs --------------------------
(***************************************************************************)
(* Proofs about EngineMonitor, for any number of threads and requests and  *)
(* any limit.  That a running thread has a run is inductive; that a run    *)
(* nobody has joined is shown needs to know who has been joined (Joined);  *)
(* what pruning removes needs the places to be a numbering (Numbered).     *)
(***************************************************************************)
EXTENDS EngineMonitor, FiniteSetTheorems, TLAPS

(* Whoever shares the thread of a start has made it shared. *)
Joined ==
    \A r, q \in Requests : \A t \in Threads :
        r # q /\ Starts(r, t) /\ Runs(q, t) => r \in shared

MInv == MonitorTypeOK /\ RunningHasARun /\ UnsharedRunIsShown /\ Joined

USE MonitorNumbersAssumption, MonitorNamesAssumption

(* A thread is running, finished or not registered. *)
LEMMA ThreadFacts ==
    ASSUME MonitorTypeOK, NEW t \in Threads
    PROVE  /\ t \in Unfinished <=> registry[t] # NoThread /\ registry[t].status = "running"
           /\ t \in Finished <=> registry[t] # NoThread /\ registry[t].status # "running"
           /\ t \in Registered <=> registry[t] # NoThread
           /\ registry[t] # NoThread => registry[t] \in Thread
  BY DEF MonitorTypeOK, Unfinished, Finished, Registered, Thread

LEMMA InitMInv == MonitorInit => MInv
<1> SUFFICES ASSUME MonitorInit PROVE MInv
  OBVIOUS
<1>1. MonitorTypeOK
  BY DEF MonitorInit, MonitorTypeOK
<1>2. RunningHasARun
  BY DEF MonitorInit, RunningHasARun, Unfinished, Registered
<1>3. UnsharedRunIsShown /\ Joined
  BY DEF MonitorInit, UnsharedRunIsShown, Joined, Starts, Runs
<1> QED
  BY <1>1, <1>2, <1>3 DEF MInv

(* The status of two entries compares as the threads do. *)
LEMMA StatusDecides ==
    ASSUME MonitorTypeOK, MonitorTypeOK', NEW t \in Threads
    PROVE  /\ t \in Unfinished <=> registry[t] # NoThread /\ registry[t].status = "running"
           /\ t \in Unfinished' <=> registry'[t] # NoThread /\ registry'[t].status = "running"
           /\ Unfinished \subseteq Threads /\ Unfinished' \subseteq Threads
  BY DEF MonitorTypeOK, Unfinished, Finished, Registered, Thread

LEMMA StartMInv ==
    ASSUME MInv, NEW r \in Requests, NEW t \in Threads, StartEscalation(r, t)
    PROVE  MInv'
<1> USE DEF MInv
<1>1. /\ job[r] = NoJob
      /\ job' = [job EXCEPT ![r] = [kind |-> "start", thread |-> t]]
      /\ [kind |-> "start", thread |-> t] \in Job
  BY DEF StartEscalation, Job
<1>2. /\ registry' \in [Threads -> Thread \cup {NoThread}] /\ end' \in 0..MaxPlace
      /\ registry'[t] # NoThread /\ registry'[t].status = "running"
      /\ \A u \in Threads \ {t} : registry'[u] = registry[u]
  <2>1. CASE t \in Registered
    <3>1. registry[t] \in Thread /\ [registry[t] EXCEPT !.status = "running"] \in Thread
      BY <2>1, ThreadFacts DEF Thread
    <3>2. registry' = [registry EXCEPT ![t] = [registry[t] EXCEPT !.status = "running"]] /\ end' = end
      BY <2>1 DEF StartEscalation
    <3> QED
      BY <3>1, <3>2 DEF MonitorTypeOK, Thread
  <2>2. CASE t \notin Registered
    <3>1. [status |-> "running", place |-> end] \in Thread
      BY DEF MonitorTypeOK, Thread
    <3>2. /\ registry' = [registry EXCEPT ![t] = [status |-> "running", place |-> end]]
          /\ end < MaxPlace /\ end' = end + 1
      BY <2>2 DEF StartEscalation
    <3> QED
      BY <3>1, <3>2 DEF MonitorTypeOK
  <2> QED
    BY <2>1, <2>2
<1>3. shared' = shared \cup OthersOn(r, t) \cup (IF OthersOn(r, t) = {} THEN {} ELSE {r})
  BY DEF StartEscalation
<1>4. MonitorTypeOK'
  BY <1>1, <1>2, <1>3 DEF MonitorTypeOK, OthersOn
<1>5. /\ job'[r] # NoJob /\ job'[r].thread = t /\ job'[r].kind = "start"
      /\ \A q \in Requests \ {r} : job'[q] = job[q]
  BY <1>1 DEF MonitorTypeOK
<1>6. /\ \A u : Runs(r, u)' <=> u = t
      /\ \A u : Starts(r, u)' <=> u = t
      /\ \A u : ~Runs(r, u) /\ ~Starts(r, u)
      /\ \A q \in Requests \ {r}, u \in Threads :
           (Runs(q, u)' <=> Runs(q, u)) /\ (Starts(q, u)' <=> Starts(q, u))
  BY <1>1, <1>5 DEF Runs, Starts
<1>7. /\ t \in Unfinished'
      /\ \A u \in Threads \ {t} : u \in Unfinished' <=> u \in Unfinished
      /\ Unfinished' \subseteq Threads /\ Unfinished \subseteq Threads
  BY <1>2, <1>4, StatusDecides
<1>8. RunningHasARun'
  BY <1>6, <1>7 DEF RunningHasARun
<1>9. UnsharedRunIsShown'
  BY <1>3, <1>6, <1>7 DEF UnsharedRunIsShown
<1>10. Joined'
  <2>1. \A q \in Requests \ {r} : Runs(q, t) <=> q \in OthersOn(r, t)
    BY DEF OthersOn
  <2>2. \A p, q : Starts(p, t) => Runs(p, t)
    BY DEF Starts
  <2> QED
    BY <1>3, <1>6, <2>1, <2>2 DEF Joined
<1> QED
  BY <1>4, <1>8, <1>9, <1>10

LEMMA ResumeMInv ==
    ASSUME MInv, NEW r \in Requests, NEW t \in Threads, Resume(r, t)
    PROVE  MInv'
<1> USE DEF MInv
<1>1. /\ job[r] = NoJob
      /\ job' = [job EXCEPT ![r] = [kind |-> "resume", thread |-> t]]
      /\ [kind |-> "resume", thread |-> t] \in Job
      /\ shared' = shared \cup OthersOn(r, t)
      /\ UNCHANGED <<registry, end>>
  BY DEF Resume, Job
<1>2. MonitorTypeOK'
  BY <1>1 DEF MonitorTypeOK, OthersOn
<1>3. /\ job'[r] # NoJob /\ job'[r].thread = t /\ job'[r].kind = "resume"
      /\ \A q \in Requests \ {r} : job'[q] = job[q]
  BY <1>1 DEF MonitorTypeOK
<1>4. /\ \A u : Runs(r, u)' <=> u = t
      /\ \A u : ~Starts(r, u)' /\ ~Runs(r, u) /\ ~Starts(r, u)
      /\ \A q \in Requests \ {r}, u \in Threads :
           (Runs(q, u)' <=> Runs(q, u)) /\ (Starts(q, u)' <=> Starts(q, u))
  BY <1>1, <1>3 DEF Runs, Starts
<1>5. Unfinished' = Unfinished /\ Unfinished \subseteq Threads
  BY <1>1 DEF Unfinished, Registered, Finished
<1>6. RunningHasARun' /\ UnsharedRunIsShown'
  BY <1>1, <1>4, <1>5 DEF RunningHasARun, UnsharedRunIsShown
<1>7. Joined'
  <2>1. \A q \in Requests \ {r} : Runs(q, t) <=> q \in OthersOn(r, t)
    BY DEF OthersOn
  <2>2. \A p : Starts(p, t) => Runs(p, t)
    BY DEF Starts
  <2> QED
    BY <1>1, <1>4, <2>1, <2>2 DEF Joined
<1> QED
  BY <1>2, <1>6, <1>7

(* The thread of the run leaves the status running; no other start that is *)
(* not shared was on it.                                                   *)
LEMMA EndMInv ==
    ASSUME MInv, NEW r \in Requests, NEW kind \in {"start", "resume"}, EndJob(r, kind)
    PROVE  MInv'
<1> USE DEF MInv
<1>1. PICK status \in {"completed", "error"}, t \in Threads :
        t = job[r].thread /\ registry' = Mark(t, status)
  BY DEF EndJob, MonitorTypeOK, Job
<1>2. /\ job[r] # NoJob /\ job' = [job EXCEPT ![r] = NoJob]
      /\ shared' = shared \ {r} /\ end' = end
  BY DEF EndJob
<1>3. /\ registry' \in [Threads -> Thread \cup {NoThread}]
      /\ \A u \in Threads \ {t} : registry'[u] = registry[u]
      /\ registry'[t] = NoThread \/ registry'[t].status # "running"
  <2>1. CASE t \in Registered
    <3>1. registry[t] \in Thread /\ [registry[t] EXCEPT !.status = status] \in Thread
      BY <2>1, ThreadFacts DEF Thread
    <3>2. registry' = [registry EXCEPT ![t] = [registry[t] EXCEPT !.status = status]]
      BY <1>1, <2>1 DEF Mark
    <3> QED
      BY <3>1, <3>2 DEF MonitorTypeOK, Thread
  <2>2. CASE t \notin Registered
    <3>1. registry' = registry /\ registry[t] = NoThread
      BY <1>1, <2>2 DEF Mark, Registered
    <3> QED
      BY <3>1 DEF MonitorTypeOK
  <2> QED
    BY <2>1, <2>2
<1>4. MonitorTypeOK'
  BY <1>2, <1>3 DEF MonitorTypeOK
<1>5. /\ \A u : ~Runs(r, u)' /\ ~Starts(r, u)'
      /\ Runs(r, t) /\ \A u : Runs(r, u) => u = t
      /\ \A q \in Requests \ {r}, u \in Threads :
           (Runs(q, u)' <=> Runs(q, u)) /\ (Starts(q, u)' <=> Starts(q, u))
  <2>1. job'[r] = NoJob /\ \A q \in Requests \ {r} : job'[q] = job[q]
    BY <1>2 DEF MonitorTypeOK
  <2>2. /\ \A u : ~Runs(r, u)'
        /\ \A q \in Requests \ {r}, u \in Threads : Runs(q, u)' <=> Runs(q, u)
    BY <2>1 DEF Runs
  <2>3. /\ \A u : ~Starts(r, u)'
        /\ \A q \in Requests \ {r}, u \in Threads : Starts(q, u)' <=> Starts(q, u)
    BY <2>1, <2>2 DEF Starts
  <2>4. Runs(r, t) /\ \A u : Runs(r, u) => u = t
    BY <1>1, <1>2 DEF Runs
  <2> QED
    BY <2>2, <2>3, <2>4
<1>6. /\ t \notin Unfinished'
      /\ \A u \in Threads \ {t} : u \in Unfinished' <=> u \in Unfinished
      /\ Unfinished' \subseteq Threads
  BY <1>3, <1>4, StatusDecides
<1>7. RunningHasARun'
  <2>1. \A u : Starts(r, u) => Runs(r, u)
    BY DEF Starts
  <2> QED
    BY <1>5, <1>6, <2>1 DEF RunningHasARun
<1>8. UnsharedRunIsShown'
  BY <1>2, <1>5, <1>6 DEF UnsharedRunIsShown, Joined
<1>9. Joined'
  <2>1. ASSUME NEW p \in Requests, NEW q \in Requests, NEW u \in Threads,
               p # q, Starts(p, u)', Runs(q, u)'
        PROVE  p \in shared'
    <3>1. p # r /\ q # r
      BY <1>5, <2>1
    <3>2. Starts(p, u) /\ Runs(q, u)
      BY <1>5, <2>1, <3>1
    <3> QED
      BY <1>2, <2>1, <3>1, <3>2 DEF Joined
  <2> QED
    BY <2>1 DEF Joined
<1> QED
  BY <1>4, <1>7, <1>8, <1>9

(* Nobody who is pruned was running. *)
LEMMA ListMInv ==
    ASSUME MInv, List
    PROVE  MInv'
<1> USE DEF MInv
<1>1. Pruned \subseteq Finished
  BY DEF Pruned, First, Prunable
<1>2. /\ registry' = [t \in Threads |-> IF t \in Pruned THEN NoThread ELSE registry[t]]
      /\ UNCHANGED <<end, job, shared>>
  BY DEF List
<1>3. MonitorTypeOK'
  BY <1>2 DEF MonitorTypeOK
<1>4. \A t \in Threads : t \in Unfinished' <=> t \in Unfinished
  <2> SUFFICES ASSUME NEW t \in Threads PROVE t \in Unfinished' <=> t \in Unfinished
    OBVIOUS
  <2>1. registry'[t] = IF t \in Pruned THEN NoThread ELSE registry[t]
    BY <1>2
  <2>2. CASE t \in Pruned
    BY <1>1, <1>3, <2>1, <2>2, StatusDecides, ThreadFacts
  <2>3. CASE t \notin Pruned
    BY <1>3, <2>1, <2>3, StatusDecides
  <2> QED
    BY <2>2, <2>3
<1>5. Unfinished' \subseteq Threads /\ Unfinished \subseteq Threads
  BY DEF Unfinished, Registered
<1>6. \A q, u : (Runs(q, u)' <=> Runs(q, u)) /\ (Starts(q, u)' <=> Starts(q, u))
  BY <1>2 DEF Runs, Starts
<1>7. RunningHasARun' /\ UnsharedRunIsShown' /\ Joined'
  BY <1>2, <1>4, <1>5, <1>6 DEF RunningHasARun, UnsharedRunIsShown, Joined
<1> QED
  BY <1>3, <1>7

LEMMA MInvHolds == MonitorSpec => []MInv
<1>1. MInv /\ [MonitorNext]_monitor_vars => MInv'
  <2>1. MInv /\ UNCHANGED monitor_vars => MInv'
    BY DEF MInv, monitor_vars, MonitorTypeOK, RunningHasARun, UnsharedRunIsShown, Joined,
           Unfinished, Finished, Registered, Starts, Runs
  <2>2. ASSUME MInv, MonitorNext PROVE MInv'
    BY <2>2, StartMInv, ResumeMInv, EndMInv, ListMInv
    DEF MonitorNext, RequestEnds, EndStart, EndResume
  <2> QED
    BY <2>1, <2>2
<1> QED
  BY <1>1, InitMInv, PTL DEF MonitorSpec

(***************************************************************************)
(* The registry and the requests keep their types.                         *)
(***************************************************************************)
THEOREM MonitorIsTyped == MonitorSpec => []MonitorTypeOK
<1>1. MInv => MonitorTypeOK
  BY DEF MInv
<1> QED
  BY <1>1, MInvHolds, PTL

(***************************************************************************)
(* Whatever requests share an id, a thread shown as running has a run.     *)
(***************************************************************************)
THEOREM RunningIsRun == MonitorSpec => []RunningHasARun
<1>1. MInv => RunningHasARun
  BY DEF MInv
<1> QED
  BY <1>1, MInvHolds, PTL

(***************************************************************************)
(* The run of a thread nobody else has touched is shown until it ends,     *)
(* whatever the limit and however often the registry is pruned.            *)
(***************************************************************************)
THEOREM RunIsShown == MonitorSpec => []UnsharedRunIsShown
<1>1. MInv => UnsharedRunIsShown
  BY DEF MInv
<1> QED
  BY <1>1, MInvHolds, PTL
-----------------------------------------------------------------------------
(* Pruning *)

(* The places of the registered threads are distinct and have been given.  *)
Numbered ==
    \A t \in Registered :
        /\ registry[t].place < end
        /\ \A u \in Registered : registry[t].place = registry[u].place => t = u

(* A step that registers nobody keeps the places. *)
LEMMA NumberingKept ==
    ASSUME MonitorTypeOK, MonitorTypeOK', Numbered, end' = end,
           \A t \in Threads : registry'[t] # NoThread =>
               registry[t] # NoThread /\ registry'[t].place = registry[t].place
    PROVE  Numbered'
BY DEF Numbered, Registered

(* Of the actions only a start registers a thread, at a place of its own,  *)
(* and only a listing removes one.                                         *)
LEMMA MonitorStep ==
    ASSUME MonitorTypeOK, MonitorTypeOK', Numbered, [MonitorNext]_monitor_vars
    PROVE  Numbered' /\ (List \/ Registered \subseteq Registered')
<1>1. ASSUME NEW r \in Requests, NEW t \in Threads, StartEscalation(r, t)
      PROVE  Numbered' /\ Registered \subseteq Registered'
  <2>1. CASE t \in Registered
    <3>1. registry[t] \in Thread /\ registry[t] # NoThread
      BY <2>1 DEF MonitorTypeOK, Registered
    <3>2. registry' = [registry EXCEPT ![t] = [registry[t] EXCEPT !.status = "running"]] /\ end' = end
      BY <1>1, <2>1 DEF StartEscalation
    <3>3. \A u \in Threads : registry'[u] # NoThread =>
              registry[u] # NoThread /\ registry'[u].place = registry[u].place
      BY <3>1, <3>2 DEF MonitorTypeOK, Thread
    <3>4. \A u \in Threads : registry[u] # NoThread => registry'[u] # NoThread
      BY <3>1, <3>2 DEF MonitorTypeOK, Thread
    <3> QED
      BY <3>2, <3>3, <3>4, NumberingKept DEF Registered
  <2>2. CASE t \notin Registered
    <3>1. /\ registry' = [registry EXCEPT ![t] = [status |-> "running", place |-> end]]
          /\ end \in Nat /\ end' = end + 1
      BY <1>1, <2>2 DEF StartEscalation, MonitorTypeOK
    <3>2. /\ registry'[t].place = end
          /\ \A u \in Threads \ {t} : registry'[u] = registry[u]
          /\ Registered' = Registered \cup {t}
      <4>1. [status |-> "running", place |-> end] # NoThread
        BY <3>1 DEF Thread
      <4> QED
        BY <3>1, <4>1 DEF MonitorTypeOK, Registered
    <3>3. \A u \in Registered : /\ u \in Threads \ {t}
                                /\ registry[u].place \in Nat
                                /\ registry[u].place < end
      BY <2>2 DEF Numbered, Registered, MonitorTypeOK, Thread
    <3> QED
      BY <3>1, <3>2, <3>3 DEF Numbered
  <2> QED
    BY <2>1, <2>2
<1>2. ASSUME NEW r \in Requests, NEW t \in Threads, Resume(r, t)
      PROVE  Numbered' /\ Registered \subseteq Registered'
  BY <1>2, NumberingKept DEF Resume, Registered
<1>3. ASSUME NEW r \in Requests, NEW kind \in {"start", "resume"}, EndJob(r, kind)
      PROVE  Numbered' /\ Registered \subseteq Registered'
  <2>1. PICK status \in {"completed", "error"}, t \in Threads :
          t = job[r].thread /\ registry' = Mark(t, status) /\ end' = end
    BY <1>3 DEF EndJob, MonitorTypeOK, Job
  <2>2. CASE t \in Registered
    <3>1. registry[t] \in Thread /\ registry[t] # NoThread
      BY <2>2 DEF MonitorTypeOK, Registered
    <3>2. registry' = [registry EXCEPT ![t] = [registry[t] EXCEPT !.status = status]]
      BY <2>1, <2>2 DEF Mark
    <3>3. \A u \in Threads : registry'[u] # NoThread =>
              registry[u] # NoThread /\ registry'[u].place = registry[u].place
      BY <3>1, <3>2 DEF MonitorTypeOK, Thread
    <3>4. \A u \in Threads : registry[u] # NoThread => registry'[u] # NoThread
      BY <3>1, <3>2 DEF MonitorTypeOK, Thread
    <3> QED
      BY <2>1, <3>3, <3>4, NumberingKept DEF Registered
  <2>3. CASE t \notin Registered
    BY <2>1, <2>3, NumberingKept DEF Mark, Registered
  <2> QED
    BY <2>2, <2>3
<1>4. ASSUME List PROVE Numbered'
  <2>1. \A t \in Threads : registry'[t] = IF t \in Pruned THEN NoThread ELSE registry[t]
    BY <1>4 DEF List
  <2> QED
    BY <1>4, <2>1, NumberingKept DEF List
<1>5. CASE UNCHANGED monitor_vars
  BY <1>5, NumberingKept DEF monitor_vars, Registered
<1> QED
  BY <1>1, <1>2, <1>3, <1>4, <1>5 DEF MonitorNext, RequestEnds, EndStart, EndResume

(* The finished threads in front of one, and how many they are. *)
InFront(t) == {u \in Prunable : registry[u].place < registry[t].place}
Rank(t) == Cardinality(InFront(t))

(* Ranks order the finished threads as their places do, without a tie. *)
LEMMA Ranks ==
    ASSUME MonitorTypeOK, Numbered
    PROVE  /\ IsFiniteSet(Prunable)
           /\ \A t \in Prunable : Rank(t) \in 0..(Cardinality(Prunable) - 1)
           /\ \A t, u \in Prunable : registry[t].place < registry[u].place => Rank(t) < Rank(u)
           /\ \A t, u \in Prunable : Rank(t) = Rank(u) => t = u
<1>1. IsFiniteSet(Prunable) /\ Cardinality(Prunable) \in Nat
  BY FS_Subset, FS_CardinalityType DEF Prunable, Finished, Registered
<1>2. \A t \in Prunable : t \in Registered /\ registry[t].place \in Nat
  BY DEF Prunable, Finished, Registered, MonitorTypeOK, Thread
<1>3. ASSUME NEW t \in Prunable
      PROVE  /\ IsFiniteSet(InFront(t)) /\ Rank(t) \in Nat
             /\ Rank(t) < Cardinality(Prunable)
  <2>1. InFront(t) \subseteq Prunable /\ t \notin InFront(t)
    BY <1>2 DEF InFront
  <2> QED
    BY <1>1, <2>1, FS_Subset, FS_CardinalityType DEF Rank
<1>4. ASSUME NEW t \in Prunable, NEW u \in Prunable, registry[t].place < registry[u].place
      PROVE  Rank(t) < Rank(u)
  <2>1. InFront(t) \subseteq InFront(u) /\ t \in InFront(u) /\ t \notin InFront(t)
    BY <1>2, <1>4 DEF InFront
  <2>2. Cardinality(InFront(t)) <= Cardinality(InFront(u)) /\ InFront(t) # InFront(u)
    BY <1>3, <2>1, FS_Subset
  <2>3. Cardinality(InFront(t)) # Cardinality(InFront(u))
    BY <1>3, <2>1, <2>2, FS_Subset
  <2> QED
    BY <1>3, <2>2, <2>3 DEF Rank
<1>5. ASSUME NEW t \in Prunable, NEW u \in Prunable, Rank(t) = Rank(u)
      PROVE  t = u
  <2>1. Rank(t) \in Nat /\ Rank(u) \in Nat
    BY <1>3
  <2>2. ~(registry[t].place < registry[u].place) /\ ~(registry[u].place < registry[t].place)
    BY <1>4, <1>5, <2>1
  <2> QED
    BY <1>2, <2>2 DEF Numbered
<1> QED
  BY <1>1, <1>3, <1>4, <1>5

(* The slice of the first n holds n threads when there are as many: the    *)
(* others' ranks are n and more, and no two have the same.                 *)
LEMMA FirstHoldsN ==
    ASSUME MonitorTypeOK, Numbered, NEW n \in Nat, n <= Cardinality(Prunable)
    PROVE  /\ First(n) \subseteq Prunable
           /\ Cardinality(First(n)) >= n
<1> DEFINE P == Prunable
           Rest == P \ First(n)
           m == Cardinality(P)
<1>1. First(n) = {t \in P : Rank(t) < n} /\ First(n) \subseteq P
  BY DEF First, Rank, InFront
<1>2. IsFiniteSet(P) /\ IsFiniteSet(Rest) /\ IsFiniteSet(First(n))
  BY <1>1, Ranks, FS_Subset
<1>3. m \in Nat /\ Cardinality(First(n)) \in Nat /\ Cardinality(Rest) \in Nat
  BY <1>2, FS_CardinalityType
<1>4. Cardinality(Rest) = m - Cardinality(First(n))
  <2>1. P \cap First(n) = First(n)
    BY <1>1
  <2> QED
    BY <1>2, <2>1, FS_Difference
<1>5. IsFiniteSet(n..(m - 1)) /\ Cardinality(n..(m - 1)) = m - n
  <2>1. n \in Int /\ m - 1 \in Int /\ n <= m
    BY <1>3
  <2> HIDE DEF m
  <2>2. /\ IsFiniteSet(n..(m - 1))
        /\ Cardinality(n..(m - 1)) = IF n > m - 1 THEN 0 ELSE (m - 1) - n + 1
    BY <2>1, FS_Interval
  <2> QED
    BY <1>3, <2>1, <2>2
<1>6. ~(m - n < Cardinality(Rest))
  <2> SUFFICES ASSUME m - n < Cardinality(Rest) PROVE FALSE
    OBVIOUS
  <2> DEFINE f == [t \in Rest |-> Rank(t)]
  <2>1. \A t \in Rest : Rank(t) \in n..(m - 1)
    BY <1>1, <1>3, Ranks
  <2>2. f \in [Rest -> n..(m - 1)]
    BY <2>1
  <2>3. \E t, u \in Rest : t # u /\ f[t] = f[u]
    <3> DEFINE T == n..(m - 1)
    <3>1. /\ IsFiniteSet(Rest) /\ IsFiniteSet(T)
          /\ Cardinality(T) < Cardinality(Rest) /\ f \in [Rest -> T]
      BY <1>2, <1>5, <2>2
    <3> HIDE DEF f, Rest, T
    <3> QED
      BY ONLY <3>1, FS_PigeonHole, Zenon
  <2> QED
    BY <2>3, Ranks
<1> QED
  BY <1>1, <1>3, <1>4, <1>6

(* What a listing removes is finished and lies in front of the finished    *)
(* that stay; it makes room, unless the running threads fill the registry. *)
LEMMA ListPrunes ==
    ASSUME MonitorTypeOK, Numbered, List
    PROVE  /\ Registered \ Registered' = Pruned
           /\ Pruned \subseteq Finished
           /\ \A t \in Pruned, u \in Finished \ Pruned : registry[t].place < registry[u].place
           /\ \/ Cardinality(Registered') <= MaxRetainedThreads
              \/ Cardinality(Unfinished) >= MaxRetainedThreads
<1>1. Pruned \subseteq Finished /\ Finished \subseteq Registered
  BY DEF Pruned, First, Prunable, Finished
<1>2. Registered' = Registered \ Pruned
  BY DEF List, Registered
<1>3. IsFiniteSet(Registered) /\ IsFiniteSet(Finished) /\ IsFiniteSet(Pruned)
  BY <1>1, FS_Subset DEF Registered
<1>4. /\ Cardinality(Registered) \in Nat /\ Cardinality(Finished) \in Nat
      /\ Cardinality(Pruned) \in Nat
  BY <1>3, FS_CardinalityType
<1>5. /\ Cardinality(Unfinished) = Cardinality(Registered) - Cardinality(Finished)
      /\ Cardinality(Registered') = Cardinality(Registered) - Cardinality(Pruned)
  <2>1. Registered \cap Finished = Finished /\ Registered \cap Pruned = Pruned
    BY <1>1
  <2> QED
    BY <1>2, <1>3, <2>1, FS_Difference DEF Unfinished
<1>6. \A t \in Pruned, u \in Finished \ Pruned : registry[t].place < registry[u].place
  <2> SUFFICES ASSUME NEW t \in Pruned, NEW u \in Finished \ Pruned
               PROVE  registry[t].place < registry[u].place
    OBVIOUS
  <2>1. Pruned = First(Surplus) /\ Surplus \in Int
    <3>1. Pruned = First(Surplus)
      BY DEF Pruned
    <3> QED
      BY <1>4, <3>1 DEF Surplus
  <2>2. t \in Prunable /\ u \in Prunable /\ Rank(t) < Surplus /\ ~(Rank(u) < Surplus)
    BY <1>1, <2>1 DEF First, Rank, InFront, Prunable
  <2>3. Rank(t) \in Int /\ Rank(u) \in Int
    BY <2>2, Ranks
  <2>4. ~(registry[u].place < registry[t].place) /\ t # u
    BY <2>1, <2>2, <2>3, Ranks
  <2>5. /\ registry[t].place \in Nat /\ registry[u].place \in Nat
        /\ registry[t].place # registry[u].place
    BY <1>1, <2>4 DEF Numbered, Registered, MonitorTypeOK, Thread
  <2> QED
    BY <2>4, <2>5
<1>7. \/ Cardinality(Registered') <= MaxRetainedThreads
      \/ Cardinality(Unfinished) >= MaxRetainedThreads
  <2> SUFFICES ASSUME ~(Cardinality(Unfinished) >= MaxRetainedThreads)
               PROVE  Cardinality(Registered') <= MaxRetainedThreads
    OBVIOUS
  <2>1. CASE Cardinality(Registered) <= MaxRetainedThreads
    BY <1>4, <1>5, <2>1
  <2>2. CASE ~(Cardinality(Registered) <= MaxRetainedThreads)
    <3>1. Pruned = First(Surplus) /\ Surplus = Cardinality(Registered) - MaxRetainedThreads
      BY <2>2 DEF Pruned, Surplus
    <3>2. Surplus \in Nat /\ Surplus <= Cardinality(Prunable)
      BY <1>4, <1>5, <2>2, <3>1 DEF Prunable
    <3>3. Cardinality(Pruned) >= Surplus
      BY <3>1, <3>2, FirstHoldsN
    <3> QED
      BY <1>4, <1>5, <3>1, <3>3
  <2> QED
    BY <2>1, <2>2
<1> QED
  BY <1>1, <1>2, <1>6, <1>7

(***************************************************************************)
(* For every limit and every number of threads: only a listing removes     *)
(* threads, only finished ones and those in front first, and it brings the *)
(* registry to its limit unless the running threads alone reach it.        *)
(***************************************************************************)
THEOREM PruningIsSparing == MonitorSpec => PruningSparesTheRunning
<1> DEFINE gone == Registered \ Registered'
           Spared == /\ gone # {} => List
                     /\ \A t \in gone : t \in Finished /\
                            \A u \in Finished \ gone : registry[t].place < registry[u].place
                     /\ List => \/ Cardinality(Registered') <= MaxRetainedThreads
                                \/ Cardinality(Unfinished) >= MaxRetainedThreads
<1>1. MonitorInit => Numbered
  BY DEF MonitorInit, Numbered, Registered
<1>2. MInv /\ MInv' /\ Numbered /\ [MonitorNext]_monitor_vars => Numbered' /\ [Spared]_monitor_vars
  <2> SUFFICES ASSUME MonitorTypeOK, MonitorTypeOK', Numbered, [MonitorNext]_monitor_vars
               PROVE  Numbered' /\ Spared
    BY DEF MInv
  <2>1. Numbered' /\ (List \/ gone = {})
    BY MonitorStep
  <2>2. CASE List
    <3>1. gone = Pruned
      BY <2>2, ListPrunes
    <3> HIDE DEF gone
    <3> QED
      BY <2>1, <2>2, <3>1, ListPrunes
  <2>3. CASE ~List
    BY <2>1, <2>3
  <2> QED
    BY <2>2, <2>3
<1>3. MInv /\ MInv' /\ Numbered /\ [MonitorNext]_monitor_vars => Numbered'
  BY <1>2
<1>4. MonitorSpec => []MInv
  BY MInvHolds
<1>5. MonitorSpec => []Numbered
  BY <1>1, <1>3, <1>4, PTL DEF MonitorSpec
<1> QED
  BY <1>2, <1>4, <1>5, PTL DEF MonitorSpec, PruningSparesTheRunning
=============================================================================
