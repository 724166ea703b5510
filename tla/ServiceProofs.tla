----------------------------- MODULE ServiceProofs -----------------------------
(***************************************************************************)
(* Proofs about five small services: Degradation, BoardWeights,            *)
(* CatalogSync, Retention and SchemaSetup, for any servers, fields, tools, *)
(* records, times and outages, and about the seven services side by side.  *)
(***************************************************************************)
EXTENDS MCServices, McpCacheProofs, EngineMonitorProofs,
        FiniteSetTheorems, WellFoundedInduction, TLAPS

-----------------------------------------------------------------------------
(* Degradation *)

(* Unless something was repaired, the level is at most what it would be now. *)
NotBetter == ~relieved => Severity[grade] <= Severity[NewLevel]

DInv == DegradationTypeOK /\ NotBetter

LEMMA Grades ==
    /\ Severity["FULL"] = 0 /\ Severity["DEGRADED"] = 1
    /\ Severity["LIMITED"] = 2 /\ Severity["CRITICAL"] = 3
    /\ NewLevel \in Levels
  BY DEF Severity, Levels, NewLevel

(* One more breaker that is not closed never lifts the level. *)
LEMMA OpeningWorsens ==
    ASSUME DegradationTypeOK, NEW s \in MonitoredServers, BreakerOpens(s)
    PROVE  Severity[NewLevel] <= Severity[NewLevel']
<1>1. IsFiniteSet(breakers)
  <2>1. IsFiniteSet(MonitoredServers)
    BY ServersAssumption, FS_AddElement DEF MonitoredServers
  <2> QED
    BY <2>1, FS_Subset DEF DegradationTypeOK
<1>2. breakers' = breakers /\ open \subseteq open' /\ open' \subseteq breakers /\ open' # {}
  BY DEF BreakerOpens, DegradationTypeOK
<1>3. IsFiniteSet(open' \ {RagServer}) /\ IsFiniteSet(breakers \ {RagServer})
  BY <1>1, <1>2, FS_Subset
<1>4. /\ ErpOpen \in Nat /\ ErpOpen' \in Nat /\ ErpRegistered \in Nat
      /\ ErpOpen <= ErpOpen' /\ ErpRegistered' = ErpRegistered
  <2>1. open \ {RagServer} \subseteq open' \ {RagServer}
    BY <1>2
  <2>2. /\ IsFiniteSet(open \ {RagServer})
        /\ Cardinality(open \ {RagServer}) <= Cardinality(open' \ {RagServer})
    BY <1>3, <2>1, FS_Subset
  <2>3. /\ Cardinality(open \ {RagServer}) \in Nat /\ Cardinality(open' \ {RagServer}) \in Nat
        /\ Cardinality(breakers \ {RagServer}) \in Nat
    BY <1>3, <2>2, FS_CardinalityType
  <2> QED
    BY <1>2, <2>2, <2>3 DEF ErpOpen, ErpRegistered
<1>5. SeveralOrRag => SeveralOrRag'
  BY <1>2, <1>4 DEF SeveralOrRag
<1> QED
  BY <1>2, <1>4, <1>5, Grades DEF NewLevel

LEMMA DInvHolds == DegradationSpec => []DInv
<1>1. DegradationInit => DInv
  <2> SUFFICES ASSUME DegradationInit PROVE DInv
    OBVIOUS
  <2>1. NewLevel = grade /\ grade = "FULL" /\ Severity[grade] <= Severity[NewLevel]
    BY Grades DEF DegradationInit, NewLevel
  <2>2. DegradationTypeOK
    BY DEF DegradationInit, DegradationTypeOK, Levels
  <2> QED
    BY <2>1, <2>2 DEF DInv, NotBetter
<1>2. DInv /\ [DegradationNext]_degradation_vars => DInv'
  <2> SUFFICES ASSUME DInv, [DegradationNext]_degradation_vars PROVE DInv'
    OBVIOUS
  <2> USE DEF DInv
  <2>1. ASSUME NEW s \in MonitoredServers, RegisterBreaker(s) PROVE DInv'
    BY <2>1 DEF RegisterBreaker, DegradationTypeOK, NotBetter
  <2>2. ASSUME NEW s \in MonitoredServers, BreakerOpens(s) PROVE DInv'
    <3>1. DegradationTypeOK'
      BY <2>2 DEF BreakerOpens, DegradationTypeOK
    <3>2. Severity[NewLevel] <= Severity[NewLevel']
      BY <2>2, OpeningWorsens
    <3>3. grade \in Levels /\ Severity \in [Levels -> 0..3] /\ NewLevel \in Levels /\ NewLevel' \in Levels
      BY DEF DegradationTypeOK, Severity, Levels, NewLevel
    <3>4. NotBetter'
      BY <2>2, <3>2, <3>3 DEF BreakerOpens, NotBetter
    <3> QED
      BY <3>1, <3>4
  <2>3. ASSUME NEW s \in MonitoredServers, BreakerCloses(s) PROVE DInv'
    BY <2>3 DEF BreakerCloses, DegradationTypeOK, NotBetter
  <2>4. CASE Evaluate
    <3>1. NewLevel' = NewLevel
      BY <2>4 DEF Evaluate, NewLevel, ErpOpen, ErpRegistered, SeveralOrRag
    <3>2. Severity[NewLevel] <= Severity[NewLevel]
      BY Grades DEF Levels
    <3> QED
      BY <2>4, <3>1, <3>2, Grades DEF Evaluate, DegradationTypeOK, NotBetter
  <2>5. CASE UNCHANGED degradation_vars
    BY <2>5 DEF degradation_vars, DegradationTypeOK, NotBetter, NewLevel, ErpOpen,
                ErpRegistered, SeveralOrRag
  <2> QED
    BY <2>1, <2>2, <2>3, <2>4, <2>5 DEF DegradationNext
<1> QED
  BY <1>1, <1>2, PTL DEF DegradationSpec

(***************************************************************************)
(* However many servers there are and in whatever order they fail, the     *)
(* level of the system gets better only after a recovery.                  *)
(***************************************************************************)
THEOREM RecoveryAlone == DegradationSpec => OnlyRecoveryImproves
<1>1. ASSUME DInv, [DegradationNext]_degradation_vars
      PROVE  [Severity[grade'] < Severity[grade] => relieved]_degradation_vars
  <2> SUFFICES ASSUME Severity[grade'] < Severity[grade], ~relieved PROVE FALSE
    OBVIOUS
  <2>1. Severity \in [Levels -> 0..3] /\ grade \in Levels
    BY <1>1 DEF Severity, Levels, DInv, DegradationTypeOK
  <2>2. CASE grade' = grade
    BY <2>1, <2>2
  <2>3. CASE Evaluate
    BY <1>1, <2>1, <2>3, Grades DEF Evaluate, DInv, NotBetter
  <2> QED
    BY <1>1, <2>2, <2>3 DEF DegradationNext, degradation_vars, RegisterBreaker,
                            BreakerOpens, BreakerCloses
<1> QED
  BY <1>1, DInvHolds, PTL DEF DegradationSpec, OnlyRecoveryImproves

-----------------------------------------------------------------------------
(* BoardWeights *)

LEMMA WeightsInvHolds == WeightsSpec => [](WeightsTypeOK /\ UpdatesMergeUntilARead)
<1> DEFINE I == WeightsTypeOK /\ UpdatesMergeUntilARead
<1>1. WeightsInit => I
  BY DEF WeightsInit, WeightsTypeOK, UpdatesMergeUntilARead, All, WeightValues
<1>2. I /\ [WeightsNext]_weights_vars => I'
  <2> SUFFICES ASSUME I, [WeightsNext]_weights_vars PROVE I'
    OBVIOUS
  <2>1. ASSUME NEW value \in {Default, RowValue}, Replace(value),
               row' \in BOOLEAN, reading' \subseteq Readers
        PROVE  I'
    BY <2>1 DEF Replace, All, WeightsTypeOK, UpdatesMergeUntilARead, WeightValues
  <2>2. ASSUME NEW r \in Readers, StartRead(r) PROVE I'
    BY <2>2 DEF StartRead, WeightsTypeOK, UpdatesMergeUntilARead
  <2>3. ASSUME NEW r \in Readers, EndRead(r) PROVE I'
    BY <2>1, <2>3 DEF EndRead, WeightsTypeOK
  <2>4. ASSUME NEW given \in [Fields -> Puttable \cup {NoPut}], UpdateWeights(given) PROVE I'
    <3>1. WeightsTypeOK'
      BY <2>4 DEF UpdateWeights, Apply, WeightsTypeOK, WeightValues
    <3>2. ASSUME NEW f \in Fields
          PROVE  current_weights'[f] = IF puts'[f] = NoPut THEN base' ELSE puts'[f]
      BY <2>4 DEF UpdateWeights, Apply, UpdatesMergeUntilARead
    <3> QED
      BY <3>1, <3>2 DEF UpdatesMergeUntilARead
  <2>5. CASE ResetWeights \/ RestartDashboard
    BY <2>1, <2>5 DEF ResetWeights, RestartDashboard, WeightsTypeOK
  <2>6. CASE SeedWeights \/ UNCHANGED weights_vars
    BY <2>6 DEF SeedWeights, weights_vars, WeightsTypeOK, UpdatesMergeUntilARead
  <2> QED
    BY <2>2, <2>3, <2>4, <2>5, <2>6 DEF WeightsNext
<1> QED
  BY <1>1, <1>2, PTL DEF WeightsSpec

(***************************************************************************)
(* Whatever readers and writers come together, a field has the value last  *)
(* put for it since the weights were read, reset or started.               *)
(***************************************************************************)
THEOREM UpdatesMerge == WeightsSpec => []UpdatesMergeUntilARead
  BY WeightsInvHolds, PTL

-----------------------------------------------------------------------------
(* CatalogSync *)

(* A call knows names of the catalog only; a server out of reach has no tools. *)
Sound ==
    \A p \in Syncs : sync[p] # NoSync =>
        /\ sync[p].existing \subseteq CatalogNames
        /\ \A i \in Places :
             sync[p].answers[i] # Unanswered /\ ~sync[p].answers[i].connected =>
                 sync[p].answers[i].tools = {}

(* Without an overlap, a call that runs knows the whole catalog. *)
Alone ==
    ~crossed => \A p \in Syncs : sync[p] # NoSync =>
        /\ sync[p].existing = CatalogNames
        /\ \A q \in Syncs \ {p} : sync[q] = NoSync

TInv == CatalogTypeOK /\ Sound /\ Alone /\ ToolsAreListedOnce

LEMMA StartSyncTInv ==
    ASSUME TInv, NEW p \in Syncs, StartSync(p)
    PROVE  TInv'
<1> USE CatalogAssumption DEF TInv
<1> DEFINE new == [existing |-> CatalogNames, answers |-> [i \in Places |-> Unanswered]]
<1>1. /\ sync[p] = NoSync /\ sync' = [sync EXCEPT ![p] = new]
      /\ crossed' = (crossed \/ \E q \in Syncs : sync[q] # NoSync)
      /\ catalog' = catalog /\ CatalogNames' = CatalogNames
  BY DEF StartSync, CatalogNames
<1>2. CatalogNames \subseteq Names
  BY DEF CatalogTypeOK, CatalogNames, Listed
<1>3. new \in Syncing
  BY <1>2 DEF Syncing
<1>4. sync'[p] = new /\ \A q \in Syncs \ {p} : sync'[q] = sync[q]
  BY <1>1 DEF CatalogTypeOK
<1>5. CatalogTypeOK'
  BY <1>1, <1>3 DEF CatalogTypeOK
<1>6. Sound'
  BY <1>1, <1>4 DEF Sound
<1>7. Alone'
  <2> SUFFICES ASSUME ~crossed', NEW q \in Syncs, sync'[q] # NoSync
               PROVE  /\ sync'[q].existing = CatalogNames'
                      /\ \A o \in Syncs \ {q} : sync'[o] = NoSync
    BY DEF Alone
  <2>1. \A o \in Syncs : sync[o] = NoSync
    BY <1>1
  <2>2. q = p
    BY <1>4, <2>1
  <2> QED
    BY <1>1, <1>4, <2>1, <2>2
<1>8. ToolsAreListedOnce'
  BY <1>1 DEF ToolsAreListedOnce
<1> QED
  BY <1>5, <1>6, <1>7, <1>8

LEMMA DiscoverTInv ==
    ASSUME TInv, NEW p \in Syncs, NEW i \in Places, Discover(p, i)
    PROVE  TInv' /\ \A q \in Syncs : sync[q] # NoSync => sync'[q] # NoSync
<1> USE CatalogAssumption DEF TInv
<1>1. PICK found \in Found :
        /\ ~found.connected => found.tools = {}
        /\ sync' = [sync EXCEPT ![p].answers[i] = found]
  BY DEF Discover
<1>2. /\ sync[p] # NoSync /\ sync[p] \in Syncing /\ sync[p].answers[i] = Unanswered
      /\ catalog' = catalog /\ crossed' = crossed /\ CatalogNames' = CatalogNames
  BY DEF Discover, CatalogTypeOK, CatalogNames
<1>3. /\ sync'[p] = [sync[p] EXCEPT !.answers[i] = found]
      /\ \A q \in Syncs \ {p} : sync'[q] = sync[q]
  BY <1>1 DEF CatalogTypeOK
<1>4. /\ sync'[p] \in Syncing /\ sync'[p] # NoSync
      /\ sync'[p].existing = sync[p].existing /\ sync'[p].answers[i] = found
      /\ \A j \in Places \ {i} : sync'[p].answers[j] = sync[p].answers[j]
  BY <1>2, <1>3 DEF Syncing
<1>5. CatalogTypeOK'
  BY <1>1, <1>2, <1>3, <1>4 DEF CatalogTypeOK
<1>6. Sound'
  BY <1>1, <1>2, <1>3, <1>4 DEF Sound
<1>7. Alone'
  <2> SUFFICES ASSUME ~crossed', NEW q \in Syncs, sync'[q] # NoSync
               PROVE  /\ sync'[q].existing = CatalogNames'
                      /\ \A o \in Syncs \ {q} : sync'[o] = NoSync
    BY DEF Alone
  <2>1. /\ sync[q] # NoSync /\ sync'[q].existing = sync[q].existing
        /\ \A o \in Syncs \ {p} : sync'[o] = sync[o]
    BY <1>2, <1>3, <1>4
  <2>2. /\ sync[q].existing = CatalogNames
        /\ \A o \in Syncs \ {q} : sync[o] = NoSync
    BY <1>2, <2>1 DEF Alone
  <2>3. q = p
    BY <1>2, <2>2
  <2> QED
    BY <1>2, <2>1, <2>2, <2>3
<1>8. ToolsAreListedOnce'
  BY <1>2 DEF ToolsAreListedOnce
<1> QED
  BY <1>2, <1>3, <1>4, <1>5, <1>6, <1>7, <1>8

(* What a call merges: new names, each from the first server reporting it. *)
Merged(p) ==
    UNION {{[name |-> n, server |-> i, by |-> p] : n \in NewTools(sync[p], i)} :
               i \in {j \in Places : Merges(sync[p], j)}}

LEMMA EndSyncTInv ==
    ASSUME TInv, NEW p \in Syncs, EndSync(p)
    PROVE  TInv'
<1> USE CatalogAssumption DEF TInv
<1>1. /\ sync[p] # NoSync /\ sync[p] \in Syncing
      /\ catalog' = catalog \cup Merged(p) /\ sync' = [sync EXCEPT ![p] = NoSync]
      /\ crossed' = crossed
      /\ \A i \in Places : sync[p].answers[i] \in Found
  <2>1. sync[p] # NoSync /\ sync[p] \in Syncing
    BY DEF EndSync, CatalogTypeOK
  <2> QED
    BY <2>1 DEF EndSync, Merged, Syncing
<1>2. ASSUME NEW e \in Merged(p)
      PROVE  \E i \in Places :
                /\ e = [name |-> e.name, server |-> i, by |-> p]
                /\ e.name \in Names /\ e.name \notin sync[p].existing
                /\ e.name \in sync[p].answers[i].tools
                /\ \A j \in 1..(i - 1) : e.name \notin sync[p].answers[j].tools
  BY <1>1, <1>2 DEF Merged, NewTools, Found
<1>3. /\ sync'[p] = NoSync /\ \A q \in Syncs \ {p} : sync'[q] = sync[q]
      /\ CatalogNames \subseteq CatalogNames'
  BY <1>1 DEF CatalogTypeOK, CatalogNames
<1>4. CatalogTypeOK'
  <2>1. Merged(p) \subseteq Listed
    BY <1>2 DEF Listed
  <2> QED
    BY <1>1, <2>1 DEF CatalogTypeOK
<1>5. Sound'
  BY <1>3 DEF Sound
<1>6. Alone'
  BY <1>1, <1>3 DEF Alone
<1>7. ToolsAreListedOnce'
  <2> SUFFICES ASSUME ~crossed, NEW e \in catalog', NEW f \in catalog', e.name = f.name
               PROVE  e = f
    BY <1>1 DEF ToolsAreListedOnce
  <2>1. sync[p].existing = CatalogNames
    BY <1>1 DEF Alone
  <2>2. CASE e \in catalog /\ f \in catalog
    BY <2>2 DEF ToolsAreListedOnce
  <2>3. CASE e \in Merged(p) /\ f \in Merged(p)
    <3>1. PICK i \in Places :
            /\ e = [name |-> e.name, server |-> i, by |-> p]
            /\ e.name \in sync[p].answers[i].tools
            /\ \A k \in 1..(i - 1) : e.name \notin sync[p].answers[k].tools
      BY <1>2, <2>3
    <3>2. PICK j \in Places :
            /\ f = [name |-> f.name, server |-> j, by |-> p]
            /\ f.name \in sync[p].answers[j].tools
            /\ \A k \in 1..(j - 1) : f.name \notin sync[p].answers[k].tools
      BY <1>2, <2>3
    <3>3. i = j
      BY <3>1, <3>2 DEF Places
    <3> QED
      BY <3>1, <3>2, <3>3
  <2>4. CASE \E c \in catalog, m \in Merged(p) : c.name = m.name
    BY <1>2, <2>1, <2>4 DEF CatalogNames
  <2> QED
    BY <1>1, <2>2, <2>3, <2>4
<1> QED
  BY <1>4, <1>5, <1>6, <1>7

LEMMA TInvHolds == CatalogSpec => []TInv
<1>1. CatalogInit => TInv
  <2> SUFFICES ASSUME CatalogInit PROVE TInv
    OBVIOUS
  <2>1. CatalogTypeOK
    <3>1. \A n \in SourceTools : [name |-> n, server |-> Source, by |-> Source] \in Listed
      BY CatalogAssumption DEF Listed
    <3>2. catalog \subseteq Listed /\ sync \in [Syncs -> Syncing \cup {NoSync}]
      BY <3>1 DEF CatalogInit
    <3> QED
      BY <3>2 DEF CatalogInit, CatalogTypeOK
  <2>2. Sound /\ Alone
    BY DEF CatalogInit, Sound, Alone
  <2>3. ToolsAreListedOnce
    BY DEF CatalogInit, ToolsAreListedOnce
  <2> QED
    BY <2>1, <2>2, <2>3 DEF TInv
<1>2. TInv /\ [CatalogNext]_catalog_vars => TInv'
  <2>1. TInv /\ UNCHANGED catalog_vars => TInv'
    BY DEF TInv, catalog_vars, CatalogTypeOK, Sound, Alone, ToolsAreListedOnce, CatalogNames
  <2>2. ASSUME TInv, CatalogNext PROVE TInv'
    BY <2>2, StartSyncTInv, DiscoverTInv, EndSyncTInv DEF CatalogNext
  <2> QED
    BY <2>1, <2>2
<1> QED
  BY <1>1, <1>2, PTL DEF CatalogSpec

(***************************************************************************)
(* Any servers sharing any names: a tool is entered once, as long as no    *)
(* two synchronisations overlap.                                           *)
(***************************************************************************)
THEOREM ListedOnce == CatalogSpec => []ToolsAreListedOnce
<1>1. TInv => ToolsAreListedOnce
  BY DEF TInv
<1> QED
  BY <1>1, TInvHolds, PTL

(* A non-empty set of natural numbers has a least element. *)
LEMMA LeastElement ==
    ASSUME NEW S, S \subseteq Nat, S # {}
    PROVE  \E i \in S : \A j \in S : i <= j
<1> DEFINE T == {0..i : i \in S}
<1>1. T \subseteq FiniteSubsetsOf(Nat) /\ T # {}
  <2>1. ASSUME NEW i \in S PROVE 0..i \in FiniteSubsetsOf(Nat)
    <3>1. i \in Int /\ 0..i \subseteq Nat
      OBVIOUS
    <3>2. IsFiniteSet(0..i)
      BY <3>1, FS_Interval
    <3> QED
      BY <3>1, <3>2 DEF FiniteSubsetsOf
  <2> QED
    BY <2>1
<1>2. PICK t \in T : \A u \in T : ~(<<u, t>> \in StrictSubsetOrdering(Nat))
  BY <1>1, FS_StrictSubsetOrderingWellFounded, WFMin
<1>3. PICK i \in S : t = 0..i
  OBVIOUS
<1>4. ASSUME NEW j \in S, j < i PROVE FALSE
  <2>1. 0..j \subseteq 0..i /\ 0..j # 0..i
    BY <1>4
  <2>2. <<0..j, 0..i>> \in StrictSubsetOrdering(Nat)
    BY <2>1 DEF StrictSubsetOrdering
  <2> QED
    BY <1>2, <1>3, <2>2
<1> QED
  BY <1>4

(***************************************************************************)
(* Whatever servers are down or share names, every tool a server reported  *)
(* to a call is in the catalog when the call ends.                         *)
(***************************************************************************)
THEOREM ReportedIsListed == CatalogSpec => ReportedToolsAreListed
<1> USE CatalogAssumption
<1>1. ASSUME TInv, NEW p \in Syncs, EndSync(p), NEW i \in Places,
             NEW n \in sync[p].answers[i].tools
      PROVE  n \in CatalogNames'
  <2> DEFINE Who == {j \in Places : n \in sync[p].answers[j].tools}
  <2>1. Who \subseteq Nat /\ i \in Who
    BY <1>1 DEF Places
  <2>2. PICK j \in Who : \A k \in Who : j <= k
    BY <2>1, LeastElement
  <2>3. \A k \in 1..(j - 1) : n \notin sync[p].answers[k].tools
    BY <2>2 DEF Places
  <2>4. Merges(sync[p], j)
    BY <1>1, <2>2 DEF Merges, TInv, Sound, EndSync, CatalogTypeOK, Syncing, Found
  <2>5. CASE n \in sync[p].existing
    BY <1>1, <2>5 DEF TInv, Sound, EndSync, CatalogNames
  <2>6. CASE n \notin sync[p].existing
    <3>1. n \in NewTools(sync[p], j)
      BY <2>2, <2>3, <2>6 DEF NewTools
    <3>2. [name |-> n, server |-> j, by |-> p] \in catalog'
      BY <1>1, <2>4, <3>1 DEF EndSync
    <3> QED
      BY <3>2 DEF CatalogNames
  <2> QED
    BY <2>5, <2>6
<1>2. ASSUME TInv, [CatalogNext]_catalog_vars,
             NEW p \in Syncs, sync[p] # NoSync, sync'[p] = NoSync
      PROVE  EndSync(p)
  <2>1. ASSUME NEW q \in Syncs, StartSync(q) PROVE sync'[p] # NoSync
    <3>1. q # p /\ sync'[p] = sync[p]
      BY <1>2, <2>1 DEF StartSync, TInv, CatalogTypeOK
    <3> QED
      BY <1>2, <3>1
  <2>2. ASSUME NEW q \in Syncs, EndSync(q), q # p PROVE sync'[p] # NoSync
    BY <1>2, <2>2 DEF EndSync, TInv, CatalogTypeOK
  <2> QED
    BY <1>2, <2>1, <2>2, DiscoverTInv DEF CatalogNext, catalog_vars
<1>3. TInv /\ [CatalogNext]_catalog_vars =>
        \A p \in Syncs : sync[p] # NoSync /\ sync'[p] = NoSync =>
           \A i \in Places : sync[p].answers[i].tools \subseteq CatalogNames'
  BY <1>1, <1>2
<1> QED
  BY <1>3, TInvHolds, PTL DEF CatalogSpec, ReportedToolsAreListed

-----------------------------------------------------------------------------
(* Retention *)

(* A run's time is not in the future. *)
RInv == RetentionTypeOK /\ \A r \in Sweeps : run[r] # NoRun => run[r].now <= day

(* A statement deletes or summarises, on the rows it selects. *)
LEMMA StatementTypes ==
    ASSUME RetentionTypeOK, NEW S
    PROVE  Delete(S) \in [Records -> Record \cup {NoRecord}] /\
           (S \subseteq Recorded => Summarise(S) \in [Records -> Record \cup {NoRecord}])
<1>1. Delete(S) \in [Records -> Record \cup {NoRecord}]
  BY DEF RetentionTypeOK, Delete
<1>2. ASSUME S \subseteq Recorded PROVE Summarise(S) \in [Records -> Record \cup {NoRecord}]
  <2>1. ASSUME NEW x \in S PROVE [records[x] EXCEPT !.detail = "summary"] \in Record
    <3>1. records[x] \in Record
      BY <1>2 DEF RetentionTypeOK, Recorded, Kept
    <3> QED
      BY <3>1 DEF Record
  <2> QED
    BY <2>1 DEF RetentionTypeOK, Summarise
<1> QED
  BY <1>1, <1>2

LEMMA StatementsRInv ==
    ASSUME RInv, NEW r \in Sweeps, FirstStatement(r) \/ SecondStatement(r)
    PROVE  RInv'
<1> USE RetentionNamesAssumption DEF RInv
<1>1. run[r] # NoRun /\ run[r] \in Running
  BY DEF FirstStatement, SecondStatement, RetentionTypeOK
<1>2. records' \in [Records -> Record \cup {NoRecord}]
  <2>1. /\ SummariseInDatabase(run[r].now) \subseteq Recorded
        /\ SummariseInLedger(run[r].now) \subseteq Recorded
    BY DEF SummariseInDatabase, SummariseInLedger
  <2> QED
    BY <2>1, StatementTypes DEF FirstStatement, SecondStatement
<1>3. [run[r] EXCEPT !.step = "second"] \in Running
  BY <1>1 DEF Running
<1>4. /\ run' \in [Sweeps -> Running \cup {NoRun}]
      /\ \A q \in Sweeps : run'[q] # NoRun => run[q] # NoRun /\ run'[q].now = run[q].now
  BY <1>1, <1>3 DEF FirstStatement, SecondStatement, RetentionTypeOK, Running
<1>5. day' = day
  BY DEF FirstStatement, SecondStatement
<1> QED
  BY <1>2, <1>4, <1>5 DEF RetentionTypeOK

LEMMA RInvHolds == RetentionSpec => []RInv
<1> USE RetentionNamesAssumption DEF RInv
<1>1. RetentionInit => RInv
  BY DEF RetentionInit, RetentionTypeOK
<1>2. RInv /\ [RetentionNext]_retention_vars => RInv'
  <2> SUFFICES ASSUME RInv, [RetentionNext]_retention_vars PROVE RInv'
    OBVIOUS
  <2>1. ASSUME NEW r \in Sweeps, NEW routine \in {"ledger", "database"},
               StartRetention(r, routine)
        PROVE  RInv'
    <3>1. [routine |-> routine, now |-> day, step |-> "first"] \in Running
      BY DEF RetentionTypeOK, Running
    <3> QED
      BY <2>1, <3>1 DEF StartRetention, RetentionTypeOK
  <2>2. ASSUME NEW r \in Sweeps, FirstStatement(r) \/ SecondStatement(r) PROVE RInv'
    BY <2>2, StatementsRInv
  <2>3. ASSUME NEW r \in Sweeps, RetentionStops(r) PROVE RInv'
    BY <2>3 DEF RetentionStops, RetentionTypeOK
  <2>4. ASSUME NEW x \in Records, NEW reference \in BOOLEAN, WriteRecord(x, reference)
        PROVE  RInv'
    <3>1. [created |-> day, reference |-> reference, detail |-> "full"] \in Record
      BY DEF RetentionTypeOK, Record
    <3> QED
      BY <2>4, <3>1 DEF WriteRecord, RetentionTypeOK
  <2>5. CASE DayPasses
    <3>1. \A r \in Sweeps : run[r] # NoRun => run[r].now \in Nat
      BY DEF RetentionTypeOK, Running
    <3> QED
      BY <2>5, <3>1 DEF DayPasses, RetentionTypeOK
  <2>6. CASE UNCHANGED retention_vars
    BY <2>6 DEF retention_vars, RetentionTypeOK
  <2> QED
    BY <2>1, <2>2, <2>3, <2>4, <2>5, <2>6 DEF RetentionNext
<1> QED
  BY <1>1, <1>2, PTL DEF RetentionSpec

(* What one statement may do to a record. *)
Allowed(x) ==
    /\ x \notin Recorded' => Age(x) > Warm /\ ~records[x].reference
    /\ x \in Recorded' =>
         \/ records'[x] = records[x]
         \/ /\ Age(x) >= Hot
            /\ records'[x] = [records[x] EXCEPT !.detail = "summary"]

LEMMA StatementsAreAllowed ==
    ASSUME RInv, NEW r \in Sweeps, FirstStatement(r) \/ SecondStatement(r),
           NEW x \in Recorded
    PROVE  Allowed(x)
<1> USE RetentionAssumption, RetentionNamesAssumption
<1> DEFINE now == run[r].now
<1>1. /\ run[r] # NoRun /\ now \in Nat /\ now <= day /\ day \in Nat
      /\ x \in Records /\ records[x] \in Record /\ records[x] # NoRecord
      /\ records[x].created \in Nat
  BY DEF FirstStatement, SecondStatement, RInv, RetentionTypeOK, Running, Recorded, Kept, Record
<1>2. /\ BeforeHot(x, now) => Age(x) > Hot
      /\ BeforeWarm(x, now) => Age(x) > Warm
  BY <1>1 DEF BeforeHot, BeforeWarm, Age
<1>3. CASE records' = Delete(Purge(now))
  BY <1>1, <1>2, <1>3 DEF Delete, Purge, Allowed, Recorded, Kept
<1>4. ASSUME NEW old, records' = Summarise(old), x \in old => Age(x) >= Hot
      PROVE  Allowed(x)
  <2>1. [records[x] EXCEPT !.detail = "summary"] \in Record
    BY <1>1 DEF Record
  <2> QED
    BY <1>1, <1>4, <2>1 DEF Summarise, Allowed, Recorded, Kept
<1>5. CASE records' = Summarise(SummariseInLedger(now))
  <2>1. x \in SummariseInLedger(now) => Age(x) >= Hot
    BY <1>1 DEF SummariseInLedger, Age
  <2> QED
    BY <1>4, <1>5, <2>1
<1>6. CASE records' = Summarise(SummariseInDatabase(now))
  <2>1. x \in SummariseInDatabase(now) => Age(x) >= Hot
    BY <1>1 DEF SummariseInDatabase, BeforeHot, Age
  <2> QED
    BY <1>4, <1>6, <2>1
<1>7. run[r].routine \in {"ledger", "database"}
  BY <1>1 DEF RInv, RetentionTypeOK, Running
<1> QED
  BY <1>3, <1>5, <1>6, <1>7 DEF FirstStatement, SecondStatement

(***************************************************************************)
(* Any runs of the two routines, however they overlap and wherever they    *)
(* stop, leave young records their detail, and references in the table.    *)
(***************************************************************************)
THEOREM YoungRecordsAreSpared == RetentionSpec => RetentionSparesTheYoung
<1>1. RInv /\ [RetentionNext]_retention_vars => \A x \in Recorded : Allowed(x)
  <2> SUFFICES ASSUME RInv, [RetentionNext]_retention_vars, NEW x \in Recorded
               PROVE  Allowed(x)
    OBVIOUS
  <2>1. ASSUME NEW r \in Sweeps, FirstStatement(r) \/ SecondStatement(r) PROVE Allowed(x)
    BY <2>1, StatementsAreAllowed
  <2>2. ASSUME NEW y \in Records, NEW reference \in BOOLEAN, WriteRecord(y, reference)
        PROVE  records'[x] = records[x]
    BY <2>2 DEF WriteRecord, Recorded, Kept, RInv, RetentionTypeOK
  <2>3. ASSUME records'[x] = records[x] PROVE Allowed(x)
    BY <2>3 DEF Allowed, Recorded, Kept
  <2> QED
    BY <2>1, <2>2, <2>3 DEF RetentionNext, retention_vars, StartRetention,
                            RetentionStops, DayPasses
<1>2. RInv /\ [RetentionNext]_retention_vars =>
        \A x \in Recorded :
            /\ x \notin Recorded' => Age(x) > Warm /\ ~records[x].reference
            /\ x \in Recorded' =>
                 \/ records'[x] = records[x]
                 \/ /\ Age(x) >= Hot
                    /\ records'[x] = [records[x] EXCEPT !.detail = "summary"]
  BY <1>1 DEF Allowed
<1> QED
  BY <1>2, RInvHolds, PTL DEF RetentionSpec, RetentionSparesTheYoung

-----------------------------------------------------------------------------
(* SchemaSetup *)

(* A migration has the tables of the texts it has passed. *)
MigratedSoFar ==
    \A i \in 1..7 : i < migrating /\ MigrateOrder[i] \in Schemas => MigrateOrder[i] \in tables

(* A seeding without an outage has the rows of the texts it has passed. *)
SeededSoFar ==
    whole => /\ migrated
             /\ \A i \in 1..6 : seeding = 0 \/ i < seeding => SeedOrder[i] \in rows
             /\ seeding = 0 => SeededPlans \ answered \subseteq pending

SInv ==
    /\ SetupTypeOK /\ MigratedSoFar /\ SeededSoFar
    /\ migrated => tables = Schemas

LEMMA Orders ==
    /\ MigrateOrder[1] = "brain" /\ MigrateOrder[2] = "agents" /\ MigrateOrder[3] = "plan"
    /\ MigrateOrder[4] = "mcp" /\ MigrateOrder[5] = "process" /\ MigrateOrder[6] = "admin"
    /\ MigrateOrder[7] = "board" /\ Len(MigrateOrder) = 7
    /\ SeedOrder[1] = "plan" /\ SeedOrder[2] = "agents" /\ SeedOrder[3] = "mcp"
    /\ SeedOrder[4] = "brain" /\ SeedOrder[5] = "experience" /\ SeedOrder[6] = "board"
    /\ Len(SeedOrder) = 6
  BY DEF MigrateOrder, SeedOrder

(* A text of the migration takes effect whole, or ends it. *)
LEMMA MigrateTextSInv ==
    ASSUME SInv, MigrateText
    PROVE  SInv'
<1> USE DEF SInv
<1> DEFINE s == MigrateOrder[migrating]
<1>1. /\ migrating \in 1..7 /\ s \in Schemas \cup {"process", "admin"}
      /\ UNCHANGED <<rows, pending, seeding, whole, answered, cuts>>
  BY Orders DEF MigrateText, SetupTypeOK, Schemas
<1>2. CASE Migrates(s)
  <2>1. /\ schemas' = schemas \cup (IF CreatesSchema(s) THEN {s} ELSE {})
        /\ tables' = tables \cup ({s} \ {"process", "admin"})
        /\ migrating' = IF migrating = 7 THEN 0 ELSE migrating + 1
        /\ migrated' = (migrated \/ migrating = 7)
    BY <1>2, Orders DEF MigrateText
  <2>2. tables' \subseteq Schemas /\ schemas' \subseteq Schemas /\ tables' \subseteq schemas'
    BY <1>1, <1>2, <2>1 DEF SetupTypeOK, Migrates, Reserved, CreatesSchema, Schemas
  <2>3. SetupTypeOK'
    BY <1>1, <2>1, <2>2, Orders DEF SetupTypeOK
  <2>4. \A i \in 1..7 : i <= migrating /\ MigrateOrder[i] \in Schemas => MigrateOrder[i] \in tables'
    <3> SUFFICES ASSUME NEW i \in 1..7, i <= migrating, MigrateOrder[i] \in Schemas
                 PROVE  MigrateOrder[i] \in tables'
      OBVIOUS
    <3>1. CASE i < migrating
      BY <2>1, <3>1 DEF MigratedSoFar
    <3>2. CASE i = migrating
      BY <2>1, <3>2 DEF Schemas
    <3> QED
      BY <1>1, <3>1, <3>2
  <2>5. MigratedSoFar'
    BY <1>1, <2>1, <2>4 DEF MigratedSoFar
  <2>6. SeededSoFar'
    BY <1>1, <2>1 DEF SeededSoFar, SetupTypeOK
  <2>7. CASE migrating = 7
    <3>1. Schemas \subseteq tables'
      BY <2>4, <2>7, Orders DEF Schemas
    <3> QED
      BY <2>2, <2>3, <2>5, <2>6, <3>1
  <2>8. CASE migrating # 7
    BY <2>1, <2>2, <2>3, <2>5, <2>6, <2>8
  <2> QED
    BY <2>7, <2>8
<1>3. CASE ~Migrates(s)
  <2>1. migrating' = 0 /\ UNCHANGED <<schemas, tables, migrated>>
    BY <1>3 DEF MigrateText
  <2> QED
    BY <1>1, <2>1, Orders DEF SetupTypeOK, MigratedSoFar, SeededSoFar
<1> QED
  BY <1>2, <1>3

(* After a complete migration a text fails only if its rows are there. *)
LEMMA SeedTextSInv ==
    ASSUME SInv, SeedText
    PROVE  SInv'
<1> USE DEF SInv
<1> DEFINE text == SeedOrder[seeding]
<1>1. /\ seeding \in 1..6 /\ text \in Texts
      /\ seeding' = (IF seeding < 6 THEN seeding + 1 ELSE 0)
      /\ UNCHANGED <<schemas, tables, migrating, migrated, whole, cuts>>
  BY Orders DEF SeedText, NextText, SetupTypeOK, Texts
<1>2. /\ rows \subseteq rows' /\ rows' \subseteq Texts
      /\ pending' \subseteq SeededPlans /\ answered' \subseteq SeededPlans
  BY <1>1 DEF SeedText, SeedRows, SetupTypeOK
<1>3. SetupTypeOK'
  BY <1>1, <1>2, Orders DEF SetupTypeOK
<1>4. MigratedSoFar'
  BY <1>1 DEF MigratedSoFar
<1>5. ASSUME whole PROVE text \in rows'
  <2>1. Home(text) \in tables
    BY <1>1, <1>5, Orders DEF SeededSoFar, Home, Texts, Schemas
  <2>2. text \in rows \/ Succeeds(text)
    BY <2>1 DEF Succeeds
  <2> QED
    BY <1>2, <2>2 DEF SeedText, SeedRows
<1>6. ASSUME whole, seeding = 6 PROVE SeededPlans \ answered' \subseteq pending'
  <2>1. text = "board"
    BY <1>6, Orders
  <2>2. Succeeds(text)
    BY <1>6, <2>1 DEF SeededSoFar, Succeeds, Home, Repeatable, Schemas
  <2> QED
    BY <2>1, <2>2 DEF SeedText, SeedRows
<1>7. ASSUME whole, NEW i \in 1..6, seeding' = 0 \/ i < seeding' PROVE SeedOrder[i] \in rows'
  <2>1. i <= seeding
    BY <1>1, <1>7
  <2>2. CASE i = seeding
    BY <1>5, <1>7, <2>2
  <2>3. CASE i < seeding
    BY <1>2, <1>7, <2>3 DEF SeededSoFar
  <2> QED
    BY <1>1, <2>1, <2>2, <2>3
<1>8. SeededSoFar'
  BY <1>1, <1>6, <1>7 DEF SeededSoFar
<1> QED
  BY <1>1, <1>3, <1>4, <1>8

LEMMA SInvHolds == SetupSpec => []SInv
<1> USE Orders, SetupNumbersAssumption DEF SInv
<1>1. SetupInit => SInv
  <2> SUFFICES ASSUME SetupInit PROVE SInv
    OBVIOUS
  <2>1. SetupTypeOK
    <3>1. 0 \in 0..Len(MigrateOrder) /\ 0 \in 0..Len(SeedOrder) /\ 0 \in 0..MaxCuts
      OBVIOUS
    <3>2. migrated \in BOOLEAN /\ whole \in BOOLEAN
      BY DEF SetupInit
    <3> QED
      BY <3>1, <3>2 DEF SetupInit, SetupTypeOK
  <2>2. MigratedSoFar
    BY DEF SetupInit, MigratedSoFar
  <2>3. SeededSoFar /\ ~migrated
    BY DEF SetupInit, SeededSoFar
  <2> QED
    BY <2>1, <2>2, <2>3
<1>2. SInv /\ [SetupNext]_setup_vars => SInv'
  <2> SUFFICES ASSUME SInv, [SetupNext]_setup_vars PROVE SInv'
    OBVIOUS
  <2>1. CASE StartMigration \/ CutMigration
    <3>1. /\ migrating' \in 0..1 /\ cuts' \in 0..MaxCuts
          /\ UNCHANGED <<schemas, tables, rows, pending, seeding, migrated, whole, answered>>
      BY <2>1 DEF StartMigration, CutMigration, database, SetupTypeOK
    <3>2. SetupTypeOK'
      BY <3>1 DEF SetupTypeOK
    <3>3. MigratedSoFar'
      BY <3>1 DEF MigratedSoFar
    <3>4. SeededSoFar'
      BY <3>1 DEF SeededSoFar
    <3> QED
      BY <3>1, <3>2, <3>3, <3>4
  <2>2. CASE MigrateText
    BY <2>2, MigrateTextSInv
  <2>3. CASE StartSeeding \/ CutSeeding
    <3>1. /\ seeding' \in 0..1 /\ cuts' \in 0..MaxCuts
          /\ UNCHANGED <<schemas, tables, rows, pending, migrating, migrated, answered>>
      BY <2>3 DEF StartSeeding, CutSeeding, database, SetupTypeOK
    <3>2. whole' \in BOOLEAN /\ (whole' => migrated)
      <4>1. CASE StartSeeding
        BY <4>1, Zenon DEF StartSeeding, SetupTypeOK
      <4>2. CASE CutSeeding
        BY <4>2 DEF CutSeeding
      <4> QED
        BY <2>3, <4>1, <4>2
    <3>3. whole' => seeding' = 1
      BY <2>3 DEF StartSeeding, CutSeeding
    <3>4. SetupTypeOK'
      BY <3>1, <3>2 DEF SetupTypeOK
    <3>5. MigratedSoFar'
      BY <3>1 DEF MigratedSoFar
    <3>6. SeededSoFar'
      BY <3>1, <3>2, <3>3 DEF SeededSoFar
    <3> QED
      BY <3>1, <3>4, <3>5, <3>6
  <2>4. CASE SeedText
    BY <2>4, SeedTextSInv
  <2>5. ASSUME NEW s \in Schemas, CreateSchema(s) PROVE SInv'
    BY <2>5 DEF CreateSchema, SetupTypeOK, MigratedSoFar, SeededSoFar
  <2>6. ASSUME NEW id \in SeededPlans, Decide(id) PROVE SInv'
    BY <2>6 DEF Decide, SetupTypeOK, MigratedSoFar, SeededSoFar
  <2>7. CASE UNCHANGED setup_vars
    BY <2>7 DEF setup_vars, database, SetupTypeOK, MigratedSoFar, SeededSoFar
  <2> QED
    BY <2>1, <2>2, <2>3, <2>4, <2>5, <2>6, <2>7 DEF SetupNext
<1> QED
  BY <1>1, <1>2, PTL DEF SetupSpec

(***************************************************************************)
(* Any number of outages, any seeded plans: what earlier runs left is      *)
(* repaired by a run that meets none.                                      *)
(***************************************************************************)
THEOREM SetupIsRepaired == SetupSpec => []SetupConverges
<1>1. SInv => SetupConverges
  <2> SUFFICES ASSUME SInv, whole, seeding = 0 PROVE rows = Texts
    BY DEF SInv, SeededSoFar, SetupConverges
  <2>1. Texts \subseteq rows
    BY Orders DEF SInv, SeededSoFar, Texts
  <2> QED
    BY <2>1 DEF SInv, SetupTypeOK
<1> QED
  BY <1>1, SInvHolds, PTL
-----------------------------------------------------------------------------
(* All seven services *)

(***************************************************************************)
(* The services share no state: each one's part of any behaviour of all    *)
(* seven is a behaviour of its own specification, so that what is proved   *)
(* of a service alone holds beside the others.                             *)
(***************************************************************************)
THEOREM ServicesAreIndependent ==
    ServicesSpec => /\ CacheSpec /\ MonitorSpec /\ SetupSpec /\ DegradationSpec
                    /\ WeightsSpec /\ CatalogSpec /\ RetentionSpec
<1>1. ServicesSpec => CacheSpec
  <2>1. ServicesInit => CacheInit
    BY DEF ServicesInit
  <2>2. [ServicesNext]_mc_vars => [CacheNext]_cache_vars
    BY DEF ServicesNext, Others, mc_vars
  <2> QED
    BY <2>1, <2>2, PTL DEF ServicesSpec, CacheSpec
<1>2. ServicesSpec => MonitorSpec
  <2>1. ServicesInit => MonitorInit
    BY DEF ServicesInit
  <2>2. [ServicesNext]_mc_vars => [MonitorNext]_monitor_vars
    BY DEF ServicesNext, Others, mc_vars
  <2> QED
    BY <2>1, <2>2, PTL DEF ServicesSpec, MonitorSpec
<1>3. ServicesSpec => SetupSpec
  <2>1. ServicesInit => SetupInit
    BY DEF ServicesInit
  <2>2. [ServicesNext]_mc_vars => [SetupNext]_setup_vars
    BY DEF ServicesNext, Others, mc_vars
  <2> QED
    BY <2>1, <2>2, PTL DEF ServicesSpec, SetupSpec
<1>4. ServicesSpec => DegradationSpec
  <2>1. ServicesInit => DegradationInit
    BY DEF ServicesInit
  <2>2. [ServicesNext]_mc_vars => [DegradationNext]_degradation_vars
    BY DEF ServicesNext, Others, mc_vars
  <2> QED
    BY <2>1, <2>2, PTL DEF ServicesSpec, DegradationSpec
<1>5. ServicesSpec => WeightsSpec
  <2>1. ServicesInit => WeightsInit
    BY DEF ServicesInit
  <2>2. [ServicesNext]_mc_vars => [WeightsNext]_weights_vars
    BY DEF ServicesNext, Others, mc_vars
  <2> QED
    BY <2>1, <2>2, PTL DEF ServicesSpec, WeightsSpec
<1>6. ServicesSpec => CatalogSpec
  <2>1. ServicesInit => CatalogInit
    BY DEF ServicesInit
  <2>2. [ServicesNext]_mc_vars => [CatalogNext]_catalog_vars
    BY DEF ServicesNext, Others, mc_vars
  <2> QED
    BY <2>1, <2>2, PTL DEF ServicesSpec, CatalogSpec
<1>7. ServicesSpec => RetentionSpec
  <2>1. ServicesInit => RetentionInit
    BY DEF ServicesInit
  <2>2. [ServicesNext]_mc_vars => [RetentionNext]_retention_vars
    BY DEF ServicesNext, Others, mc_vars
  <2> QED
    BY <2>1, <2>2, PTL DEF ServicesSpec, RetentionSpec
<1> QED
  BY <1>1, <1>2, <1>3, <1>4, <1>5, <1>6, <1>7

(***************************************************************************)
(* The state of every service keeps its types, for all sizes of each.      *)
(***************************************************************************)
THEOREM ServicesAreTyped == ServicesSpec => []ServicesTypeOK
<1>1. DInv /\ (WeightsTypeOK /\ UpdatesMergeUntilARead) /\ TInv /\ RInv /\ SInv
        /\ CacheTypeOK /\ MonitorTypeOK => ServicesTypeOK
  BY DEF DInv, TInv, RInv, SInv, ServicesTypeOK
<1> QED
  BY <1>1, ServicesAreIndependent, CacheIsTyped, MonitorIsTyped, DInvHolds, WeightsInvHolds,
     TInvHolds, RInvHolds, SInvHolds, PTL
=============================================================================
