# A verification development for AXON

AXON plans supply-chain work with a group of agents. Connectors talk to ERP
systems over MCP, a graph of nodes (the planning cycle) collects demands, lets
the agents propose, negotiates their conflicts and approves the plan or puts it
before a human, and a ledger remembers the plans. This directory holds TLA+
models of the parts that decide something, TLC runs that check them on small
instances, and TLAPS proofs of their main properties for every instance.
`PROJECT.json` is the index: components, runs, the source lines behind each
definition, hazards, findings, theorems. Source paths below are relative to
`src/src/axon/`.

## 1. Inventory

| Component | State it keeps | Operations | Module |
|---|---|---|---|
| Circuit breaker (`connectors/circuit_breaker.py`) | state, failure count, time of the last failure | allow_call, record_success, record_failure, force_open, reset | `CircuitBreaker` |
| Tool call (`connectors/base.py`) | the MCP session and transport, the breaker, the cache entry | _call_tool with attempts, connect, disconnect, reconnect | `ToolCall` |
| MCP response cache (`connectors/cache.py`) | Redis and an in-memory dictionary, TTLs | get, set, invalidate, clear | `McpCache`; one bit of it in `ToolCall` |
| Write gate (`connectors/write_gate.py`) | pending approvals by call key, audit log | requires_hitl, gate_write_call, approve_pending_write | `WriteGate`, `Approvals` |
| Agents' tools (`agents/tools.py`) | none | _write_fn, read tools | `AgentTools` |
| Conflict resolver (`orchestrator/conflict_resolver.py`) | round counter, amendments on the proposals | detect_conflicts, auction, tiebreaker, resolve | `ConflictResolver`, `Negotiation` |
| Planning graph (`orchestrator/master_graph.py`) | the LangGraph state of a cycle | FETCH, TRANSFORM, REASON, NEGOTIATE, APPROVE, EXECUTIVE, LEARN, routing | `PlanningCycle`, `ExecutiveEscalation` |
| Escalation scoring (`core/escalation.py`) | none | needs_hitl, compute_severity_from_state | in `PlanningCycle` |
| Experience Ledger (`core/learning/ledger.py`, `database.py`) | experience_records, plan_traces | record, outcomes, similarity search, retention | record in `PlanningCycle`, retention in `Retention` |
| Approval queue (`dashboard/backend/notifications.py`, `routes.py`, `board_repo.py`) | dictionary in memory, table hitl_queue, audit trail | notify_pending_approval, pop, approve_or_reject | `PlanningCycle` |
| Business weights (`dashboard/backend/routes.py`) | a module variable and a table | get, update, reset | `BoardWeights` |
| Engine monitor, escalation API (`dashboard/backend/engine_monitor.py`, `escalation_api.py`) | registry of threads | register, mark, prune, start, resume | `EngineMonitor` |
| Degradation monitor (`connectors/circuit_breaker.py`) | the level | register, evaluate | `Degradation` |
| Registry, discovery (`connectors/registry.py`, `discovery.py`) | tool catalog | discover, merge | `CatalogSync` |
| Schema and seeds (`core/schema/migrate.py`, `seed.py`) | the database | migrate, seed | `SchemaSetup` |
| RBAC (`connectors/rbac.py`), supervisor, agents, ERP connectors, memory store, configuration, simulator, frontend | none or inputs | | not modelled, see section 7 |

How they interact: a planning cycle calls connectors through `_call_tool`
(breaker, cache, session), the agents call WRITE tools through their own
functions, NEGOTIATE calls the resolver, APPROVE scores the plan, awaits the
ledger and calls the dashboard's queue in the same process, and the dashboard's
HTTP handlers take plans out of that queue. Everything runs on one asyncio
event loop. So steps interleave at awaits only, and between two awaits a
function is atomic; each model's actions end where the code awaits. Processes
stop and restart, and what lives in memory (queue, pending writes, sessions,
breakers) is gone then; only PostgreSQL and Redis survive.

What is hard to test here, and what makes each part correct:

* **Breaker and tool call.** Several calls are in flight when the breaker trips
  and report to it later; one caller's reconnection takes away the session of
  another. Correct means: the server is left alone for the cooldown before a
  probe, the counter counts consecutive failures only, one call is one call for
  the breaker however many attempts it makes, a tool does not run more often
  than there are attempts, an open breaker and a running call both come to an
  end.
* **Write gate.** Requests, retries of the same request, approvals, refusals and
  executions overlap; rules, hashing and cancellation leave by exceptions.
  Correct means: no write the documents gate without an approval of its key, one
  execution per approval, one audit record per request that is not cut short.
* **Negotiation.** Conflicts are judged pairwise with random ties. Correct
  means: the verdict is true of the proposals, nobody loses to a lower bid,
  every conflict leaves a mark, the loop ends.
* **Planning cycle, ledger and queue.** Database calls fail before or after
  they have taken effect, reviewers race, LangGraph merges only what a node
  returns, the process restarts. Correct means: nothing harmful is learned as
  approved, a cycle is recorded once, a plan is decided once, no plan that
  waits for its review is lost, the audit trail holds no decision that was not
  offered, the cycle ends without the reviewer.
* **Cache.** Two stores count the same TTL from different moments, writes arrive
  late or twice, sets and invalidations overlap. Correct means: nothing is
  served long after its TTL, and what was invalidated stays away.
* **Thread registry.** Requests share a thread's id, runs end in any order, and
  listings prune. Correct means: a thread shown as running is run by somebody,
  and pruning takes finished threads only.
* **Scripts, catalog, weights, level, retention.** They are run again, cut
  short, or overlap. Correct means: another run repairs, a tool is listed once,
  partial updates add up, a further failure never lowers the alarm, a record
  younger than the policy's ages keeps its detail and its row.

## 2. Modules and how they correspond to the code

**`CircuitBreaker`** has one action per method of the class. `state`,
`failure_count` and `last_failure_age` are its fields; the date is kept as an
age, since the code only compares it with the cooldown, and the age and the
counter saturate where that comparison stops changing. `streak` and `calling`
are history: the failures since the last success and the calls in flight. The
caller's actions `Begin`, `Rejected`, `Succeed`, `Fail` and `Leave` are the use
of the breaker that its doc string shows. This module is also the abstract
specification that `ToolCall` implements.

**`ToolCall`** is `_call_tool` cut at every await: `Unconnected` (the assertion
at line 233), `Rejected` or `Admitted` (the breaker), `CacheHit` or `CacheMiss`,
`ServerRuns`, `Answered`, `Stored`, and where an attempt fails `AttemptFails` or
`CallFails`; between two attempts the steps of `reconnect()`: `CloseSession`,
`ReleaseTransport`, `OpenTransport`, `Initialize`, each of which can raise
(`CloseSessionRaises`, `ReconnectRaises`), which the code suppresses.
`session` is `self._session`, with who made it and whether it is usable.
`CB == INSTANCE CircuitBreaker WITH calling <- Outstanding` gives the refinement
mapping: the callers the breaker has admitted and that owe it an outcome.

**`WriteGate`** has one action per way through `gate_write_call` and two for
`approve_pending_write`: `Queue`, `StartApproved`, `StartUngated`, `NoCallFn`,
`End`, and the two that leave no audit record, `GateRaises` (`float()` on what is
no number, line 116, or arguments that have no hash, line 193) and `Cancel`
(CancelledError, which `except Exception` at line 248 lets pass).
`requires_hitl` is translated with its thresholds, defaults and error paths;
`NeedsApproval` says apart from it what the documents want approved. `pending`
is `_pending_write_approvals`, by `ApprovalKey`: equal hashes are equal keys, as
of the prices -1 and -2, so that an approval holds for both calls. Plans are the
uuids. `decision`, `plan_key`, `uses`, `invoked`, `cancelled` are history;
`audited` counts `_audit_records`. `Approvals` is what this promises about each
plan, without the queue: requested once, reviewed until it is replaced or its
approval is spent, then closed for good. The code has no such record; its queue
is keyed by the tool and the hash of its arguments, and a plan is a field of the
entry. `Promise == INSTANCE Approvals` maps each plan to its status (`Status`:
not yet handed out, used, in the queue with its last decision, or out of it).
`AgentTools` extends `WriteGate` with what the agents' `_write_fn` really does,
which is not to call the gate.

**`ConflictResolver`** has one action per iteration of `resolve()`: `NoConflict`,
`Auction` (the whole round: every conflict with its winner, the losers' status,
the amendments) or `TiebreakerRaises`; then `Deadlock` and `Collect`
(node_negotiate). The proposals are chosen in `Init`. `Negotiation` is the
same without rounds, auctions and coins: one step whose verdict is a function
of the proposals (`RightVerdict`), and one that hands all of them on.
`Promise == INSTANCE Negotiation WITH verdict <- result, plan <- final_plan`
gives the refinement mapping.

**`PlanningCycle`** has one action per graph node; `node_approve` is `Approve`,
`Record` (the await of the ledger) and `Notify`. `LedgerRecord` is `record()`
with its four outcomes: it returns or raises, and the row is there or not.
`TakeRequest`, `RemoveRow`, `WriteAudit`, `WriteEvent` and `Answer` are
`approve_or_reject` between its awaits; `audits` and `events` count the rows of
the two best-effort writes. `Restart` empties what is in memory and `Reseed`
runs the script `seed.py` again, whose ON CONFLICT clause brings back the plans
that a decision has taken out of the table. The negotiation is one step
here, as it is in `Negotiation`, which `ConflictResolver` implements: with two
allocations for one supply it declares a deadlock or raises, otherwise it
resolves. `ExecutiveEscalation` adds `node_executive`, which no execution reaches.

**`McpCache`** splits `mcp_cache_set` and `mcp_cache_invalidate` at their awaits.
`redis` and `memory` are the two stores, `sets` the SET commands Redis may
execute now, later or twice (`retry_on_timeout`). A look-up carries nothing
across its await, so it is the operator `Servable` (what it can answer now) and
the action `DropExpired`. `made`, `born` and `revoked` are history.

**`EngineMonitor`** is the dictionary `_registry` with the order of its entries,
and the two routes that write to it, each from the registration to the `mark_*`
call after the awaited run; `List` is a listing with `_prune_if_needed`.

**`SchemaSetup`** executes the SQL texts of `migrate()` and `seed()` one by one.
A text has no arguments, so asyncpg sends it as one simple query, which
PostgreSQL takes whole or not at all. `CutMigration` and `CutSeeding` stop a
script anywhere; reviewers decide on seeded plans meanwhile.

**`Degradation`**, **`BoardWeights`**, **`CatalogSync`** and **`Retention`** are
`DegradationMonitor`, the three routes for the weights, `sync_tool_catalog` with
the discovery it gathers, and the two `apply_retention` routines, each cut at
its awaits. These seven modules share no state with one another. `MCServices`
puts them side by side, and its variable `service`, chosen in the initial state,
says which of them runs: one run, the sum of seven state spaces.

The `MC*` modules give the constants values. Definitions whose line ends in
`\* mutant` are not part of a specification: each is a plausible mistake in the
definition below it and shows that the property it is meant for can fail.

## 3. Runs

| Run | Configuration | What it shows |
|---|---|---|
| `breaker` | 3 callers, threshold 3, cooldown 3, CountCap 4; 666 states | `HalfOpenIsRested`, `ClosedCountsConsecutiveFailures`, `OpenClosesOnlyByReset`, `OpenIsTemporary` |
| `calltool` | a reader and a writer, threshold 2, cooldown 1, one retry; about 52,000 states | `RunsOncePerAttempt`, `ImplementsBreaker` (refinement), `EveryCallEnds` |
| `calltool_cached` | the same | violation of `FreshDataServedWhenOpen` |
| `calltool_stuck` | one caller, under `HealthySpec` | violation of `RecoversAfterOutage` |
| `writegate` | 2 agents, 6 calls at and beside the thresholds, with a shared key, without a key, without a number; 3 plans; 78,280 states | `GatedRunIsApproved`, `ApprovalUsedOnce`, `AuditedUnlessCutShort`, `ImplementsApprovals` (refinement) |
| `agent_writes` | the same with the agents' tools | violation of `UngatedCallIsAudited` |
| `negotiation` | 3 agents, 2 supplies, up to 4 allocations, 3 utilities, 2 rounds; 14,796 states | `ResolvedMeansConflictFree`, `LosersWereOutbid`, `EveryConflictIsJudged`, `ImplementsNegotiation` (refinement), `NegotiationEnds` |
| `negotiation_award` | the same | violation of `SupplyIsAwardedOnce` |
| `planning` | 1 cycle, 2 reviewers, 1 seeded plan, 2 restarts, 1 reseeding; 406,946 states | `ApprovedRowsAreHarmless`, `OneRowPerCycle`, `OneDecisionPerPlan`, `TrailMatchesDecisions`, `PendingPlansAreOffered`, `EveryCycleEnds` |
| `planning_record` | the same | violation of `QueuedPlansAreRecorded` |
| `executive` | the same with `node_executive` | violation of `SevereCyclesAreAssessed` |
| `services` | seven instances, see below; 268,438 states | `ServedIsFresh`, `InvalidatedStaysGone` (cache); `RunningHasARun`, `UnsharedRunIsShown`, `PruningSparesTheRunning`, `NothingRunsForever` (thread registry); `SetupConverges`; `OnlyRecoveryImproves`; `UpdatesMergeUntilARead`; `ToolsAreListedOnce`, `ReportedToolsAreListed`; `RetentionSparesTheYoung` |

Why the bounds are enough:

* *breaker*: three callers are one whose failure trips, one that probes and one
  whose outcome comes late in either state. `CountCap` is one above the
  threshold; the code only asks whether the threshold is reached.
* *calltool*: two callers suffice for one to tear down the session of the other
  in every step of its reconnection. A threshold of 2 is reached by two failed
  calls, RetryCount 1 is the default.
* *writegate*: two orders of 101 units lie above the threshold by the estimated
  price, at prices of -1 and -2, and share a key; an order of 9,990 lies below;
  a shift of 7 days is at the limit; a quantity that is no number makes the rules
  raise; a job moved to a list for a date is gated and has no key. `MaxCalls` is
  two for the two orders and the shift (four requests under the shared key:
  queued, approved, run, queued again) and one for the others; `MaxPlans`
  allows three requests to replace one another.
* *negotiation*: three users of one supply, an agent in conflict with itself
  and two disputed supplies all fit into four allocations; three utilities give
  every order of three bids; `Weightless` = {1, 2} gives a tie that raises, one
  that is decided, and a certain winner. `MaxRounds` = 2 has a first, a last and
  no further round, and no round changes the conflicts.
* *planning*: priorities and scores are those on either side of each threshold
  (80/81, 2000/2001; a deadlock raises the score above DIRECTOR_MAX). The
  cycle's plan and the seed compete for two requests, and one reseeding offers
  the seed a second time, before, during or after its first decision. Cycles touch one
  another only in the ledger and the queue, under ids of their own, so a second
  cycle adds interleavings (above a million states) but no conflict; the
  theorems hold for any number. `MaxRestarts` = 2 allows a restart before and
  after a decision.
* *services*: the cache has one key, on which two clients set and invalidate
  (with the key, or as all calls of the tool), two responses, TTL and delay of
  one second and three seconds: a response can be stored late, be executed
  twice, expire and be missed in one store only. Three threads above a limit of
  one make both branches of the pruning act, with one finished thread too many
  or two; two requests can share a thread. Two cuts hit both scripts, or one
  twice. Four ERP servers and the RAG server give every count `evaluate` tells
  apart, with none, one, two and all down. Two fields and two values let one
  update leave a field out. Two connectors, two names (one in the text) and two
  calls overlap in all ways. One record and two sweeps in four days cross both
  cutoffs (1 and 2 days), with a sweep that is late by days.

`CHECK_DEADLOCK FALSE` stands where the system stops by itself: a negotiation
that is over, and agents whose calls are used up by the bound.

## 4. Fairness

Liveness properties assume only what the code's scheduling gives:

* `breaker`: time passes, each call ends (the connector has `timeout_seconds`),
  and the application goes on calling. Nothing about `force_open` and `reset`.
* `calltool`: a call in progress goes on, since every await of the transport
  returns or raises. That is an assumption about the external MCP library.
  `HealthySpec` adds, for the finding about recovery, everything one could ask
  of the environment: time, callers that go on calling, and strong fairness of
  the server's answers while it is reachable.
* `negotiation`: `resolve()` has no await, so it runs.
* `planning`: the event loop runs every cycle's next node. Nothing is assumed of
  reviewers, who may never come.
* `services`: only the requests of the escalation API that are under way end,
  since the graph's run ends or raises (`EveryCycleEnds`). Nothing is assumed of
  anything else.

## 5. Proofs

| Module | Theorems | Strengthening |
|---|---|---|
| `CircuitBreakerProofs` | `TypeCorrect`, `RestedBeforeProbe`, `ConsecutiveFailures`, `OpenIsClosedOnlyByReset`, `LateFailuresRunOut` | `IInv`: the typing and the two invariants are inductive together, since a counter below the threshold is what keeps a CLOSED breaker from having been due to trip |
| `ToolCallProofs` | `ConnectorIsTyped`, `OneRunPerAttempt`, `Refinement`, `ConnectorRestsBeforeProbe`, `ConnectorCountsCalls`, `ConnectorClosesAfterRest`, `CallsAreBounded` | a caller before its request has used up only earlier attempts, one that reconnects has attempts left, one whose tool has run has run it at least once; `NoAttemptYet`: who has not begun has no attempts behind him |
| `WriteGateProofs` | `TypeCorrect`, `NoUnapprovedWrite`, `OneExecutionPerApproval`, `ApprovalsAreKept`, `AuditMissesOnlyCutShort`, `GateKeepsThePromise`, `LargerStaysGated` | an entry of the queue belongs to its key, has an id already handed out, is unused and carries the reviewer's last word; an execution has used up its own approval; `Balanced`: requests that do not raise, less those cancelled, are the records written and the executions under way; `RulesMeetTheDocuments`: what needs approval is gated |
| `ConflictResolverProofs` | `TypeCorrect`, `VerdictIsRight`, `ConflictsAreJudged`, `AuctionIsFair`, `VerdictIsAFunction`, `NegotiationIsBounded` | a running negotiation past its first round has conflicts, each with an amended party; `Winnable`: past the first round no conflict is left that nobody can win |
| `PlanningCycleProofs` | `TypeCorrect`, `OnlyHarmlessIsApproved`, `RecordedOnce`, `DecidedOnce`, `TrailIsSound`, `ReviewsAreNotLost`, `ExecutiveIsNeverReached`, `CyclesAreBounded` | `Chosen`: what the decision left in a cycle at each node; `Written`: who wrote which row; `OneToken`: the requests that hold a plan, the queue and the decisions (or the audit rows written for it) are together no more than its offers; `Offers`: only plans under review are offered |
| `McpCacheProofs` | `CacheIsTyped`, `CacheIsFresh`, `CacheForgets` | an entry, a command or a set under way carries a response not older than the delays allow; nothing anybody may still write was revoked |
| `EngineMonitorProofs` | `MonitorIsTyped`, `RunningIsRun`, `RunIsShown`, `PruningIsSparing` | a start's thread is registered as running unless the start is shared, and a start that is not shared is alone on its thread; `Numbered`: no two threads have one place, and every place is given before `end` |
| `ServiceProofs` | `RecoveryAlone`, `UpdatesMerge`, `ListedOnce`, `ReportedIsListed`, `YoungRecordsAreSpared`, `SetupIsRepaired`, `ServicesAreIndependent`, `ServicesAreTyped` | `grade` was the level of breakers at least as healthy, unless relieved; while no calls overlap the catalog holds the noted names; a run's time is past; the texts before the next one are executed |

Each proof has the shape Init => IInv, IInv /\ [Next]_vars => IInv' (one step per
action, or one lemma where an action needs it) and IInv => property. They use
the named assumptions on the constants of each module and nothing else: any
sets of callers, calls, cycles, reviewers and keys, any finite sets of agents,
threads and servers, any ages and bounds, and any thresholds but two limits that
the code does not enforce: `ThresholdsAssumption` has the shift limit at most 999
days (a missing baseline counts as 999, and a higher limit would let such jobs
pass), `RoundsAssumption` at least one round.

Two theorems say less than one might wish, since the code does no more.
`OpenIsClosedOnlyByReset` is about OPEN alone. `ConnectorClosesAfterRest` has a
connector's breaker close only out of HALF_OPEN, after the cooldown, when some
call was answered; that call need not be the probe.

Four results are about how modules fit together:

* `Refinement` shows that every step of `ToolCall` is a step of `CircuitBreaker`
  or leaves its variables alone. What was proved of the breaker is then carried
  over to the connector: `ConnectorRestsBeforeProbe`, `ConnectorCountsCalls`.
* `VerdictIsAFunction` shows that rounds, auctions and coins do not change what
  `Negotiation` says. Its argument: no round removes an allocation or changes a
  bid, so the conflicts of the first round are those of the last, and a conflict
  that cannot be won raises in the first.
* `GateKeepsThePromise` shows the queue by calls to be a queue of plans: an
  entry's plan was made for the entry's own key, so a plan is in one place or
  none, and a request, a review or an execution touches no other plan except
  the unapproved one it replaces. `ApprovalIsNotLost`, which says less, is
  proved (`ApprovalsAreKept`) and in no run.
* `ServicesAreIndependent` shows that a behaviour of the run `services` is a
  behaviour of each of its seven modules, so that the theorems about them hold
  of the specification that TLC checks.

Only model-checked: the five liveness properties (`OpenIsTemporary`,
`EveryCallEnds`, `NegotiationEnds`, `EveryCycleEnds`, `NothingRunsForever`),
since fairness is out of TLAPS's reach. What can be proved of four of them is
that the steps fairness promises lead somewhere, as an action property with a
measure: `CallsAreBounded` (`Remaining`: what is left of the attempts, then of
the current one), `NegotiationIsBounded` (`StepsLeft`), `CyclesAreBounded`
(`Place`, how far the cycle has come) and `LateFailuresRunOut` (the calls in
flight when the breaker trips, the only ones that can set its cooldown back).
Each says that the actor's own step comes nearer to the end and that nobody
else's throws it back. `NothingRunsForever` needs no measure: a run ends with
one step of its own.

`LargerStaysGated` is about an operator: the rules of `requires_hitl` are
monotone in the quantity and in the shift. They are not in the price: 100 units
are gated without one, at the estimate of 100, and not gated at a price of 1.

## 6. Findings

* **`calltool_cached`** `_call_tool` asks the breaker before the cache, so fresh
  data is refused while the server is down, which the architecture document
  promises to use.
* **`calltool_stuck`** A reconnection that closes the session and cannot open a
  new one leaves the connector without a session; nothing reconnects outside a
  call, and no call gets past the assertion. It stays so when the server is back.
* **`agent_writes`** The agents' WRITE tools bypass the gate: executed writes
  are not audited, and a refused one is queued nowhere.
* **`negotiation_award`** The auction marks the loser and leaves its allocation
  in the plan. As a consequence every conflict ends in NEGOTIATION_DEADLOCK.
* **`planning_record`** A suppressed error inside `record`'s transaction makes
  PostgreSQL roll it back; the id of a missing row is queued for review.
* **`executive`** `node_approve` does not return the escalation level it
  computes, so `node_executive` is unreachable.

Disagreements between the code and what is written about it, or its intent, that
no run shows:

* The gate "logs every write", but three exits leave no record: the rules raise,
  the key raises, or the task is cancelled while `call_fn` runs, when the write
  may have been done (`write_gate.py:116`, `193`, `248`).
  `AuditedUnlessCutShort` says that there are no others.
* The retention policy keeps a summary only of records older than 90 days
  (`docs/architecture.md:203-205`). The ledger's UPDATE names its later cutoff
  first in BETWEEN (`ledger.py:254`), finds nothing and reports compressed = 1;
  `database.py`'s routine does summarise. `Retention` models both as they are,
  and `RetentionSparesTheYoung` asks only that the young are spared, before and
  after a repair of the range.
* A late success of a call from before the trip closes the breaker in HALF_OPEN,
  and a cache hit after the cooldown makes it HALF_OPEN without a probe
  (`circuit_breaker.py:84`, `base.py:238-248`).
* Of an amendment's fields, `conflict_alloc` is always the first agent's
  allocation, also when the second agent lost (`conflict_resolver.py:158`,
  `305-311`). The model keeps the supply it names, which is the same for both.
* `negotiation_rounds` has no lower bound (`config.py:74`); at 0 `resolve()`
  reports a deadlock without having looked for a conflict.

Not stated as properties, because no step of a run could show them or because
nothing depends on them, but worth knowing:

* The reviewer's decision is appended to a copy of the ledger row and never
  written back (`routes.py:320`), and `ledger.get` is asked by plan_id for a
  row's own id.
* `BusinessWeights` is a dataclass without `model_dump`: PUT and reset of the
  weights are never saved, and the next GET that reaches the database takes them
  back (`routes.py:160`, `173`). The planning cycle uses the weights of its
  request, never the dashboard's.
* The route for the system's health evaluates a fresh `DegradationMonitor`
  without breakers, so it always answers FULL.
* On a database without the schemas the migration raises at its first text:
  only `BOARD_SQL` creates its own. `proposal_allocations` is seeded without ON
  CONFLICT, so `axon_agents` fails whenever the script is run again; audit, KPI
  and event rows are inserted again each time.
* Two overlapping calls of `sync_tool_catalog` list a tool twice. The discovery
  it gathers disconnects the connector's shared session in its `finally`.
  Neither it nor `connect_all` nor RBAC's `enforce_tool_access` has a caller in
  `src/axon` (outside tests); the last one ignores its argument `direction`.
* `_get_pool` of the ledger and of the board checks and then awaits, so that two
  first requests may each create a pool.

## 7. What is not modelled, and why

* Prompts and language-model calls (proposals are inputs), ERP connectors and
  transformers (stateless mappings), telemetry and configuration, the simulator,
  the frontend, and the supervisor, which is not wired into the graph.
* RETRIEVE and STORE of the graph, which find no `_store` in their state and do
  nothing, and with them the memory store behind them.
* RBAC: a look-up in tables that never change.
* The ledger's queries, outcomes and similarity search, the configuration and
  KPI routes, the escalation API's status and stream (fixed answers): single
  statements or no state at all.
* Fractions and `nan` among the quantities and prices of a write: they are
  integers, or nothing `float()` reads.
* Requests for plan ids that were never offered, which get a 404 and change
  nothing (`routes.py:293`).
* Columns and constraints of the tables, other than those a step depends on.
* The examples under `src/examples`, which are programs of their own beside the
  system, and tests.

What could follow: several cache keys and tools with different TTLs in one
`ToolCall`, so that the connector's cache bit is refined by `McpCache`; the
checkpoints of the graph, if the escalation API's resume is ever wired to them;
and the pools' creation, if their limit matters.
