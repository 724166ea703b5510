------------------------------ MODULE MCServices ------------------------------
(* Seven services that share no state, each on its own small instance: the  *)
(* initial state chooses which of them runs, the others keep their initial  *)
(* state, so that the run explores the union of their behaviours.           *)
EXTENDS McpCache, EngineMonitor, SchemaSetup, Degradation, BoardWeights, CatalogSync, Retention

CONSTANTS stock, alice, bob, order, late, third, boeing, sap, odoo, ebs, plm, rag,
          cost, delivery, lookup, create, first, second, plan

MCCacheKeys == {stock}
MCClients == {alice, bob}
MCThreads == {order, late, third}
MCSeededPlans == {boeing}
MCErpServers == {sap, odoo, ebs, plm}
MCFields == {cost, delivery}
MCPuttable == {7, 8}
MCNames == {lookup, create}
MCSourceTools == {lookup}
MCSweeps == {first, second}
MCRecords == {plan}

VARIABLE service \* the service that runs

Services == {"cache", "monitor", "setup", "degradation", "weights", "catalog", "retention"}

mc_vars == <<cache_vars, monitor_vars, setup_vars, degradation_vars, weights_vars,
             catalog_vars, retention_vars, service>>

(* The services with a step of their own, all others standing still. *)
Others(mine) ==
    /\ UNCHANGED service
    /\ mine # "cache" => UNCHANGED cache_vars
    /\ mine # "monitor" => UNCHANGED monitor_vars
    /\ mine # "setup" => UNCHANGED setup_vars
    /\ mine # "degradation" => UNCHANGED degradation_vars
    /\ mine # "weights" => UNCHANGED weights_vars
    /\ mine # "catalog" => UNCHANGED catalog_vars
    /\ mine # "retention" => UNCHANGED retention_vars

ServicesInit ==
    /\ service \in Services
    /\ CacheInit /\ MonitorInit /\ SetupInit /\ DegradationInit
    /\ WeightsInit /\ CatalogInit /\ RetentionInit

ServicesNext ==
    \/ service = "cache" /\ CacheNext /\ Others("cache")
    \/ service = "monitor" /\ MonitorNext /\ Others("monitor")
    \/ service = "setup" /\ SetupNext /\ Others("setup")
    \/ service = "degradation" /\ DegradationNext /\ Others("degradation")
    \/ service = "weights" /\ WeightsNext /\ Others("weights")
    \/ service = "catalog" /\ CatalogNext /\ Others("catalog")
    \/ service = "retention" /\ RetentionNext /\ Others("retention")

(* MonitorFairness asks for its steps only while the monitor runs. *)
ServicesSpec == ServicesInit /\ [][ServicesNext]_mc_vars /\ MonitorFairness

(* The state of every service keeps its types. *)
ServicesTypeOK ==
    /\ CacheTypeOK /\ MonitorTypeOK /\ SetupTypeOK /\ DegradationTypeOK
    /\ WeightsTypeOK /\ CatalogTypeOK /\ RetentionTypeOK
=============================================================================
