----------------------------- MODULE CatalogSync -----------------------------
(***************************************************************************)
(* ConnectorRegistry.sync_tool_catalog (connectors/registry.py): the tools *)
(* the MCP servers report are merged into TOOL_CATALOG.                    *)
(*                                                                         *)
(* A synchronisation notes the names in the catalog, lets gather ask every *)
(* enabled server, and merges the answers without an await.  The steps of  *)
(* one discovery (connect, list_tools, disconnect) are those of the        *)
(* connector (see ToolCall); here a server answers or does not.            *)
(***************************************************************************)
EXTENDS Integers, FiniteSets

CONSTANTS
    Connectors,  \* number of enabled connectors, numbered as registered
    Names,       \* tool names
    SourceTools, \* those of TOOL_CATALOG's text
    Syncs,       \* concurrent calls of sync_tool_catalog
    Source,      \* who put the entries of the text there
    NoSync,      \* a call that is not running
    Unanswered   \* a server that has not answered yet

Places == 1..Connectors

Listed == [name : Names, server : Places \cup {Source}, by : Syncs \cup {Source}]
Found == [connected : BOOLEAN, tools : SUBSET Names]
Syncing == [existing : SUBSET Names, answers : [Places -> Found \cup {Unanswered}]]

ASSUME CatalogAssumption ==
    /\ Connectors \in Nat /\ SourceTools \subseteq Names
    /\ Source \notin Syncs \cup Places /\ NoSync \notin Syncing /\ Unanswered \notin Found

VARIABLES
    catalog, \* TOOL_CATALOG: a name, its server, the call that added it
    sync,    \* existing_names and discovery_results of each call
    crossed  \* history: a call has begun while another one ran

catalog_vars == <<catalog, sync, crossed>>

CatalogTypeOK ==
    /\ catalog \subseteq Listed
    /\ sync \in [Syncs -> Syncing \cup {NoSync}]
    /\ crossed \in BOOLEAN

CatalogNames == {e.name : e \in catalog}

-----------------------------------------------------------------------------
StartSync(p) ==
    /\ sync[p] = NoSync
    /\ sync' = [sync EXCEPT ![p] =
           [existing |-> CatalogNames, answers |-> [i \in Places |-> Unanswered]]]
    /\ crossed' = (crossed \/ \E q \in Syncs : sync[q] # NoSync)
    /\ UNCHANGED catalog

(* discover_server_tools catches every exception: one of list_tools leaves *)
(* a server that is connected and has no tools.                            *)
Discover(p, i) ==
    /\ sync[p] # NoSync /\ sync[p].answers[i] = Unanswered
    /\ \E found \in Found :
        /\ ~found.connected => found.tools = {}
        /\ sync' = [sync EXCEPT ![p].answers[i] = found]
    /\ UNCHANGED <<catalog, crossed>>

OnlyFirstServers(s, i) == \A j \in 1..i : s.answers[j].connected \* mutant

(* A server that was not reached is skipped. *)
Merges(s, i) == s.answers[i].connected

EveryServer(s, i) == {n \in s.answers[i].tools : n \notin s.existing} \* mutant

(* The loop over the servers: the first that reports a name keeps it. *)
NewTools(s, i) ==
    {n \in s.answers[i].tools :
        n \notin s.existing /\ \A j \in 1..(i - 1) : n \notin s.answers[j].tools}

EndSync(p) ==
    /\ sync[p] # NoSync
    /\ \A i \in Places : sync[p].answers[i] # Unanswered
    /\ catalog' = catalog \cup
           UNION {{[name |-> n, server |-> i, by |-> p] : n \in NewTools(sync[p], i)} :
                      i \in {j \in Places : Merges(sync[p], j)}}
    /\ sync' = [sync EXCEPT ![p] = NoSync]
    /\ UNCHANGED crossed

(* A name that the text lists for several servers is one entry here.       *)
CatalogInit ==
    /\ catalog = {[name |-> n, server |-> Source, by |-> Source] : n \in SourceTools}
    /\ sync = [p \in Syncs |-> NoSync]
    /\ crossed = FALSE

CatalogNext ==
    \E p \in Syncs : StartSync(p) \/ (\E i \in Places : Discover(p, i)) \/ EndSync(p)

CatalogSpec == CatalogInit /\ [][CatalogNext]_catalog_vars

-----------------------------------------------------------------------------
(* Properties *)

(***************************************************************************)
(* However often the catalog is synchronised and whatever servers share    *)
(* names, no tool is entered beside another of its name, as long as no two *)
(* calls overlap: the names are noted before the await and not looked up   *)
(* again after it (sync_tool_catalog, 200-233).                            *)
(***************************************************************************)
ToolsAreListedOnce ==
    ~crossed => \A e, f \in catalog : e.name = f.name => e = f

(***************************************************************************)
(* A server that is down hides no other server's tools: when a call ends,  *)
(* every tool some server reported to it is in the catalog                 *)
(* (discover_all_tools 158-184, sync_tool_catalog 205-233).                *)
(***************************************************************************)
ReportedToolsAreListed ==
    [][\A p \in Syncs : sync[p] # NoSync /\ sync'[p] = NoSync =>
           \A i \in Places : sync[p].answers[i].tools \subseteq CatalogNames']_catalog_vars
=============================================================================
