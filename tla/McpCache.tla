------------------------------ MODULE McpCache ------------------------------
(***************************************************************************)
(* The two stores of connectors/cache.py: Redis and the in-memory fallback.*)
(*                                                                         *)
(* mcp_cache_get looks into Redis and then, after a miss or an error, into *)
(* memory; it carries nothing from one look to the other, so that what it  *)
(* can answer now is Servable, and its only effect on the stores is        *)
(* DropExpired.  The other operations are split at every await.            *)
(*                                                                         *)
(* Redis (external) answers, answers too late or not at all.  A SET whose  *)
(* answer the client no longer waits for may still be executed, and one    *)
(* that the client repeats (retry_on_timeout) may be executed twice, but   *)
(* not later than RedisDelay after it was first sent.  A DEL that comes    *)
(* late only removes more, and is not modelled.                            *)
(***************************************************************************)
EXTENDS Integers, FiniteSets

CONSTANTS
    CacheKeys,   \* calls of one tool: keys with the prefix mcp:server:tool:
    TTL,         \* seconds the tool's responses are kept; 0 means never cached
    Clients,     \* concurrent mcp_cache_set and mcp_cache_invalidate
    RedisDelay,  \* bound: seconds an awaited command or its execution takes
    MaxValues,   \* bound: responses that are stored
    MaxTime,     \* bound: seconds
    NoEntry,     \* a key without entry
    NoRequest    \* a client without running operation

Values == 1..MaxValues

ASSUME CacheNumbersAssumption ==
    RedisDelay \in Nat /\ MaxValues \in Nat /\ MaxTime \in Nat /\ TTL \in Nat

VARIABLES
    time,
    made,    \* responses the server has given so far, numbered from 1
    born,    \* when each was given
    redis,   \* the entries in Redis
    memory,  \* _fallback_store
    sets,    \* SET commands Redis may still execute
    request, \* what each client is doing
    revoked  \* history: pairs of key and response that were invalidated

cache_vars == <<time, made, born, redis, memory, sets, request, revoked>>

Entry == [value : Values, expires : Nat]
Command == [key : CacheKeys, value : Values]
Setting == [kind : {"set"}, key : CacheKeys, value : Values]
Invalidation ==
    [kind : {"find", "delete", "forget"}, keys : SUBSET CacheKeys, found : SUBSET CacheKeys,
     old : SUBSET Values, ok : BOOLEAN]

ASSUME CacheNamesAssumption == NoEntry \notin Entry /\ NoRequest \notin Setting \cup Invalidation

CacheTypeOK ==
    /\ time \in Nat /\ made \in 0..MaxValues
    /\ born \in [Values -> Nat]
    /\ redis \in [CacheKeys -> Entry \cup {NoEntry}]
    /\ memory \in [CacheKeys -> Entry \cup {NoEntry}]
    /\ sets \subseteq Command
    /\ request \in [Clients -> Setting \cup Invalidation \cup {NoRequest}]
    /\ revoked \subseteq CacheKeys \X Values

Doing(p, kind) == request[p] # NoRequest /\ request[p].kind = kind

(* Nobody will write the response any more. *)
Settled(v) ==
    /\ v <= made
    /\ \A c \in sets : c.value # v
    /\ \A p \in Clients : Doing(p, "set") => request[p].value # v

-----------------------------------------------------------------------------
(* mcp_cache_get *)

LiveInMemoryForever(entry) == TRUE \* mutant

(* Redis removes an entry when its time comes, memory one second after. *)
LiveInRedis(entry) == time < entry.expires
LiveInMemory(entry) == time <= entry.expires

Servable(k) ==
    {e.value : e \in {x \in {redis[k]} \ {NoEntry} : LiveInRedis(x)}
                     \cup {x \in {memory[k]} \ {NoEntry} : LiveInMemory(x)}}

(* The look into memory finds an entry that is too old. *)
DropExpired(k) ==
    /\ memory[k] # NoEntry /\ ~LiveInMemory(memory[k])
    /\ memory' = [memory EXCEPT ![k] = NoEntry]
    /\ UNCHANGED <<time, made, born, redis, sets, request, revoked>>

-----------------------------------------------------------------------------
(* mcp_cache_set, which _call_tool calls with the response it just got *)

Cacheable == TTL > 0

StartSet(p, k) ==
    /\ request[p] = NoRequest /\ Cacheable /\ made < MaxValues
    /\ LET v == made + 1
       IN  /\ made' = v
           /\ born' = [born EXCEPT ![v] = time]
           /\ request' = [request EXCEPT ![p] = [kind |-> "set", key |-> k, value |-> v]]
           /\ sets' = sets \cup {[key |-> k, value |-> v]}
    /\ UNCHANGED <<time, redis, memory, revoked>>

(* Redis executes a SET with EX, perhaps not for the last time. *)
ExecuteSet(c) ==
    /\ c \in sets
    /\ redis' = [redis EXCEPT ![c.key] = [value |-> c.value, expires |-> time + TTL]]
    /\ sets' \in {sets, sets \ {c}}
    /\ UNCHANGED <<time, made, born, memory, request, revoked>>

LoseSet(c) ==
    /\ c \in sets
    /\ sets' = sets \ {c}
    /\ UNCHANGED <<time, made, born, redis, memory, request, revoked>>

(* Whatever became of the SET, memory is updated too. *)
EndSet(p) ==
    /\ Doing(p, "set")
    /\ memory' = [memory EXCEPT ![request[p].key] =
           [value |-> request[p].value, expires |-> time + TTL]]
    /\ request' = [request EXCEPT ![p] = NoRequest]
    /\ UNCHANGED <<time, made, born, redis, sets, revoked>>

-----------------------------------------------------------------------------
(* mcp_cache_invalidate, of one call or of all calls of the tool *)

(* old is for the property: what no operation is about to write. *)
StartInvalidate(p, kind, keys) ==
    /\ request[p] = NoRequest
    /\ request' = [request EXCEPT ![p] =
           [kind |-> kind, keys |-> keys, found |-> keys,
            old |-> {v \in Values : Settled(v)}, ok |-> FALSE]]
    /\ UNCHANGED <<time, made, born, redis, memory, sets, revoked>>

(* KEYS pattern: an error, or no key, ends Redis' part of it. *)
FindKeys(p) ==
    /\ Doing(p, "find")
    /\ \E answered \in BOOLEAN :
        LET found == {k \in CacheKeys : redis[k] # NoEntry /\ LiveInRedis(redis[k])}
        IN  request' = [request EXCEPT ![p] =
                IF answered /\ found # {} THEN [@ EXCEPT !.kind = "delete", !.found = found]
                                         ELSE [@ EXCEPT !.kind = "forget", !.ok = answered]]
    /\ UNCHANGED <<time, made, born, redis, memory, sets, revoked>>

KeepInRedis(keys) == redis \* mutant

RedisWithout(keys) == [k \in CacheKeys |-> IF k \in keys THEN NoEntry ELSE redis[k]]

(* DEL of what was found; it fails before or after it was executed. *)
DeleteKeys(p) ==
    /\ Doing(p, "delete")
    /\ \E answered \in BOOLEAN :
        /\ request' = [request EXCEPT ![p].kind = "forget", ![p].ok = answered]
        /\ redis' \in {RedisWithout(request[p].found)} \cup (IF answered THEN {} ELSE {redis})
    /\ UNCHANGED <<time, made, born, memory, sets, revoked>>

EndInvalidate(p) ==
    /\ Doing(p, "forget")
    /\ memory' = [k \in CacheKeys |-> IF k \in request[p].keys THEN NoEntry ELSE memory[k]]
    /\ revoked' = IF request[p].ok THEN revoked \cup (request[p].keys \X request[p].old)
                                   ELSE revoked
    /\ request' = [request EXCEPT ![p] = NoRequest]
    /\ UNCHANGED <<time, made, born, redis, sets>>

(* mcp_cache_clear, of memory only *)
Clear ==
    /\ memory' = [k \in CacheKeys |-> NoEntry]
    /\ UNCHANGED <<time, made, born, redis, sets, request, revoked>>

-----------------------------------------------------------------------------
(* The environment *)

(* Redis evicts an entry or restarts; the process restarts. *)
RedisForgets(k) ==
    /\ redis' = [redis EXCEPT ![k] = NoEntry]
    /\ UNCHANGED <<time, made, born, memory, sets, request, revoked>>

ProcessRestarts ==
    /\ memory' = [k \in CacheKeys |-> NoEntry]
    /\ request' = [p \in Clients |-> NoRequest]
    /\ UNCHANGED <<time, made, born, redis, sets, revoked>>

(* The client's socket_timeout and retry bound what it waits for. *)
SecondPasses ==
    /\ time < MaxTime
    /\ \A c \in sets : time < born[c.value] + RedisDelay
    /\ \A p \in Clients : Doing(p, "set") => time < born[request[p].value] + RedisDelay
    /\ time' = time + 1
    /\ UNCHANGED <<made, born, redis, memory, sets, request, revoked>>

CacheInit ==
    /\ time = 0 /\ made = 0
    /\ born = [v \in Values |-> 0]
    /\ redis = [k \in CacheKeys |-> NoEntry]
    /\ memory = [k \in CacheKeys |-> NoEntry]
    /\ sets = {}
    /\ request = [p \in Clients |-> NoRequest]
    /\ revoked = {}

ClientStep(p) ==
    \/ \E k \in CacheKeys : StartSet(p, k) \/ StartInvalidate(p, "delete", {k})
    \/ StartInvalidate(p, "find", CacheKeys)
    \/ EndSet(p) \/ FindKeys(p) \/ DeleteKeys(p) \/ EndInvalidate(p)

CacheNext ==
    \/ \E p \in Clients : ClientStep(p)
    \/ \E c \in sets : ExecuteSet(c) \/ LoseSet(c)
    \/ \E k \in CacheKeys : DropExpired(k) \/ RedisForgets(k)
    \/ Clear \/ ProcessRestarts \/ SecondPasses

CacheSpec == CacheInit /\ [][CacheNext]_cache_vars

-----------------------------------------------------------------------------
(* Properties *)

(***************************************************************************)
(* What mcp_cache_get can answer, from whichever store, was given by the   *)
(* server at most TTL seconds ago, or RedisDelay more when the SET was     *)
(* executed or its error came that late: each store counts the TTL from    *)
(* its own write, and a store that has lost, kept or repeated a write must *)
(* not stretch it (206-248, 251-277).                                      *)
(***************************************************************************)
ServedIsFresh ==
    \A k \in CacheKeys : \A v \in Servable(k) : time <= born[v] + TTL + RedisDelay

(***************************************************************************)
(* Once an invalidation that Redis answered is over, nothing is served     *)
(* that was stored before it began, from neither store and whatever else   *)
(* runs.  What a set still in flight, or a SET still on its way to Redis,  *)
(* writes afterwards is not covered, and does come back (280-307).         *)
(***************************************************************************)
InvalidatedStaysGone ==
    \A k \in CacheKeys : \A v \in Servable(k) : <<k, v>> \notin revoked
=============================================================================
