---------------------------- MODULE McpCacheProofs ----------------------------
(***************************************************************************)
(* Proofs about McpCache, for any number of keys, clients and responses    *)
(* and any times.  Freshness: a write that is still to come is not late    *)
(* (InTime), so that no entry outlives its response by more than TTL and   *)
(* the delay (Timely).  Invalidation: what nobody will write any more      *)
(* (Settled) stays so, and each step of an invalidation knows of more keys *)
(* that nothing old is in Redis under them (Gone).                         *)
(***************************************************************************)
EXTENDS McpCache, TLAPS

InTime(v) == v <= made /\ time <= born[v] + RedisDelay

Fits(e) == e.value <= made /\ e.expires <= born[e.value] + RedisDelay + TTL

Timely ==
    /\ \A c \in sets : InTime(c.value)
    /\ \A p \in Clients : Doing(p, "set") => InTime(request[p].value)
    /\ \A k \in CacheKeys : redis[k] # NoEntry => Fits(redis[k])
    /\ \A k \in CacheKeys : memory[k] # NoEntry => Fits(memory[k])

(* Redis still answers with the response. *)
InRedis(k, v) == redis[k] # NoEntry /\ redis[k].value = v /\ LiveInRedis(redis[k])
InMemory(k, v) == memory[k] # NoEntry /\ memory[k].value = v

Invalidates(p) == request[p] # NoRequest /\ request[p].kind # "set"

(* The keys an invalidation has left to ask Redis for. *)
Clean(p) ==
    IF request[p].kind = "find" THEN {}
    ELSE IF request[p].kind = "delete" THEN request[p].keys \ request[p].found
    ELSE IF request[p].ok THEN request[p].keys ELSE {}

Gone ==
    /\ \A p \in Clients : Invalidates(p) =>
         /\ \A v \in request[p].old : Settled(v)
         /\ \A k \in Clean(p) : \A v \in request[p].old : ~InRedis(k, v)
    /\ \A k \in CacheKeys, v \in Values : <<k, v>> \in revoked =>
         Settled(v) /\ ~InRedis(k, v) /\ ~InMemory(k, v)

CInv == CacheTypeOK /\ Timely /\ Gone

USE CacheNumbersAssumption, CacheNamesAssumption

(* A request is one or the other, by its kind. *)
LEMMA RequestFacts ==
    ASSUME CacheTypeOK, NEW p \in Clients
    PROVE  /\ Doing(p, "set") => request[p] \in Setting
           /\ Invalidates(p) => request[p] \in Invalidation
           /\ \A kind \in {"find", "delete", "forget"} :
                Doing(p, kind) => Invalidates(p) /\ request[p] \in Invalidation
  BY DEF CacheTypeOK, Doing, Invalidates, Setting, Invalidation

LEMMA InitCInv == CacheInit => CInv
<1> SUFFICES ASSUME CacheInit PROVE CInv
  OBVIOUS
<1>1. CacheTypeOK
  BY DEF CacheInit, CacheTypeOK, Values
<1>2. Timely /\ Gone
  BY DEF CacheInit, Timely, Gone, Doing, Invalidates
<1> QED
  BY <1>1, <1>2 DEF CInv

(* What is settled stays settled while no new writes begin. *)
LEMMA SettledStays ==
    ASSUME NEW v \in Values, Settled(v), made' = made, sets' \subseteq sets,
           \A p \in Clients : Doing(p, "set")' =>
               Doing(p, "set") /\ request'[p].value = request[p].value
    PROVE  Settled(v)'
  BY DEF Settled

-----------------------------------------------------------------------------
(* mcp_cache_set *)

LEMMA StartSetCInv ==
    ASSUME CInv, NEW p \in Clients, NEW k \in CacheKeys, StartSet(p, k)
    PROVE  CInv'
<1>0. PICK v \in Values : v = made + 1
  BY DEF CInv, StartSet, CacheTypeOK, Values
<1> DEFINE new == [kind |-> "set", key |-> k, value |-> v]
<1>1. /\ CacheTypeOK /\ Timely /\ Gone
      /\ request[p] = NoRequest /\ made < MaxValues /\ made' = v
      /\ v > made /\ made \in Nat /\ time \in Nat
      /\ UNCHANGED <<time, redis, memory, revoked>>
      /\ born' = [born EXCEPT ![v] = time]
      /\ request' = [request EXCEPT ![p] = new]
      /\ sets' = sets \cup {[key |-> k, value |-> v]}
  BY <1>0 DEF CInv, StartSet, CacheTypeOK, Values
<1>2. /\ new \in Setting /\ [key |-> k, value |-> v] \in Command
      /\ born' \in [Values -> Nat] /\ made' \in 0..MaxValues
      /\ request' \in [Clients -> Setting \cup Invalidation \cup {NoRequest}]
  BY <1>1 DEF Setting, Command, CacheTypeOK, Values
<1>3. CacheTypeOK'
  BY <1>1, <1>2 DEF CacheTypeOK
<1>4. /\ born'[v] = time
      /\ \A w \in Values : w <= made => born'[w] = born[w]
      /\ request'[p] = new /\ new # NoRequest /\ new.value = v /\ new.kind = "set"
      /\ \A q \in Clients \ {p} : request'[q] = request[q]
  BY <1>1, <1>2 DEF CacheTypeOK
<1> HIDE DEF new
<1>5. Timely'
  <2>1. InTime(v)'
    BY <1>1, <1>4 DEF InTime, CacheTypeOK, Values
  <2>2. \A w \in Values : InTime(w) => InTime(w)'
    BY <1>1, <1>4 DEF InTime, CacheTypeOK, Values
  <2>3. \A e \in Entry : Fits(e) => Fits(e)'
    BY <1>1, <1>4 DEF Fits, CacheTypeOK, Entry, Values
  <2>4. \A c \in sets' : InTime(c.value)'
    <3> SUFFICES ASSUME NEW c \in sets' PROVE InTime(c.value)'
      OBVIOUS
    <3>1. CASE c \in sets
      BY <1>1, <2>2, <3>1 DEF Timely, CacheTypeOK, Command
    <3>2. CASE c = [key |-> k, value |-> v]
      BY <2>1, <3>2
    <3> QED
      BY <1>1, <3>1, <3>2
  <2>5. \A q \in Clients : Doing(q, "set")' => InTime(request[q].value)'
    <3> SUFFICES ASSUME NEW q \in Clients, Doing(q, "set")' PROVE InTime(request[q].value)'
      OBVIOUS
    <3>1. CASE q = p
      <4>1. request'[q].value = v
        BY <1>4, <3>1
      <4> QED
        BY <2>1, <4>1 DEF InTime
    <3>2. CASE q # p
      <4>1. Doing(q, "set") /\ request'[q].value = request[q].value
        BY <1>4, <3>2 DEF Doing
      <4>2. InTime(request[q].value) /\ request[q].value \in Values
        BY <1>1, <4>1, RequestFacts DEF Timely, Setting
      <4> QED
        BY <2>2, <4>1, <4>2 DEF InTime
    <3> QED
      BY <3>1, <3>2
  <2>6. \A j \in CacheKeys : /\ redis'[j] # NoEntry => Fits(redis[j])'
                             /\ memory'[j] # NoEntry => Fits(memory[j])'
    <3> SUFFICES ASSUME NEW j \in CacheKeys
                 PROVE  /\ redis'[j] # NoEntry => Fits(redis[j])'
                        /\ memory'[j] # NoEntry => Fits(memory[j])'
      OBVIOUS
    <3>1. redis'[j] = redis[j] /\ memory'[j] = memory[j]
      BY <1>1
    <3>2. ASSUME redis[j] # NoEntry PROVE Fits(redis[j])'
      <4>1. redis[j] \in Entry /\ Fits(redis[j])
        BY <1>1, <3>2 DEF Timely, CacheTypeOK
      <4> QED
        BY <2>3, <3>1, <4>1 DEF Fits
    <3>3. ASSUME memory[j] # NoEntry PROVE Fits(memory[j])'
      <4>1. memory[j] \in Entry /\ Fits(memory[j])
        BY <1>1, <3>3 DEF Timely, CacheTypeOK
      <4> QED
        BY <2>3, <3>1, <4>1 DEF Fits
    <3> QED
      BY <3>1, <3>2, <3>3
  <2> QED
    BY <2>4, <2>5, <2>6 DEF Timely
<1>6. Gone'
  <2>1. \A w \in Values : Settled(w) => Settled(w)'
    <3> SUFFICES ASSUME NEW w \in Values, Settled(w) PROVE Settled(w)'
      OBVIOUS
    <3>1. w <= made' /\ w # v
      BY <1>1 DEF Settled, Values
    <3>2. \A c \in sets' : c.value # w
      BY <1>1, <3>1 DEF Settled
    <3>3. \A q \in Clients : Doing(q, "set")' => request'[q].value # w
      BY <1>4, <3>1 DEF Settled, Doing
    <3> QED
      BY <3>1, <3>2, <3>3 DEF Settled
  <2>2. \A q \in Clients : Invalidates(q)' => Invalidates(q) /\ request'[q] = request[q]
    BY <1>4 DEF Invalidates
  <2>3. \A j, w : (InRedis(j, w)' <=> InRedis(j, w)) /\ (InMemory(j, w)' <=> InMemory(j, w))
    BY <1>1 DEF InRedis, InMemory, LiveInRedis
  <2>4. \A q \in Clients : Invalidates(q)' => Clean(q)' = Clean(q)
    BY <2>2 DEF Clean
  <2>5. \A q \in Clients : Invalidates(q) => request[q].old \subseteq Values
    BY <1>1, RequestFacts DEF Invalidation
  <2> QED
    BY <1>1, <2>1, <2>2, <2>3, <2>4, <2>5 DEF Gone
<1> QED
  BY <1>3, <1>5, <1>6 DEF CInv

(* Steps after which no clock, response or claim of the history differs:   *)
(* what is written was in time, what is gone stays gone.                   *)
LEMMA TimelyKept ==
    ASSUME Timely, UNCHANGED <<time, made, born>>, sets' \subseteq sets,
           \A p \in Clients : Doing(p, "set")' =>
               Doing(p, "set") /\ request'[p].value = request[p].value,
           \A k \in CacheKeys : redis'[k] = redis[k] \/ redis'[k] = NoEntry \/ Fits(redis'[k]),
           \A k \in CacheKeys : memory'[k] = memory[k] \/ memory'[k] = NoEntry \/ Fits(memory'[k])
    PROVE  Timely'
<1>1. \A e : Fits(e) => Fits(e)'
  BY DEF Fits
<1>2. \A k \in CacheKeys : redis'[k] # NoEntry => Fits(redis[k])'
  BY DEF Timely, Fits
<1>3. \A k \in CacheKeys : memory'[k] # NoEntry => Fits(memory[k])'
  BY DEF Timely, Fits
<1>4. \A c \in sets' : InTime(c.value)'
  BY DEF Timely, InTime
<1>5. \A p \in Clients : Doing(p, "set")' => InTime(request[p].value)'
  BY DEF Timely, InTime
<1> QED
  BY <1>2, <1>3, <1>4, <1>5 DEF Timely

(* A response somebody may still write is not settled. *)
LEMMA WrittenIsUnsettled ==
    /\ \A c \in sets : ~Settled(c.value)
    /\ \A p \in Clients : Doing(p, "set") => ~Settled(request[p].value)
  BY DEF Settled

(* No invalidation moves, and the stores gain only what is not settled. *)
LEMMA GoneKept ==
    ASSUME CacheTypeOK, Gone, UNCHANGED <<time, made, revoked>>, sets' \subseteq sets,
           \A p \in Clients :
               \/ request'[p] = request[p] \/ request'[p] = NoRequest
               \/ Doing(p, "set") /\ Doing(p, "set")' /\ request'[p].value = request[p].value,
           \A k \in CacheKeys, v \in Values :
               /\ InRedis(k, v)' => InRedis(k, v) \/ ~Settled(v)
               /\ InMemory(k, v)' => InMemory(k, v) \/ ~Settled(v)
    PROVE  Gone'
<1>1. \A v \in Values : Settled(v) => Settled(v)'
  BY SettledStays DEF Doing
<1>2. \A p \in Clients : Invalidates(p)' =>
        Invalidates(p) /\ request'[p] = request[p] /\ Clean(p)' = Clean(p)
  BY DEF Invalidates, Doing, Clean
<1>3. \A p \in Clients : Invalidates(p) => request[p].old \subseteq Values /\ Clean(p) \subseteq CacheKeys
  BY RequestFacts DEF Invalidation, Clean
<1> QED
  BY <1>1, <1>2, <1>3 DEF Gone

LEMMA ExecuteSetCInv ==
    ASSUME CInv, NEW c \in sets, ExecuteSet(c)
    PROVE  CInv'
<1> DEFINE entry == [value |-> c.value, expires |-> time + TTL]
<1>1. /\ CacheTypeOK /\ Timely /\ Gone
      /\ redis' = [redis EXCEPT ![c.key] = entry]
      /\ sets' \subseteq sets
      /\ UNCHANGED <<time, made, born, memory, request, revoked>>
      /\ c \in Command
  BY DEF CInv, ExecuteSet, CacheTypeOK
<1>2. /\ c.key \in CacheKeys /\ c.value \in Values /\ entry \in Entry
      /\ time \in Nat /\ made \in Nat /\ born[c.value] \in Nat
  BY <1>1 DEF Command, Entry, CacheTypeOK
<1>3. Fits(entry) /\ entry.value = c.value
  BY <1>1, <1>2 DEF Timely, InTime, Fits
<1>4. \A k \in CacheKeys : redis'[k] = redis[k] \/ redis'[k] = entry
  BY <1>1 DEF CacheTypeOK
<1> HIDE DEF entry
<1>5. CacheTypeOK'
  BY <1>1, <1>2 DEF CacheTypeOK
<1>6. Timely'
  BY <1>1, <1>3, <1>4, TimelyKept DEF Doing
<1>7. Gone'
  <2>1. \A k \in CacheKeys, v \in Values : InRedis(k, v)' => InRedis(k, v) \/ ~Settled(v)
    BY <1>1, <1>3, <1>4, WrittenIsUnsettled DEF InRedis, LiveInRedis
  <2>2. \A k \in CacheKeys, v \in Values : InMemory(k, v)' => InMemory(k, v)
    BY <1>1 DEF InMemory
  <2> QED
    BY <1>1, <2>1, <2>2, GoneKept
<1> QED
  BY <1>5, <1>6, <1>7 DEF CInv

LEMMA EndSetCInv ==
    ASSUME CInv, NEW p \in Clients, EndSet(p)
    PROVE  CInv'
<1> DEFINE entry == [value |-> request[p].value, expires |-> time + TTL]
<1>1. /\ CacheTypeOK /\ Timely /\ Gone /\ Doing(p, "set")
      /\ memory' = [memory EXCEPT ![request[p].key] = entry]
      /\ request' = [request EXCEPT ![p] = NoRequest]
      /\ UNCHANGED <<time, made, born, redis, sets, revoked>>
      /\ request[p] \in Setting
  BY RequestFacts DEF CInv, EndSet
<1>2. /\ request[p].key \in CacheKeys /\ request[p].value \in Values /\ entry \in Entry
      /\ time \in Nat /\ made \in Nat /\ born[request[p].value] \in Nat
  BY <1>1 DEF Setting, Entry, CacheTypeOK
<1>3. Fits(entry) /\ entry.value = request[p].value
  BY <1>1, <1>2 DEF Timely, InTime, Fits
<1>4. \A k \in CacheKeys : memory'[k] = memory[k] \/ memory'[k] = entry
  BY <1>1 DEF CacheTypeOK
<1>5. /\ \A q \in Clients : request'[q] = request[q] \/ request'[q] = NoRequest
      /\ request' \in [Clients -> Setting \cup Invalidation \cup {NoRequest}]
  BY <1>1 DEF CacheTypeOK
<1> HIDE DEF entry
<1>6. CacheTypeOK'
  BY <1>1, <1>2, <1>5 DEF CacheTypeOK
<1>7. Timely'
  BY <1>1, <1>3, <1>4, <1>5, TimelyKept DEF Doing
<1>8. Gone'
  <2>1. \A k \in CacheKeys, v \in Values : InMemory(k, v)' => InMemory(k, v) \/ ~Settled(v)
    BY <1>1, <1>3, <1>4, WrittenIsUnsettled DEF InMemory
  <2>2. \A k \in CacheKeys, v \in Values : InRedis(k, v)' => InRedis(k, v)
    BY <1>1 DEF InRedis, LiveInRedis
  <2> QED
    BY <1>1, <1>5, <2>1, <2>2, GoneKept
<1> QED
  BY <1>6, <1>7, <1>8 DEF CInv

(* Entries, commands and requests only disappear. *)
LEMMA LossCInv ==
    ASSUME CInv, UNCHANGED <<time, made, born, revoked>>, sets' \subseteq sets,
           \A p \in Clients : request'[p] = request[p] \/ request'[p] = NoRequest,
           \A k \in CacheKeys : redis'[k] = redis[k] \/ redis'[k] = NoEntry,
           \A k \in CacheKeys : memory'[k] = memory[k] \/ memory'[k] = NoEntry,
           CacheTypeOK'
    PROVE  CInv'
<1>1. CacheTypeOK /\ Timely /\ Gone
  BY DEF CInv
<1>2. Timely'
  BY <1>1, TimelyKept DEF Doing
<1>3. \A k \in CacheKeys, v \in Values :
        (InRedis(k, v)' => InRedis(k, v)) /\ (InMemory(k, v)' => InMemory(k, v))
  BY DEF InRedis, InMemory, LiveInRedis
<1>4. Gone'
  BY <1>1, <1>3, GoneKept
<1> QED
  BY <1>2, <1>4 DEF CInv

LEMMA EnvironmentCInv ==
    ASSUME CInv,
           \/ \E c \in sets : LoseSet(c)
           \/ \E k \in CacheKeys : DropExpired(k) \/ RedisForgets(k)
           \/ Clear \/ ProcessRestarts \/ UNCHANGED cache_vars
    PROVE  CInv'
<1>1. CacheTypeOK
  BY DEF CInv
<1>2. CASE \E c \in sets : LoseSet(c)
  <2>1. CacheTypeOK'
    BY <1>1, <1>2 DEF LoseSet, CacheTypeOK
  <2> QED
    BY <1>2, <2>1, LossCInv DEF LoseSet
<1>3. CASE \E k \in CacheKeys : DropExpired(k) \/ RedisForgets(k)
  <2>1. CacheTypeOK'
    BY <1>1, <1>3 DEF DropExpired, RedisForgets, CacheTypeOK
  <2>2. /\ \A k \in CacheKeys : redis'[k] = redis[k] \/ redis'[k] = NoEntry
        /\ \A k \in CacheKeys : memory'[k] = memory[k] \/ memory'[k] = NoEntry
        /\ UNCHANGED <<time, made, born, revoked, sets, request>>
    BY <1>1, <1>3 DEF DropExpired, RedisForgets, CacheTypeOK
  <2> QED
    BY <2>1, <2>2, LossCInv
<1>4. CASE Clear \/ ProcessRestarts
  <2>1. CacheTypeOK'
    BY <1>1, <1>4 DEF Clear, ProcessRestarts, CacheTypeOK
  <2> QED
    BY <1>4, <2>1, LossCInv DEF Clear, ProcessRestarts
<1>5. CASE UNCHANGED cache_vars
  <2>1. CacheTypeOK'
    BY <1>1, <1>5 DEF cache_vars, CacheTypeOK
  <2> QED
    BY <1>5, <2>1, LossCInv DEF cache_vars
<1> QED
  BY <1>2, <1>3, <1>4, <1>5

-----------------------------------------------------------------------------
(* mcp_cache_invalidate: the request of one client goes on *)

(* Only the steps of the request itself have to be looked at. *)
LEMMA InvalidationMoves ==
    ASSUME CInv, NEW p \in Clients, ~Doing(p, "set"),
           UNCHANGED <<time, made, born, memory, sets, revoked>>,
           NEW next \in Invalidation \cup {NoRequest},
           request' = [request EXCEPT ![p] = next],
           redis' \in [CacheKeys -> Entry \cup {NoEntry}],
           \A k \in CacheKeys : redis'[k] = redis[k] \/ redis'[k] = NoEntry,
           next # NoRequest => \A v \in next.old : Settled(v),
           next # NoRequest => \A k \in Clean(p)' : \A v \in next.old : ~InRedis(k, v)'
    PROVE  CInv'
<1>1. CacheTypeOK /\ Timely /\ Gone
  BY DEF CInv
<1>2. CacheTypeOK'
  BY <1>1 DEF CacheTypeOK
<1>3. /\ request'[p] = next /\ ~Doing(p, "set")'
      /\ \A q \in Clients \ {p} : request'[q] = request[q]
  BY <1>1 DEF CacheTypeOK, Doing, Invalidation
<1>4. Timely'
  BY <1>1, <1>3, TimelyKept DEF Doing
<1>5. \A k \in CacheKeys, v \in Values :
        (InRedis(k, v)' => InRedis(k, v)) /\ (InMemory(k, v)' => InMemory(k, v))
  BY DEF InRedis, InMemory, LiveInRedis
<1>6. \A v \in Values : Settled(v) => Settled(v)'
  BY <1>3, SettledStays DEF Doing
<1>7. \A q \in Clients : Invalidates(q)' => request'[q].old \subseteq Values /\ Clean(q)' \subseteq CacheKeys
  <2>1. \A q \in Clients : Invalidates(q)' => request'[q] \in Invalidation
    BY <1>2 DEF CacheTypeOK, Invalidates, Setting
  <2> QED
    BY <2>1 DEF Invalidation, Clean
<1>8. \A q \in Clients : Invalidates(q)' =>
        /\ \A v \in request'[q].old : Settled(v)'
        /\ \A k \in Clean(q)' : \A v \in request'[q].old : ~InRedis(k, v)'
  <2> SUFFICES ASSUME NEW q \in Clients, Invalidates(q)'
               PROVE  /\ \A v \in request'[q].old : Settled(v)'
                      /\ \A k \in Clean(q)' : \A v \in request'[q].old : ~InRedis(k, v)'
    OBVIOUS
  <2>1. CASE q = p
    <3>1. next # NoRequest
      BY <1>3, <2>1 DEF Invalidates
    <3> QED
      BY <1>3, <1>6, <1>7, <2>1, <3>1
  <2>2. CASE q # p
    <3>1. Invalidates(q) /\ request'[q] = request[q] /\ Clean(q)' = Clean(q)
      BY <1>3, <2>2 DEF Invalidates, Clean
    <3> QED
      BY <1>1, <1>5, <1>6, <1>7, <3>1 DEF Gone
  <2> QED
    BY <2>1, <2>2
<1>9. Gone'
  BY <1>1, <1>5, <1>6, <1>8 DEF Gone
<1> QED
  BY <1>2, <1>4, <1>9 DEF CInv

LEMMA StartInvalidateCInv ==
    ASSUME CInv, NEW p \in Clients, NEW kind \in {"find", "delete"},
           NEW keys \in SUBSET CacheKeys, StartInvalidate(p, kind, keys)
    PROVE  CInv'
<1> DEFINE next == [kind |-> kind, keys |-> keys, found |-> keys,
                    old |-> {v \in Values : Settled(v)}, ok |-> FALSE]
<1>1. /\ request[p] = NoRequest /\ request' = [request EXCEPT ![p] = next]
      /\ UNCHANGED <<time, made, born, redis, memory, sets, revoked>>
      /\ CacheTypeOK
  BY DEF StartInvalidate, CInv
<1>2. next \in Invalidation
  BY DEF Invalidation
<1>3. request'[p] = next /\ next.old = {v \in Values : Settled(v)}
      /\ next.kind = kind /\ next.keys = keys /\ next.found = keys /\ next.ok = FALSE
  BY <1>1 DEF CacheTypeOK
<1> HIDE DEF next
<1>4. Clean(p)' = {}
  BY <1>3 DEF Clean
<1>5. ~Doing(p, "set")
  BY <1>1 DEF Doing
<1>6. PICK n : n = next
  OBVIOUS
<1>7. redis' \in [CacheKeys -> Entry \cup {NoEntry}]
  BY <1>1 DEF CacheTypeOK
<1> QED
  BY <1>1, <1>2, <1>3, <1>4, <1>5, <1>6, <1>7, InvalidationMoves

LEMMA FindKeysCInv ==
    ASSUME CInv, NEW p \in Clients, FindKeys(p)
    PROVE  CInv'
<1>0. PICK found \in SUBSET CacheKeys :
        found = {k \in CacheKeys : redis[k] # NoEntry /\ LiveInRedis(redis[k])}
  OBVIOUS
<1>1. PICK answered \in BOOLEAN :
        request' = [request EXCEPT ![p] =
            IF answered /\ found # {} THEN [@ EXCEPT !.kind = "delete", !.found = found]
                                     ELSE [@ EXCEPT !.kind = "forget", !.ok = answered]]
  BY <1>0 DEF FindKeys
<1>2. /\ Doing(p, "find") /\ UNCHANGED <<time, made, born, redis, memory, sets, revoked>>
      /\ CacheTypeOK /\ Gone /\ Invalidates(p) /\ request[p] \in Invalidation
  BY RequestFacts DEF FindKeys, CInv
<1>3. PICK next : next = IF answered /\ found # {}
                         THEN [request[p] EXCEPT !.kind = "delete", !.found = found]
                         ELSE [request[p] EXCEPT !.kind = "forget", !.ok = answered]
  OBVIOUS
<1>4. next \in Invalidation /\ next.old = request[p].old /\ next.keys = request[p].keys
  BY <1>2, <1>3 DEF Invalidation
<1>5. request' = [request EXCEPT ![p] = next] /\ request'[p] = next
  BY <1>1, <1>2, <1>3 DEF CacheTypeOK
<1>6. \A v \in next.old : Settled(v)
  BY <1>2, <1>4 DEF Gone
<1>7. \A k \in CacheKeys \ found : \A v : ~InRedis(k, v)'
  BY <1>0, <1>2 DEF InRedis, LiveInRedis
<1>8. Clean(p)' \subseteq CacheKeys \ found
  <2>1. CASE answered /\ found # {}
    <3>1. next.kind = "delete" /\ next.found = found
      BY <1>2, <1>3, <2>1 DEF Invalidation
    <3> QED
      BY <1>4, <1>5, <3>1 DEF Clean, Invalidation
  <2>2. CASE ~(answered /\ found # {})
    <3>1. next.kind = "forget" /\ next.ok = answered
      BY <1>2, <1>3, <2>2 DEF Invalidation
    <3> QED
      BY <1>4, <1>5, <2>2, <3>1 DEF Clean, Invalidation
  <2> QED
    BY <2>1, <2>2
<1>9. redis' \in [CacheKeys -> Entry \cup {NoEntry}] /\ ~Doing(p, "set")
  BY <1>2 DEF CacheTypeOK, Doing
<1> QED
  BY <1>2, <1>4, <1>5, <1>6, <1>7, <1>8, <1>9, InvalidationMoves

LEMMA DeleteKeysCInv ==
    ASSUME CInv, NEW p \in Clients, DeleteKeys(p)
    PROVE  CInv'
<1>1. PICK answered \in BOOLEAN :
        /\ request' = [request EXCEPT ![p].kind = "forget", ![p].ok = answered]
        /\ redis' \in {RedisWithout(request[p].found)} \cup (IF answered THEN {} ELSE {redis})
  BY DEF DeleteKeys
<1>2. /\ Doing(p, "delete") /\ UNCHANGED <<time, made, born, memory, sets, revoked>>
      /\ CacheTypeOK /\ Gone /\ Invalidates(p) /\ request[p] \in Invalidation
  BY RequestFacts DEF DeleteKeys, CInv
<1>3. PICK next : next = [request[p] EXCEPT !.kind = "forget", !.ok = answered]
  OBVIOUS
<1>4. /\ next \in Invalidation /\ next.old = request[p].old /\ next.keys = request[p].keys
      /\ next.kind = "forget" /\ next.ok = answered
  BY <1>2, <1>3 DEF Invalidation
<1>5. request' = [request EXCEPT ![p] = next] /\ request'[p] = next
  BY <1>1, <1>2, <1>3 DEF CacheTypeOK
<1>6. \A v \in next.old : Settled(v)
  BY <1>2, <1>4 DEF Gone
<1>7. /\ redis' \in [CacheKeys -> Entry \cup {NoEntry}]
      /\ \A k \in CacheKeys : redis'[k] = redis[k] \/ redis'[k] = NoEntry
      /\ answered => \A k \in CacheKeys \cap request[p].found : redis'[k] = NoEntry
  BY <1>1, <1>2 DEF RedisWithout, CacheTypeOK
<1>8. \A k \in Clean(p)' : \A v \in next.old : ~InRedis(k, v)'
  <2> SUFFICES ASSUME NEW k \in Clean(p)', NEW v \in next.old, InRedis(k, v)' PROVE FALSE
    OBVIOUS
  <2>1. answered /\ k \in request[p].keys /\ k \in CacheKeys
    BY <1>4, <1>5 DEF Clean, Invalidation
  <2>2. k \notin request[p].found /\ redis'[k] = redis[k]
    BY <1>7, <2>1 DEF InRedis
  <2>3. InRedis(k, v)
    BY <1>2, <2>2 DEF InRedis, LiveInRedis
  <2>4. k \in Clean(p)
    BY <1>2, <2>1, <2>2 DEF Clean, Doing
  <2> QED
    BY <1>2, <1>4, <2>3, <2>4 DEF Gone
<1>9. ~Doing(p, "set")
  BY <1>2 DEF Doing
<1> QED
  BY <1>2, <1>4, <1>5, <1>6, <1>7, <1>8, <1>9, InvalidationMoves

(* The last step: memory forgets the keys, and what Redis has forgotten    *)
(* too is claimed to be gone.                                              *)
LEMMA EndInvalidateCInv ==
    ASSUME CInv, NEW p \in Clients, EndInvalidate(p)
    PROVE  CInv'
<1>1. /\ CacheTypeOK /\ Timely /\ Gone /\ Doing(p, "forget")
      /\ Invalidates(p) /\ request[p] \in Invalidation
      /\ memory' = [k \in CacheKeys |-> IF k \in request[p].keys THEN NoEntry ELSE memory[k]]
      /\ revoked' = IF request[p].ok THEN revoked \cup (request[p].keys \X request[p].old)
                                     ELSE revoked
      /\ request' = [request EXCEPT ![p] = NoRequest]
      /\ UNCHANGED <<time, made, born, redis, sets>>
  BY RequestFacts DEF EndInvalidate, CInv
<1>2. CacheTypeOK'
  BY <1>1 DEF CacheTypeOK, Invalidation
<1>3. /\ \A q \in Clients : request'[q] = request[q] \/ request'[q] = NoRequest
      /\ \A k \in CacheKeys : memory'[k] = memory[k] \/ memory'[k] = NoEntry
      /\ \A k \in CacheKeys \cap request[p].keys : memory'[k] = NoEntry
  BY <1>1 DEF CacheTypeOK
<1>4. Timely'
  BY <1>1, <1>3, TimelyKept DEF Doing
<1>5. \A v \in Values : Settled(v) => Settled(v)'
  BY <1>1, <1>3, SettledStays DEF Doing
<1>6. \A k \in CacheKeys, v \in Values :
        (InRedis(k, v)' <=> InRedis(k, v)) /\ (InMemory(k, v)' => InMemory(k, v))
  BY <1>1, <1>3 DEF InRedis, InMemory, LiveInRedis
<1>7. \A q \in Clients : Invalidates(q)' =>
        /\ Invalidates(q) /\ request'[q] = request[q] /\ Clean(q)' = Clean(q)
        /\ request[q].old \subseteq Values /\ Clean(q) \subseteq CacheKeys
  <2>1. \A q \in Clients : Invalidates(q)' => Invalidates(q) /\ request'[q] = request[q]
    BY <1>3 DEF Invalidates
  <2>2. \A q \in Clients : Invalidates(q)' => Clean(q)' = Clean(q)
    BY <2>1 DEF Clean
  <2>3. \A q \in Clients : Invalidates(q) => request[q] \in Invalidation
    BY <1>1, RequestFacts
  <2>4. \A q \in Clients : Invalidates(q) =>
          request[q].old \subseteq Values /\ Clean(q) \subseteq CacheKeys
    BY <2>3 DEF Clean, Invalidation
  <2> QED
    BY <2>1, <2>2, <2>4
<1>8. \A k \in CacheKeys, v \in Values : <<k, v>> \in revoked' =>
        Settled(v) /\ ~InRedis(k, v) /\ ~InMemory(k, v)'
  <2> SUFFICES ASSUME NEW k \in CacheKeys, NEW v \in Values, <<k, v>> \in revoked'
               PROVE  Settled(v) /\ ~InRedis(k, v) /\ ~InMemory(k, v)'
    OBVIOUS
  <2>1. CASE <<k, v>> \in revoked
    BY <1>1, <1>6, <2>1 DEF Gone
  <2>2. CASE <<k, v>> \notin revoked
    <3>1. request[p].ok /\ k \in request[p].keys /\ v \in request[p].old
      BY <1>1, <2>2
    <3>2. k \in Clean(p)
      BY <1>1, <3>1 DEF Clean, Doing
    <3>3. Settled(v) /\ ~InRedis(k, v)
      BY <1>1, <3>1, <3>2 DEF Gone
    <3>4. ~InMemory(k, v)'
      BY <1>3, <3>1 DEF InMemory
    <3> QED
      BY <3>3, <3>4
  <2> QED
    BY <2>1, <2>2
<1>9. Gone'
  BY <1>1, <1>5, <1>6, <1>7, <1>8 DEF Gone
<1> QED
  BY <1>2, <1>4, <1>9 DEF CInv

(* Time passes only while everything that is under way is in time. *)
LEMMA SecondPassesCInv ==
    ASSUME CInv, SecondPasses
    PROVE  CInv'
<1>1. /\ CacheTypeOK /\ Timely /\ Gone /\ time' = time + 1
      /\ \A c \in sets : time < born[c.value] + RedisDelay
      /\ \A q \in Clients : Doing(q, "set") => time < born[request[q].value] + RedisDelay
      /\ UNCHANGED <<made, born, redis, memory, sets, request, revoked>>
  BY DEF SecondPasses, CInv
<1>2. CacheTypeOK'
  BY <1>1 DEF CacheTypeOK
<1>3. Timely'
  <2>1. \A c \in sets : born[c.value] \in Nat
    BY <1>1 DEF CacheTypeOK, Command
  <2>2. \A q \in Clients : Doing(q, "set") => born[request[q].value] \in Nat
    BY <1>1, RequestFacts DEF CacheTypeOK, Setting
  <2>3. \A c \in sets : InTime(c.value)'
    BY <1>1, <2>1 DEF Timely, InTime, CacheTypeOK
  <2>4. \A q \in Clients : Doing(q, "set")' => InTime(request[q].value)'
    BY <1>1, <2>2 DEF Timely, InTime, CacheTypeOK, Doing
  <2>5. \A k \in CacheKeys : /\ redis'[k] # NoEntry => Fits(redis[k])'
                             /\ memory'[k] # NoEntry => Fits(memory[k])'
    BY <1>1 DEF Timely, Fits
  <2> QED
    BY <1>1, <2>3, <2>4, <2>5 DEF Timely
<1>4. Gone'
  <2>1. \A k \in CacheKeys, v \in Values :
          (InRedis(k, v)' => InRedis(k, v)) /\ (InMemory(k, v)' <=> InMemory(k, v))
    BY <1>1 DEF InRedis, InMemory, LiveInRedis, CacheTypeOK, Entry
  <2>2. \A v \in Values : Settled(v)' <=> Settled(v)
    BY <1>1 DEF Settled, Doing
  <2>3. \A q \in Clients : /\ Invalidates(q)' <=> Invalidates(q)
                           /\ Clean(q)' = Clean(q)
                           /\ Invalidates(q) => request[q].old \subseteq Values /\ Clean(q) \subseteq CacheKeys
    BY <1>1, RequestFacts DEF Invalidates, Clean, Invalidation
  <2> QED
    BY <1>1, <2>1, <2>2, <2>3 DEF Gone
<1> QED
  BY <1>2, <1>3, <1>4 DEF CInv

LEMMA CInvHolds == CacheSpec => []CInv
<1>1. CInv /\ [CacheNext]_cache_vars => CInv'
  <2> SUFFICES ASSUME CInv, [CacheNext]_cache_vars PROVE CInv'
    OBVIOUS
  <2>1. ASSUME NEW p \in Clients, ClientStep(p) PROVE CInv'
    <3>1. \A k \in CacheKeys : {k} \in SUBSET CacheKeys
      OBVIOUS
    <3> QED
      BY <2>1, <3>1, StartSetCInv, StartInvalidateCInv, EndSetCInv, FindKeysCInv,
         DeleteKeysCInv, EndInvalidateCInv
      DEF ClientStep
  <2>2. CASE \E c \in sets : ExecuteSet(c) \/ LoseSet(c)
    BY <2>2, ExecuteSetCInv, EnvironmentCInv
  <2>3. CASE (\E k \in CacheKeys : DropExpired(k) \/ RedisForgets(k)) \/ Clear
             \/ ProcessRestarts \/ UNCHANGED cache_vars
    BY <2>3, EnvironmentCInv
  <2>4. CASE SecondPasses
    BY <2>4, SecondPassesCInv
  <2> QED
    BY <2>1, <2>2, <2>3, <2>4 DEF CacheNext
<1> QED
  BY <1>1, InitCInv, PTL DEF CacheSpec

(***************************************************************************)
(* The state of the cache keeps its types.                                 *)
(***************************************************************************)
THEOREM CacheIsTyped == CacheSpec => []CacheTypeOK
<1>1. CInv => CacheTypeOK
  BY DEF CInv
<1> QED
  BY <1>1, CInvHolds, PTL

(***************************************************************************)
(* Nothing older than TTL plus the delay is served, from either store.     *)
(***************************************************************************)
THEOREM CacheIsFresh == CacheSpec => []ServedIsFresh
<1>1. CInv => ServedIsFresh
  <2> SUFFICES ASSUME CInv, NEW k \in CacheKeys, NEW v \in Servable(k)
               PROVE  time <= born[v] + TTL + RedisDelay
    BY DEF ServedIsFresh
  <2>1. CacheTypeOK /\ Timely
    BY DEF CInv
  <2>2. PICK e \in Entry : e.value = v /\ Fits(e) /\ time <= e.expires
    <3>1. PICK e : /\ e.value = v
                   /\ \/ e = redis[k] /\ e # NoEntry /\ LiveInRedis(e)
                      \/ e = memory[k] /\ e # NoEntry /\ LiveInMemory(e)
      BY DEF Servable
    <3>2. e \in Entry /\ Fits(e)
      BY <2>1, <3>1 DEF Timely, CacheTypeOK
    <3> QED
      BY <2>1, <3>1, <3>2 DEF LiveInRedis, LiveInMemory, CacheTypeOK, Entry
  <2>3. born[v] \in Nat
    BY <2>1, <2>2 DEF CacheTypeOK, Entry
  <2> QED
    BY <2>1, <2>2, <2>3 DEF Fits, CacheTypeOK, Entry
<1> QED
  BY <1>1, CInvHolds, PTL

(***************************************************************************)
(* What an invalidation that Redis answered has removed is not served      *)
(* again, whatever runs beside it and whatever commands come late.         *)
(***************************************************************************)
THEOREM CacheForgets == CacheSpec => []InvalidatedStaysGone
<1>1. CInv => InvalidatedStaysGone
  <2> SUFFICES ASSUME CInv, NEW k \in CacheKeys, NEW v \in Servable(k), <<k, v>> \in revoked
               PROVE  FALSE
    BY DEF InvalidatedStaysGone
  <2>1. v \in Values
    BY DEF CInv, CacheTypeOK
  <2>2. ~InRedis(k, v) /\ ~InMemory(k, v)
    BY <2>1 DEF CInv, Gone
  <2> QED
    BY <2>2 DEF Servable, InRedis, InMemory
<1> QED
  BY <1>1, CInvHolds, PTL
=============================================================================
