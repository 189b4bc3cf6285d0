----------------------------- MODULE RedisClient -----------------------------
(***************************************************************************)
(* The client every request shares (infrastructure/redis_client.py): Redis *)
(* or, in development only, a store in memory that replaces it; the health *)
(* checks, of which several may run at once and each of which reconnects   *)
(* when its ping fails; and the counters of incr_with_ttl in both stores.  *)
(*                                                                         *)
(* client, using_memory and the two stores are shared between the awaits   *)
(* of all coroutines.  InMemoryKV never suspends, so each of its calls is  *)
(* one step; its clock goes on within one.                                 *)
(***************************************************************************)
EXTENDS KeyValue

CONSTANTS
    Probes,         \* health checks that may run at once
    Retries,        \* redis_health_retries
    MaxOutages,     \* bound: times Redis becomes unreachable
    Keys,           \* the counters
    Window,         \* their TTL in seconds
    CanFail         \* may an exchange with Redis break off or be repeated?

ASSUME ClientAssumption ==
    /\ Retries \in Nat \ {0} /\ MaxOutages \in Nat /\ Window \in Nat \ {0}
    /\ CanFail \in BOOLEAN

VARIABLES
    optional,       \* redis_optional: is this a development environment?
    client,         \* what _redis holds
    usingMemory,    \* using_memory
    reachable, outages,     \* is Redis there; how often it went away
    probe, attempt,         \* per health check: where it is, its attempts
    redis, memory,  \* the counters in Redis, and in the store in memory
    age,            \* ghost: ticks since each window in memory began
    cut             \* ghost: counters whose EXPIRE was lost, per store

probing == <<probe, attempt>>
network == <<optional, reachable, outages>>
counters == <<redis, memory, age, cut>>
clientVars == <<client, usingMemory, probing, network, counters>>

Empty == [k \in Keys |-> Absent]
Fresh == [k \in Keys |-> 0]

\* The application has started, which it does on Redis, or in memory.
ClientInit ==
    /\ optional \in BOOLEAN /\ reachable \in BOOLEAN /\ outages = 0
    /\ optional \/ reachable
    /\ client = (IF reachable THEN "redis" ELSE "memory")
    /\ usingMemory = ~reachable
    /\ probe = [p \in Probes |-> "idle"] /\ attempt = [p \in Probes |-> 1]
    /\ redis = Empty /\ memory = Empty /\ age = Fresh /\ cut = {}

-----------------------------------------------------------------------------
(* healthcheck.                                                             *)

StartProbe(p) ==
    /\ probe[p] = "idle"
    /\ probe' = [probe EXCEPT ![p] = "ping"]
    /\ UNCHANGED <<client, usingMemory, attempt, network, counters>>

Answered(p) == /\ probe' = [probe EXCEPT ![p] = "idle"]
               /\ attempt' = [attempt EXCEPT ![p] = 1]

PingOk(p) ==
    /\ probe[p] = "ping"
    /\ client = "memory" \/ (client = "redis" /\ reachable)
    /\ Answered(p)
    /\ UNCHANGED <<client, usingMemory, network, counters>>

\* Mutant: without a client there is nothing to reconnect.
ReconnectsIfAny == IF usingMemory \/ client = "none" THEN "ping" ELSE "close"

\* _try_reconnect, up to its first await; then the next attempt.
Reconnects == IF usingMemory THEN "ping"
              ELSE IF client = "none" THEN "connect" ELSE "close"

\* The ping raises, also because there is no client.
PingFails(p) ==
    /\ probe[p] = "ping"
    /\ client = "none" \/ (client = "redis" /\ ~reachable)
    /\ IF attempt[p] < Retries
       THEN /\ attempt' = [attempt EXCEPT ![p] = @ + 1]
            /\ probe' = [probe EXCEPT ![p] = Reconnects]
       ELSE Answered(p)
    /\ UNCHANGED <<client, usingMemory, network, counters>>

\* disconnect, after the await: whatever the client is by now, it is dropped,
\* and a store in memory with it.
Disconnect(p) ==
    /\ probe[p] = "close"
    /\ probe' = [probe EXCEPT ![p] = "connect"]
    /\ client' = "none"
    /\ memory' = Empty /\ age' = Fresh /\ cut' = cut \ ({"memory"} \X Keys)
    /\ UNCHANGED <<usingMemory, attempt, network, redis>>

\* Closing raises, and the client stays.
DisconnectFails(p) ==
    /\ probe[p] = "close" /\ CanFail
    /\ probe' = [probe EXCEPT ![p] = "ping"]
    /\ UNCHANGED <<client, usingMemory, attempt, network, counters>>

\* Mutant: the flag stays as it was.
ConnectOkKeeps(p) ==
    /\ probe[p] = "connect" /\ reachable
    /\ probe' = [probe EXCEPT ![p] = "ping"]
    /\ client' = "redis"
    /\ memory' = Empty /\ age' = Fresh /\ cut' = cut \ ({"memory"} \X Keys)
    /\ UNCHANGED <<usingMemory, attempt, network, redis>>

\* connect.
ConnectOk(p) ==
    /\ probe[p] = "connect" /\ reachable
    /\ probe' = [probe EXCEPT ![p] = "ping"]
    /\ client' = "redis" /\ usingMemory' = FALSE
    /\ memory' = Empty /\ age' = Fresh /\ cut' = cut \ ({"memory"} \X Keys)
    /\ UNCHANGED <<attempt, network, redis>>

\* It raises, or sets up an empty store in memory.
ConnectFails(p) ==
    /\ probe[p] = "connect" /\ ~reachable
    /\ probe' = [probe EXCEPT ![p] = "ping"]
    /\ IF optional
       THEN /\ client' = "memory" /\ usingMemory' = TRUE
            /\ memory' = Empty /\ age' = Fresh /\ cut' = cut \ ({"memory"} \X Keys)
       ELSE UNCHANGED <<client, usingMemory, memory, age, cut>>
    /\ UNCHANGED <<attempt, network, redis>>

Probe(p) == \/ PingOk(p) \/ PingFails(p) \/ Disconnect(p) \/ DisconnectFails(p)
            \/ ConnectOk(p) \/ ConnectFails(p)

-----------------------------------------------------------------------------
(* incr_with_ttl, by a caller that holds the client of its first step.      *)

\* In memory.  late: the counter expires between the two looks at it, so it
\* is found and yet begun anew, without a TTL.
MemoryIncr(k, late) ==
    /\ client = "memory"
    /\ late => memory[k].ttl = 1
    /\ LET e == IF late THEN Absent ELSE memory[k] IN
       /\ memory' = [memory EXCEPT ![k] = MemoryIncremented(e, Live(memory[k]), Window)]
       /\ age' = [age EXCEPT ![k] = IF Live(e) THEN @ ELSE 0]
       /\ cut' = IF late THEN cut \cup {<<"memory", k>>} ELSE cut
    /\ UNCHANGED redis

\* INCR in Redis, which retry_on_timeout may repeat; a new counter that is
\* not answered with 1 will not be given a TTL.
Incr(k, n) ==
    /\ client = "redis" /\ reachable
    /\ n = 1 \/ CanFail
    /\ redis' = [redis EXCEPT ![k] = IF n = 1 THEN Incremented(@)
                                     ELSE Incremented(Incremented(@))]
    /\ cut' = IF ~Live(redis[k]) /\ n > 1 THEN cut \cup {<<"redis", k>>} ELSE cut
    /\ UNCHANGED <<memory, age>>

\* It raises, with or without having counted.
IncrLost(k) ==
    /\ client = "redis" /\ (reachable => CanFail)
    /\ \/ UNCHANGED <<redis, cut>>
       \/ /\ reachable
          /\ redis' = [redis EXCEPT ![k] = Incremented(@)]
          /\ cut' = IF Live(redis[k]) THEN cut ELSE cut \cup {<<"redis", k>>}
    /\ UNCHANGED <<memory, age>>

\* EXPIRE, over the same connection, even when the client has been replaced.
SetExpiry(k) ==
    /\ reachable
    /\ redis' = [redis EXCEPT ![k] = Expire(@, Window)]
    /\ cut' = cut \ {<<"redis", k>>}
    /\ UNCHANGED <<memory, age>>

\* It raises, with or without effect.
ExpiryLost(k) ==
    /\ reachable => CanFail
    /\ \/ cut' = cut \cup {<<"redis", k>>} /\ UNCHANGED redis
       \/ reachable /\ redis' = [redis EXCEPT ![k] = Expire(@, Window)] /\ UNCHANGED cut
    /\ UNCHANGED <<memory, age>>

-----------------------------------------------------------------------------
Outage == /\ reachable /\ outages < MaxOutages
          /\ reachable' = FALSE /\ outages' = outages + 1
          /\ UNCHANGED <<client, usingMemory, probing, optional, counters>>

Restore == /\ ~reachable /\ reachable' = TRUE
           /\ UNCHANGED <<client, usingMemory, probing, optional, outages, counters>>

\* Time passes; the age of a window matters while there is one, and no more
\* when it is over its length.
Tick == /\ redis' = [k \in Keys |-> Aged(redis[k])]
        /\ memory' = [k \in Keys |-> Aged(memory[k])]
        /\ age' = [k \in Keys |-> IF ~Live(memory'[k]) THEN 0
                                 ELSE IF age[k] < Window * Second THEN age[k] + 1 ELSE age[k]]
        /\ UNCHANGED <<client, usingMemory, probing, network, cut>>

ClientTypeOK ==
    /\ optional \in BOOLEAN /\ client \in {"none", "redis", "memory"}
    /\ usingMemory \in BOOLEAN /\ reachable \in BOOLEAN /\ outages \in 0..MaxOutages
    /\ probe \in [Probes -> {"idle", "ping", "close", "connect"}]
    /\ attempt \in [Probes -> 1..Retries]
    /\ redis \in [Keys -> Entry] /\ memory \in [Keys -> Entry]
    /\ age \in [Keys -> 0 .. Window * Second]
    /\ cut \subseteq {"redis", "memory"} \X Keys

\* using_memory, which reports and readiness are made of, tells what the
\* client is, whatever health checks overlap; but while one reconnects it
\* may still tell of the store that this check has dropped.
FlagIsTrue ==
    /\ client = "memory" => usingMemory
    /\ usingMemory => client = "memory" \/ \E p \in Probes : probe[p] = "connect"
==============================================================================
