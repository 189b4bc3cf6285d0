----------------------------- MODULE ToolsProofs -----------------------------
(***************************************************************************)
(* What holds of AgentTools, and of the client under it, for any turns and *)
(* health checks at once, any limits, windows and outages.                 *)
(***************************************************************************)
EXTENDS AgentTools, TLAPS

\* The client's part of TypeOK, and FlagIsTrue, which needs to know that the
\* store in memory is only used where it may be.
ClientOK ==
    /\ client \in {"none", "redis", "memory"} /\ outages \in 0..MaxOutages
    /\ probe \in [Probes -> {"idle", "ping", "close", "connect"}]
    /\ attempt \in [Probes -> 1..Retries]

ClientFlags ==
    /\ optional \in BOOLEAN /\ usingMemory \in BOOLEAN /\ reachable \in BOOLEAN
    /\ usingMemory => optional
    /\ FlagIsTrue

\* The part of the turns; who is about to set a TTL sets that of a counter.
PlacesOK ==
    /\ words \in [Turns -> Words]
    /\ pc \in [Turns -> {"idle", "incr", "expire", "reply"} \cup Outcomes]

TurnFlags ==
    /\ gemini \in BOOLEAN
    /\ fellBack \in [Turns -> BOOLEAN] /\ failed \in [Turns -> Failures]

\* Only Gemini's reply is still to come when a failure is among the results.
Listed == \A t \in Turns : failed[t] = "listed" => pc[t] = "reply"

Expiring == \A t \in Turns : pc[t] = "expire" => Tool(t) \in Keys

\* The part of the counters.
MemoryOK == memory \in [Keys -> Entry] /\ age \in [Keys -> 0 .. Window * Second]

RedisOK == redis \in [Keys -> Entry] /\ cut \subseteq {"redis", "memory"} \X Keys

MemoryEnds == \A k \in Keys : memory[k].ttl = Endless => <<"memory", k>> \in cut

RedisEnds ==
    \A k \in Keys : redis[k].ttl = Endless =>
        \/ <<"redis", k>> \in cut
        \/ \E t \in Turns : pc[t] = "expire" /\ Tool(t) = k

-----------------------------------------------------------------------------
(* The entries.                                                             *)

\* The values and TTLs of entries, and which entries are gone.
LEMMA EntryFacts ==
    \A e \in Entry : /\ e.val \in Nat /\ e.ttl \in Int
                     /\ Live(e) => e.ttl = Endless \/ e.ttl >= 1
                     /\ ~Live(e) => e = Absent
                     /\ e.ttl = Endless => Live(e)
  BY DEF Entry, Absent, Endless, Live

\* What makes an entry.
LEMMA EntryMade ==
    ASSUME NEW v \in Nat \ {0}, NEW l \in (Nat \ {0}) \cup {Endless}
    PROVE  [val |-> v, ttl |-> l] \in Entry /\ Live([val |-> v, ttl |-> l])
  BY DEF Entry, Live

\* A TTL in seconds is one in ticks.
LEMMA Ticks ==
    ASSUME NEW ex \in Nat \ {0}
    PROVE  ex * Second \in Nat \ {0}
  BY SecondAssumption

\* Age takes a tick from a TTL, and nothing from one without an end.
LEMMA AgedFacts ==
    ASSUME NEW e \in Entry
    PROVE  /\ Aged(e) \in Entry
           /\ Aged(e).ttl = Endless <=> e.ttl = Endless
           /\ Live(Aged(e)) => Live(e) /\ Aged(e).val = e.val
           /\ Live(Aged(e)) /\ e.ttl # Endless => Aged(e).ttl = e.ttl - 1
  <1>1. CASE e = Absent
    BY <1>1 DEF Aged, Absent, Live, Entry, Endless
  <1>2. CASE e \in [val : Nat \ {0}, ttl : (Nat \ {0}) \cup {Endless}]
    <2>1. CASE e.ttl = 1 \/ e.ttl = Endless
      BY <1>2, <2>1 DEF Aged, Absent, Live, Entry, Endless
    <2>2. CASE e.ttl > 1
      <3>1. Aged(e) = [e EXCEPT !.ttl = @ - 1]
        BY <1>2, <2>2 DEF Aged
      <3>2. Aged(e).ttl = e.ttl - 1 /\ Aged(e).val = e.val /\ e.ttl - 1 \in Nat \ {0}
        BY <1>2, <2>2, <3>1 DEF Endless
      <3>3. Aged(e) \in [val : Nat \ {0}, ttl : (Nat \ {0}) \cup {Endless}]
        BY <1>2, <3>1, <3>2
      <3>. QED
        BY <2>2, <3>2, <3>3 DEF Live, Entry, Endless
    <2>. QED
      BY <1>2, <2>1, <2>2 DEF Endless
  <1>. QED
    BY <1>1, <1>2 DEF Entry

\* EXPIRE leaves no entry without an end.
LEMMA ExpireFacts ==
    ASSUME NEW e \in Entry
    PROVE  /\ Expire(e, Window) \in Entry
           /\ Expire(e, Window).ttl # Endless
  <1>1. Window * Second \in Nat \ {0}
    BY Ticks, ClientAssumption
  <1>2. CASE Live(e)
    <2>1. e \in [val : Nat \ {0}, ttl : (Nat \ {0}) \cup {Endless}]
      BY <1>2 DEF Entry, Absent, Live
    <2>2. Expire(e, Window) = [e EXCEPT !.ttl = Window * Second]
      BY <1>2 DEF Expire
    <2>. QED
      BY <1>1, <2>1, <2>2 DEF Entry, Endless
  <1>3. CASE ~Live(e)
    BY <1>3, EntryFacts DEF Expire, Absent, Endless
  <1>. QED
    BY <1>2, <1>3

\* INCR leaves a live entry, without an end only if it was so or is new.
LEMMA IncrementedFacts ==
    ASSUME NEW e \in Entry
    PROVE  /\ Incremented(e) \in Entry
           /\ Live(Incremented(e)) /\ Incremented(e).val = e.val + 1
           /\ Live(e) => Incremented(e).ttl = e.ttl
  <1>1. CASE Live(e)
    <2>1. e \in [val : Nat \ {0}, ttl : (Nat \ {0}) \cup {Endless}]
      BY <1>1 DEF Entry, Absent, Live
    <2>2. Incremented(e) = [e EXCEPT !.val = @ + 1]
      BY <1>1 DEF Incremented
    <2>. QED
      BY <2>1, <2>2 DEF Entry, Live
  <1>2. CASE ~Live(e)
    <2>1. e = Absent
      BY <1>2, EntryFacts
    <2>. QED
      BY <1>2, <2>1 DEF Incremented, Entry, Absent, Live, Endless
  <1>. QED
    BY <1>1, <1>2

\* A TTL that is carried over loses less than a second, and gains only when
\* it is less than one.
LEMMA CarriedFacts ==
    ASSUME NEW l \in Nat \ {0}
    PROVE  /\ Carried(l) \in Nat \ {0}
           /\ Carried(l) >= l - (Second - 1)
           /\ Carried(l) <= l \/ Carried(l) <= Second
  <1>1. CASE l < Second
    BY <1>1, SecondAssumption DEF Carried
  <1>2. CASE ~(l < Second)
    <2>1. /\ l \div Second \in Nat
          /\ l = (l \div Second) * Second + (l % Second)
          /\ l % Second \in 0 .. Second - 1
      BY SecondAssumption
    <2>2. l \div Second >= 1
      BY <1>2, SecondAssumption
    <2>3. Carried(l) = (l \div Second) * Second
      BY <1>2 DEF Carried
    <2>4. (l \div Second) * Second \in Nat \ {0}
      BY <2>1, <2>2, SecondAssumption
    <2>. QED
      BY <2>1, <2>3, <2>4, SecondAssumption
  <1>. QED
    BY <1>1, <1>2

\* InMemoryKV.incr on a counter found alive, or begun.
LEMMA MemoryIncrementedFacts ==
    ASSUME NEW e \in Entry, NEW found \in BOOLEAN
    PROVE  LET f == MemoryIncremented(e, found, Window) IN
           /\ f \in Entry /\ Live(f) /\ f.val = e.val + 1
           /\ ~found => f.ttl = Window * Second
           /\ found /\ Live(e) /\ e.ttl # Endless => f.ttl = Carried(e.ttl)
           /\ f.ttl = Endless <=> found /\ ~(Live(e) /\ e.ttl # Endless)
  <1>. DEFINE l == IF ~found THEN Window * Second
                   ELSE IF Live(e) /\ e.ttl # Endless THEN Carried(e.ttl) ELSE Endless
              f == MemoryIncremented(e, found, Window)
  <1>1. e.val + 1 \in Nat \ {0} /\ Window * Second \in Nat \ {0}
    BY EntryFacts, Ticks, ClientAssumption
  <1>2. Live(e) /\ e.ttl # Endless => e.ttl \in Nat \ {0}
    BY EntryFacts
  <1>3. Live(e) /\ e.ttl # Endless => Carried(e.ttl) \in Nat \ {0}
    BY <1>2, CarriedFacts
  <1>4. l \in (Nat \ {0}) \cup {Endless}
    BY <1>1, <1>3
  <1>5. f = [val |-> e.val + 1, ttl |-> l]
    BY DEF MemoryIncremented
  <1>6. l = Endless <=> found /\ ~(Live(e) /\ e.ttl # Endless)
    BY <1>1, <1>3 DEF Endless
  <1>7. (~found => l = Window * Second) /\ (found /\ Live(e) /\ e.ttl # Endless => l = Carried(e.ttl))
    OBVIOUS
  <1>. HIDE DEF l, f
  <1>8. f \in Entry /\ Live(f)
    BY <1>1, <1>4, <1>5, EntryMade
  <1>9. f.val = e.val + 1 /\ f.ttl = l
    BY <1>5
  <1>. QED
    BY <1>6, <1>7, <1>8, <1>9 DEF f

-----------------------------------------------------------------------------
(* What the steps of a turn do to the counters.                             *)

\* Who is answered 1 goes on to set the TTL.
Counts(t, n) ==
    /\ Incr(Tool(t), n)
    /\ redis'[Tool(t)].val = 1 => /\ pc' = [pc EXCEPT ![t] = "expire"]
                                 /\ UNCHANGED <<words, fellBack>>

\* A turn calls the client on the counter of its tool, or not at all.
LEMMA TurnCounts ==
    ASSUME NEW t \in Turns, Turn(t)
    PROVE  \/ UNCHANGED counters /\ pc[t] # "expire"
           \/ /\ pc[t] = "incr" /\ Tool(t) \in Keys
              /\ \/ \E late \in BOOLEAN : MemoryIncr(Tool(t), late)
                 \/ \E n \in {1, 2} : Counts(t, n)
                 \/ IncrLost(Tool(t))
           \/ pc[t] = "expire" /\ (SetExpiry(Tool(t)) \/ ExpiryLost(Tool(t)))
  <1>1. CASE (\E w \in Said : Begin(t, w)) \/ Reply(t) \/ FallBack(t) \/ CallOther(t) \/ CallNobody(t)
    BY <1>1 DEF Begin, Reply, FallBack, CallOther, CallNobody, Calls, clientVars
  <1>2. CASE CallMemory(t, FALSE) \/ CallMemory(t, TRUE)
    BY <1>2 DEF CallMemory, Calls
  <1>3. CASE CallRedis(t, 1) \/ CallRedis(t, 2)
    BY <1>3 DEF CallRedis, Calls, Goto, Counts
  <1>4. CASE CallBreaks(t) \/ Expiry(t) \/ ExpiryBreaks(t)
    BY <1>4 DEF CallBreaks, Calls, Expiry, ExpiryBreaks
  <1>. QED
    BY <1>1, <1>2, <1>3, <1>4 DEF Turn

\* A turn is nobody else's, and the client's own part is not a turn's.
LEMMA TurnKeeps ==
    ASSUME PlacesOK, TurnFlags, NEW t \in Turns, Turn(t)
    PROVE  /\ UNCHANGED <<gemini, client, usingMemory, probing, network>>
           /\ \A u \in Turns \ {t} : pc'[u] = pc[u] /\ Tool(u)' = Tool(u)
  <1>1. UNCHANGED <<gemini, client, usingMemory, probing, network>>
    BY DEF Turn, Begin, Reply, FallBack, CallOther, CallNobody, CallMemory, CallRedis, CallBreaks,
           Expiry, ExpiryBreaks, clientVars
  <1>2. \E l : Goto(t, l)
    BY DEF Turn, Begin, Reply, FallBack, CallOther, CallNobody, CallMemory, CallRedis, CallBreaks,
           Expiry, ExpiryBreaks, Judge, Result, Raise, Proceed
  <1>3. words' = words \/ \E w : words' = [words EXCEPT ![t] = w]
    BY DEF Turn, Begin, Reply, FallBack, CallOther, CallNobody, CallMemory, CallRedis, CallBreaks,
           Expiry, ExpiryBreaks, Judge, Result, Raise, Proceed
  <1>4. fellBack' = fellBack \/ \E w : fellBack' = [fellBack EXCEPT ![t] = w]
    BY DEF Turn, Begin, Reply, FallBack, CallOther, CallNobody, CallMemory, CallRedis, CallBreaks,
           Expiry, ExpiryBreaks, Judge, Result, Raise, Proceed
  <1>5. ASSUME NEW u \in Turns \ {t}
        PROVE  pc'[u] = pc[u] /\ words'[u] = words[u] /\ fellBack'[u] = fellBack[u]
    BY <1>2, <1>3, <1>4 DEF PlacesOK, TurnFlags, Goto
  <1>. QED
    BY <1>1, <1>5 DEF Tool, ByGemini

-----------------------------------------------------------------------------
(* The client.                                                              *)

LEMMA ClientStep ==
    ASSUME ClientOK, ClientFlags, PlacesOK, TurnFlags, [Next]_vars
    PROVE  ClientOK' /\ ClientFlags'
  <1>1. ASSUME UNCHANGED <<client, usingMemory, probing, network>>
        PROVE  ClientOK' /\ ClientFlags'
    BY <1>1 DEF ClientOK, ClientFlags, FlagIsTrue, probing, network
  <1>2. ASSUME NEW t \in Turns, Turn(t)
        PROVE  ClientOK' /\ ClientFlags'
    BY <1>1, <1>2, TurnKeeps
  <1>3. ASSUME NEW p \in Probes, Ask(p)
        PROVE  ClientOK' /\ ClientFlags'
    <2>1. /\ UNCHANGED <<client, usingMemory, attempt, optional, reachable, outages>>
          /\ probe[p] = "idle" /\ probe' = [probe EXCEPT ![p] = "ping"]
      BY <1>3 DEF Ask, StartProbe, network
    <2>. QED
      BY <2>1 DEF ClientOK, ClientFlags, FlagIsTrue
  <1>4. ASSUME NEW p \in Probes, Check(p)
        PROVE  ClientOK' /\ ClientFlags'
    <2>1. CASE PingOk(p)
      <3>1. ClientOK'
        BY <2>1, ClientAssumption DEF PingOk, Answered, ClientOK, network
      <3>2. ClientFlags'
        BY <2>1 DEF PingOk, Answered, ClientOK, ClientFlags, FlagIsTrue, network
      <3>. QED
        BY <3>1, <3>2
    <2>2. CASE PingFails(p)
      <3>1. attempt' \in [Probes -> 1..Retries]
        BY <2>2, ClientAssumption DEF PingFails, Answered, ClientOK
      <3>2. \E l \in {"idle", "ping", "close", "connect"} : probe' = [probe EXCEPT ![p] = l]
        BY <2>2 DEF PingFails, Answered, Reconnects
      <3>3. ClientOK'
        BY <2>2, <3>1, <3>2 DEF PingFails, ClientOK, network
      <3>4. ClientFlags'
        BY <2>2, <3>2 DEF PingFails, ClientOK, ClientFlags, FlagIsTrue, network
      <3>. QED
        BY <3>3, <3>4
    <2>3. CASE Disconnect(p)
      BY <2>3 DEF Disconnect, ClientOK, ClientFlags, FlagIsTrue, network
    <2>4. CASE DisconnectFails(p)
      BY <2>4 DEF DisconnectFails, ClientOK, ClientFlags, FlagIsTrue, network
    <2>5. CASE ConnectOk(p)
      BY <2>5 DEF ConnectOk, ClientOK, ClientFlags, FlagIsTrue, network
    <2>6. CASE ConnectFails(p)
      BY <2>6 DEF ConnectFails, ClientOK, ClientFlags, FlagIsTrue, network
    <2>. QED
      BY <1>4, <2>1, <2>2, <2>3, <2>4, <2>5, <2>6 DEF Check, Probe
  <1>5. CASE Outage \/ Restore
    <2>1. ClientOK'
      BY <1>5, ClientAssumption DEF Outage, Restore, ClientOK, probing
    <2>2. FlagIsTrue'
      BY <1>5 DEF Outage, Restore, ClientFlags, FlagIsTrue, probing
    <2>3. reachable' \in BOOLEAN /\ UNCHANGED <<optional, usingMemory>>
      BY <1>5 DEF Outage, Restore
    <2>. QED
      BY <2>1, <2>2, <2>3 DEF ClientFlags
  <1>6. CASE Tick \/ UNCHANGED vars
    BY <1>1, <1>6 DEF Tick, vars, clientVars
  <1>. QED
    BY <1>2, <1>3, <1>4, <1>5, <1>6 DEF Next

-----------------------------------------------------------------------------
(* The turns.                                                               *)

\* What a step of a turn is, to the turn.
LEMMA TurnEffect ==
    ASSUME NEW t \in Turns, Turn(t)
    PROVE  \/ \E w \in Said : Begin(t, w)
           \/ pc[t] # "reply" /\ \E ok \in BOOLEAN : Result(t, ok)
           \/ Reply(t) \/ FallBack(t) \/ Raise(t)
           \/ Calls(t) /\ Goto(t, "expire") /\ UNCHANGED <<words, fellBack, failed>>
  <1>1. ASSUME NEW count, Judge(t, count)
        PROVE  \E ok \in BOOLEAN : Result(t, ok)
    BY <1>1 DEF Judge, Permitted
  <1>2. CASE CallOther(t) \/ CallNobody(t) \/ CallMemory(t, FALSE) \/ CallMemory(t, TRUE)
    BY <1>1, <1>2 DEF CallOther, CallNobody, CallMemory, Calls
  <1>3. CASE CallRedis(t, 1) \/ CallRedis(t, 2)
    BY <1>1, <1>3 DEF CallRedis, Calls
  <1>4. CASE CallBreaks(t) \/ Expiry(t) \/ ExpiryBreaks(t)
    BY <1>1, <1>4 DEF CallBreaks, Expiry, ExpiryBreaks, Calls
  <1>. QED
    BY <1>2, <1>3, <1>4 DEF Turn

LEMMA TurnStep ==
    ASSUME PlacesOK, TurnFlags, Expiring, Listed, [Next]_vars
    PROVE  PlacesOK' /\ TurnFlags' /\ Expiring' /\ Listed'
  <1>1. ASSUME NEW t \in Turns, Turn(t)
        PROVE  PlacesOK' /\ TurnFlags' /\ Expiring' /\ Listed'
    <2>1. gemini' = gemini /\ \A u \in Turns \ {t} : pc'[u] = pc[u] /\ Tool(u)' = Tool(u)
      BY <1>1, TurnKeeps
    <2>2. PlacesOK'
      <3>1. CASE (\E w \in Said : Begin(t, w)) \/ FallBack(t)
        BY <3>1, ToolsAssumption DEF PlacesOK, Begin, Begins, FallBack, Goto, Outcomes
      <3>2. CASE (\E ok \in BOOLEAN : Result(t, ok)) \/ Reply(t) \/ Raise(t)
        <4>1. \E l \in {"reply"} \cup Outcomes : \E f : Proceed(t, l, f)
          BY <3>2 DEF Result, Reply, Raise, Decision, Outcomes
        <4>. QED
          BY <4>1 DEF PlacesOK, Proceed, Goto, Outcomes, Words
      <3>3. CASE Calls(t) /\ Goto(t, "expire") /\ UNCHANGED <<words, fellBack, failed>>
        BY <3>3 DEF PlacesOK, Goto, Outcomes
      <3>. QED
        BY <1>1, <3>1, <3>2, <3>3, TurnEffect
    <2>3. fellBack' \in [Turns -> BOOLEAN]
      BY <1>1, TurnEffect
         DEF TurnFlags, Begin, Result, Reply, FallBack, Raise, Proceed
    <2>4. failed' \in [Turns -> Failures]
      BY <1>1, TurnEffect
         DEF TurnFlags, Begin, Result, Reply, FallBack, Raise, Proceed, Failures
    <2>5. pc'[t] = "expire" => Tool(t)' \in Keys
      <3>1. CASE Goto(t, "expire") /\ Calls(t) /\ UNCHANGED <<words, fellBack, failed>>
        BY <2>1, <3>1 DEF Calls, Tool, ByGemini
      <3>2. CASE ~(Goto(t, "expire") /\ Calls(t) /\ UNCHANGED <<words, fellBack, failed>>)
        <4>1. \E l \in {"incr", "reply"} \cup Outcomes : Goto(t, l)
          BY <1>1, <3>2, TurnEffect
             DEF Begin, Begins, Result, Decision, Reply, FallBack, Raise, Proceed, Outcomes
        <4>. QED
          BY <4>1 DEF Goto, PlacesOK, Outcomes
      <3>. QED
        BY <3>1, <3>2
    <2>6. Expiring'
      BY <2>1, <2>5 DEF Expiring
    <2>7. \A u \in Turns \ {t} : failed'[u] = failed[u]
      BY <1>1, TurnEffect
         DEF TurnFlags, Begin, Result, Reply, FallBack, Raise, Proceed
    <2>8. failed'[t] = "listed" => pc'[t] = "reply"
      <3>. USE DEF PlacesOK, TurnFlags, Listed
      <3>1. ASSUME NEW ok \in BOOLEAN, Result(t, ok), pc[t] # "reply"
            PROVE  failed'[t] = "listed" => pc'[t] = "reply"
        <4>1. CASE ByGemini(t)
          BY <3>1, <4>1 DEF Result, Proceed, Goto
        <4>2. CASE ~ByGemini(t) /\ ok
          BY <3>1, <4>2 DEF Result, Proceed, Goto
        <4>3. CASE ~ByGemini(t) /\ ~ok
          BY <3>1, <4>3 DEF Result, Proceed, Goto, Decision, Escalates
        <4>. QED
          BY <4>1, <4>2, <4>3
      <3>2. CASE Reply(t)
        BY <3>2 DEF Reply, Decision, Escalates, Proceed, Goto
      <3>3. CASE Raise(t)
        BY <3>3 DEF Raise, Proceed
      <3>4. CASE FallBack(t)
        BY <3>4 DEF FallBack
      <3>5. CASE \/ \E w \in Said : Begin(t, w)
                 \/ Calls(t) /\ Goto(t, "expire") /\ UNCHANGED <<words, fellBack, failed>>
        BY <3>5 DEF Begin, Calls
      <3>. QED
        BY <1>1, <3>1, <3>2, <3>3, <3>4, <3>5, TurnEffect
    <2>9. Listed'
      BY <2>1, <2>7, <2>8 DEF Listed
    <2>. QED
      BY <2>1, <2>2, <2>3, <2>4, <2>6, <2>9 DEF TurnFlags
  <1>2. ASSUME UNCHANGED <<gemini, turns>>
        PROVE  PlacesOK' /\ TurnFlags' /\ Expiring' /\ Listed'
    BY <1>2 DEF PlacesOK, TurnFlags, Expiring, Listed, Tool, ByGemini, turns
  <1>3. CASE UNCHANGED vars
    BY <1>2, <1>3 DEF vars
  <1>. QED
    BY <1>1, <1>2, <1>3 DEF Next, Ask, Check

-----------------------------------------------------------------------------
(* The counters in memory.                                                  *)

MemoryInv == MemoryOK /\ MemoryEnds /\ WindowKept

\* What cut says of the counters in memory only a call on them changes.
LEMMA MemoryStays ==
    ASSUME MemoryInv, UNCHANGED <<memory, age>>,
           \A k \in Keys : <<"memory", k>> \in cut => <<"memory", k>> \in cut'
    PROVE  MemoryInv'
  BY DEF MemoryInv, MemoryOK, MemoryEnds, WindowKept

LEMMA MemoryForgotten ==
    ASSUME memory' = Empty, age' = Fresh
    PROVE  MemoryInv'
  <1>1. \A k \in Keys : memory'[k] = Absent /\ age'[k] = 0
    BY DEF Empty, Fresh
  <1>2. Absent \in Entry /\ ~Live(Absent) /\ Absent.ttl # Endless
    BY DEF Entry, Absent, Live, Endless
  <1>3. 0 \in 0 .. Window * Second
    BY Ticks, ClientAssumption
  <1>4. MemoryOK'
    BY <1>2, <1>3 DEF MemoryOK, Empty, Fresh
  <1>. QED
    BY <1>1, <1>2, <1>4 DEF MemoryInv, MemoryEnds, WindowKept

\* An increment keeps the window of its counter.
LEMMA MemoryCounts ==
    ASSUME MemoryInv, NEW k \in Keys, NEW late \in BOOLEAN, MemoryIncr(k, late)
    PROVE  MemoryInv'
  <1>. DEFINE e == IF late THEN Absent ELSE memory[k]
              f == MemoryIncremented(e, Live(memory[k]), Window)
  <1>1. Absent \in Entry /\ ~Live(Absent) /\ Absent.ttl # Endless /\ Absent.val = 0
    BY DEF Entry, Absent, Live, Endless
  <1>2. e \in Entry /\ memory[k] \in Entry /\ Live(memory[k]) \in BOOLEAN
    BY <1>1 DEF MemoryInv, MemoryOK, Live
  <1>3. /\ f \in Entry /\ Live(f) /\ f.val = e.val + 1
        /\ ~Live(memory[k]) => f.ttl = Window * Second
        /\ Live(memory[k]) /\ Live(e) /\ e.ttl # Endless => f.ttl = Carried(e.ttl)
        /\ f.ttl = Endless <=> Live(memory[k]) /\ ~(Live(e) /\ e.ttl # Endless)
    BY <1>2, MemoryIncrementedFacts
  <1>4. /\ memory' = [memory EXCEPT ![k] = f]
        /\ age' = [age EXCEPT ![k] = IF Live(e) THEN age[k] ELSE 0]
        /\ cut' = IF late THEN cut \cup {<<"memory", k>>} ELSE cut
    BY DEF MemoryIncr
  <1>5. late => Live(memory[k])
    BY <1>2, EntryFacts DEF MemoryIncr, Absent
  <1>6. ~late => e = memory[k]
    OBVIOUS
  <1>7. late => e = Absent
    OBVIOUS
  <1>. HIDE DEF e, f
  <1>8. Window * Second \in Nat \ {0}
    BY Ticks, ClientAssumption
  <1>9. MemoryOK'
    BY <1>3, <1>4, <1>8 DEF MemoryInv, MemoryOK
  <1>10. MemoryEnds'
    <2>1. f.ttl = Endless => <<"memory", k>> \in cut'
      BY <1>2, <1>3, <1>4, <1>6 DEF MemoryInv, MemoryEnds
    <2>2. \A j \in Keys \ {k} : memory'[j] = memory[j]
      BY <1>4 DEF MemoryInv, MemoryOK
    <2>3. memory'[k] = f
      BY <1>4 DEF MemoryInv, MemoryOK
    <2>. QED
      BY <1>4, <2>1, <2>2, <2>3 DEF MemoryInv, MemoryEnds
  <1>11. ASSUME f.ttl # Endless
         PROVE  /\ age'[k] + f.ttl >= Window * Second - (f.val - 1) * (Second - 1)
                /\ age'[k] + f.ttl <= Window * Second \/ f.ttl <= Second
    <2>1. age[k] \in Nat
      BY <1>8 DEF MemoryInv, MemoryOK
    <2>2. CASE ~Live(memory[k])
      <3>1. ~late /\ e = Absent
        BY <1>2, <1>5, <1>6, <2>2, EntryFacts
      <3>2. age'[k] = 0 /\ f.ttl = Window * Second /\ f.val = 1
        BY <1>1, <1>3, <1>4, <2>2, <3>1 DEF MemoryInv, MemoryOK
      <3>. QED
        BY <1>8, <3>2, SecondAssumption
    <2>3. CASE Live(memory[k])
      <3>1. e.ttl # Endless /\ Live(e)
        BY <1>3, <1>11, <2>3
      <3>2. ~late /\ e = memory[k]
        BY <1>1, <1>6, <1>7, <3>1
      <3>3. e.ttl \in Nat \ {0} /\ e.val \in Nat \ {0}
        BY <1>2, <3>1, EntryFacts DEF Live
      <3>4. f.ttl = Carried(e.ttl) /\ age'[k] = age[k] /\ f.val = e.val + 1
        BY <1>3, <1>4, <2>3, <3>1 DEF MemoryInv, MemoryOK
      <3>5. /\ Carried(e.ttl) \in Nat \ {0}
            /\ Carried(e.ttl) >= e.ttl - (Second - 1)
            /\ Carried(e.ttl) <= e.ttl \/ Carried(e.ttl) <= Second
        BY <3>3, CarriedFacts
      <3>6. /\ age[k] + e.ttl >= Window * Second - (e.val - 1) * (Second - 1)
            /\ age[k] + e.ttl <= Window * Second \/ e.ttl <= Second
        BY <3>1, <3>2 DEF MemoryInv, WindowKept
      <3>7. (f.val - 1) * (Second - 1) = (e.val - 1) * (Second - 1) + (Second - 1)
        BY <3>3, <3>4, SecondAssumption
      <3>8. (e.val - 1) * (Second - 1) \in Int
        BY <3>3, SecondAssumption
      <3>. QED
        BY <1>8, <2>1, <3>3, <3>4, <3>5, <3>6, <3>7, <3>8, SecondAssumption
    <2>. QED
      BY <2>2, <2>3
  <1>12. WindowKept'
    <2>1. memory'[k] = f /\ \A j \in Keys \ {k} : memory'[j] = memory[j] /\ age'[j] = age[j]
      BY <1>4 DEF MemoryInv, MemoryOK
    <2>. QED
      BY <1>11, <2>1 DEF MemoryInv, WindowKept
  <1>. QED
    BY <1>9, <1>10, <1>12 DEF MemoryInv

\* A tick ages a window by as much as it takes from its TTL.
LEMMA MemoryAges ==
    ASSUME MemoryInv, Tick
    PROVE  MemoryInv'
  <1>1. /\ memory' = [k \in Keys |-> Aged(memory[k])] /\ cut' = cut
        /\ age' = [k \in Keys |-> IF ~Live(memory'[k]) THEN 0
                                  ELSE IF age[k] < Window * Second THEN age[k] + 1 ELSE age[k]]
    BY DEF Tick
  <1>2. Window * Second \in Nat \ {0}
    BY Ticks, ClientAssumption
  <1>3. \A k \in Keys : /\ memory'[k] = Aged(memory[k]) /\ memory[k] \in Entry
                        /\ age[k] \in 0 .. Window * Second
    BY <1>1 DEF MemoryInv, MemoryOK
  <1>4. memory' \in [Keys -> Entry]
    BY <1>1, <1>3, AgedFacts
  <1>5. age' \in [Keys -> 0 .. Window * Second]
    BY <1>1, <1>2, <1>3
  <1>6. MemoryEnds'
    BY <1>1, <1>3, AgedFacts DEF MemoryInv, MemoryEnds
  <1>7. ASSUME NEW k \in Keys, Live(memory'[k]), memory'[k].ttl # Endless
        PROVE  /\ age'[k] + memory'[k].ttl
                    >= Window * Second - (memory'[k].val - 1) * (Second - 1)
               /\ age'[k] + memory'[k].ttl <= Window * Second \/ memory'[k].ttl <= Second
    <2>1. /\ Live(memory[k]) /\ memory[k].ttl # Endless
          /\ memory'[k].val = memory[k].val /\ memory'[k].ttl = memory[k].ttl - 1
      BY <1>3, <1>7, AgedFacts
    <2>2. /\ age[k] + memory[k].ttl >= Window * Second - (memory[k].val - 1) * (Second - 1)
          /\ age[k] + memory[k].ttl <= Window * Second \/ memory[k].ttl <= Second
      BY <2>1 DEF MemoryInv, WindowKept
    <2>3. memory[k].ttl \in Nat \ {0} /\ memory[k].val \in Nat \ {0}
      BY <1>3, <2>1, EntryFacts DEF Live
    <2>4. (memory[k].val - 1) * (Second - 1) \in Nat
      BY <2>3, SecondAssumption
    <2>5. age'[k] = IF age[k] < Window * Second THEN age[k] + 1 ELSE age[k]
      BY <1>1, <1>7
    <2>. QED
      BY <1>2, <1>3, <2>1, <2>2, <2>3, <2>4, <2>5, SecondAssumption
  <1>8. WindowKept'
    BY <1>7 DEF WindowKept
  <1>. QED
    BY <1>4, <1>5, <1>6, <1>8 DEF MemoryInv, MemoryOK

\* What the other calls do to the counters in memory.
LEMMA RedisCalls ==
    ASSUME NEW k,
           (\E n \in {1, 2} : Incr(k, n)) \/ IncrLost(k) \/ SetExpiry(k) \/ ExpiryLost(k)
    PROVE  /\ UNCHANGED <<memory, age>>
           /\ \A j \in Keys : <<"memory", j>> \in cut => <<"memory", j>> \in cut'
  <1>1. \A j \in Keys : <<"memory", j>> # <<"redis", k>>
    OBVIOUS
  <1>. QED
    BY <1>1 DEF Incr, IncrLost, SetExpiry, ExpiryLost

\* What a health check does to the counters.
LEMMA ProbeCounts ==
    ASSUME NEW p \in Probes, Probe(p)
    PROVE  \/ UNCHANGED counters
           \/ /\ memory' = Empty /\ age' = Fresh /\ redis' = redis
              /\ cut' = cut \ ({"memory"} \X Keys)
  BY DEF Probe, PingOk, PingFails, Disconnect, DisconnectFails, ConnectOk, ConnectFails, counters

LEMMA MemoryStep ==
    ASSUME MemoryInv, [Next]_vars
    PROVE  MemoryInv'
  <1>1. ASSUME UNCHANGED counters
        PROVE  MemoryInv'
    BY <1>1, MemoryStays DEF counters
  <1>2. ASSUME NEW t \in Turns, Turn(t)
        PROVE  MemoryInv'
    BY <1>1, <1>2, TurnCounts, MemoryCounts, RedisCalls, MemoryStays DEF Counts
  <1>3. ASSUME NEW p \in Probes, Ask(p) \/ Check(p)
        PROVE  MemoryInv'
    BY <1>1, <1>3, ProbeCounts, MemoryForgotten DEF Ask, StartProbe, Check
  <1>4. CASE Outage \/ Restore \/ UNCHANGED vars
    BY <1>1, <1>4 DEF Outage, Restore, vars, clientVars
  <1>5. CASE Tick
    BY <1>5, MemoryAges
  <1>. QED
    BY <1>2, <1>3, <1>4, <1>5 DEF Next

-----------------------------------------------------------------------------
(* The counters in Redis.                                                   *)

LEMMA RedisTyped ==
    ASSUME RedisOK, Expiring, [Next]_vars
    PROVE  RedisOK'
  <1>1. ASSUME UNCHANGED counters
        PROVE  RedisOK'
    BY <1>1 DEF RedisOK, counters
  <1>2. ASSUME NEW k \in Keys, NEW late, MemoryIncr(k, late)
        PROVE  RedisOK'
    BY <1>2 DEF RedisOK, MemoryIncr
  <1>3. ASSUME NEW k \in Keys, (\E n \in {1, 2} : Incr(k, n)) \/ IncrLost(k)
        PROVE  RedisOK'
    <2>1. redis[k] \in Entry /\ Incremented(redis[k]) \in Entry
          /\ Incremented(Incremented(redis[k])) \in Entry
      BY IncrementedFacts DEF RedisOK
    <2>2. redis' \in [Keys -> Entry]
      BY <1>3, <2>1 DEF RedisOK, Incr, IncrLost
    <2>3. cut' = cut \/ cut' = cut \cup {<<"redis", k>>}
      BY <1>3 DEF Incr, IncrLost
    <2>. QED
      BY <2>2, <2>3 DEF RedisOK
  <1>4. ASSUME NEW k \in Keys, SetExpiry(k) \/ ExpiryLost(k)
        PROVE  RedisOK'
    <2>1. redis[k] \in Entry /\ Expire(redis[k], Window) \in Entry
      BY ExpireFacts DEF RedisOK
    <2>2. redis' \in [Keys -> Entry]
      BY <1>4, <2>1 DEF RedisOK, SetExpiry, ExpiryLost
    <2>3. cut' \in {cut, cut \cup {<<"redis", k>>}, cut \ {<<"redis", k>>}}
      BY <1>4 DEF SetExpiry, ExpiryLost
    <2>. QED
      BY <2>2, <2>3 DEF RedisOK
  <1>5. ASSUME NEW t \in Turns, Turn(t)
        PROVE  RedisOK'
    BY <1>1, <1>2, <1>3, <1>4, <1>5, TurnCounts DEF Expiring, Counts
  <1>6. ASSUME NEW p \in Probes, Ask(p) \/ Check(p)
        PROVE  RedisOK'
    BY <1>1, <1>6, ProbeCounts DEF Ask, StartProbe, Check, RedisOK
  <1>7. CASE Outage \/ Restore \/ UNCHANGED vars
    BY <1>1, <1>7 DEF Outage, Restore, vars, clientVars
  <1>8. CASE Tick
    <2>1. \A k \in Keys : Aged(redis[k]) \in Entry
      BY AgedFacts DEF RedisOK
    <2>. QED
      BY <1>8, <2>1 DEF RedisOK, Tick
  <1>. QED
    BY <1>5, <1>6, <1>7, <1>8 DEF Next

\* INCR keeps a TTL; a new counter has none, and is answered 1 or noted.
LEMMA IncrKeeps ==
    ASSUME RedisOK, NEW k \in Keys, NEW n \in {1, 2}, Incr(k, n)
    PROVE  /\ cut \subseteq cut' /\ \A j \in Keys \ {k} : redis'[j] = redis[j]
           /\ Live(redis[k]) => redis'[k].ttl = redis[k].ttl
           /\ ~Live(redis[k]) => <<"redis", k>> \in cut' \/ redis'[k].val = 1
  <1>. DEFINE f == Incremented(redis[k])
  <1>1. redis[k] \in Entry /\ f \in Entry
    BY IncrementedFacts DEF RedisOK
  <1>2. Live(redis[k]) => f.ttl = redis[k].ttl /\ Incremented(f).ttl = redis[k].ttl
    BY <1>1, IncrementedFacts
  <1>3. ~Live(redis[k]) => f.val = 1
    BY <1>1, EntryFacts, IncrementedFacts DEF Absent
  <1>. HIDE DEF f
  <1>4. /\ redis' = [redis EXCEPT ![k] = IF n = 1 THEN f ELSE Incremented(f)]
        /\ cut' = IF ~Live(redis[k]) /\ n > 1 THEN cut \cup {<<"redis", k>>} ELSE cut
    BY DEF Incr, f
  <1>5. redis'[k] = IF n = 1 THEN f ELSE Incremented(f)
    BY <1>4 DEF RedisOK
  <1>6. \A j \in Keys \ {k} : redis'[j] = redis[j]
    BY <1>4 DEF RedisOK
  <1>7. cut \subseteq cut' /\ (~Live(redis[k]) => <<"redis", k>> \in cut' \/ n = 1)
    BY <1>4
  <1>. QED
    BY <1>2, <1>3, <1>5, <1>6, <1>7

\* So it does when its answer is lost.
LEMMA IncrLostKeeps ==
    ASSUME RedisOK, NEW k \in Keys, IncrLost(k)
    PROVE  /\ cut \subseteq cut' /\ \A j \in Keys \ {k} : redis'[j] = redis[j]
           /\ Live(redis[k]) => redis'[k].ttl = redis[k].ttl
           /\ ~Live(redis[k]) => <<"redis", k>> \in cut' \/ redis' = redis
  <1>1. CASE UNCHANGED <<redis, cut>>
    BY <1>1
  <1>2. CASE ~ UNCHANGED <<redis, cut>>
    <2>1. /\ redis' = [redis EXCEPT ![k] = Incremented(redis[k])]
          /\ cut' = IF Live(redis[k]) THEN cut ELSE cut \cup {<<"redis", k>>}
      BY <1>2 DEF IncrLost
    <2>2. Live(redis[k]) => Incremented(redis[k]).ttl = redis[k].ttl
      BY IncrementedFacts DEF RedisOK
    <2>. QED
      BY <2>1, <2>2 DEF RedisOK
  <1>. QED
    BY <1>1, <1>2

\* Whoever counts the first call of a counter goes on to set its TTL.
LEMMA RedisStep ==
    ASSUME RedisOK, RedisEnds, PlacesOK, TurnFlags, [Next]_vars
    PROVE  RedisEnds'
  <1>1. ASSUME NEW t \in Turns, Turn(t)
        PROVE  RedisEnds'
    <2>1. gemini' = gemini /\ \A u \in Turns \ {t} : pc'[u] = pc[u] /\ Tool(u)' = Tool(u)
      BY <1>1, TurnKeeps
    <2>2. ASSUME NEW j \in Keys, redis'[j].ttl = Endless, redis[j].ttl = Endless,
                 <<"redis", j>> \in cut => <<"redis", j>> \in cut',
                 pc[t] = "expire" => Tool(t) # j
          PROVE  <<"redis", j>> \in cut' \/ \E u \in Turns : pc'[u] = "expire" /\ Tool(u)' = j
      BY <2>1, <2>2 DEF RedisEnds
    <2>3. CASE UNCHANGED counters /\ pc[t] # "expire"
      BY <2>2, <2>3 DEF RedisEnds, counters
    <2>4. ASSUME pc[t] = "incr", NEW late, MemoryIncr(Tool(t), late)
          PROVE  RedisEnds'
      BY <2>2, <2>4 DEF RedisEnds, MemoryIncr
    <2>5. ASSUME pc[t] = "incr", Tool(t) \in Keys,
                 (\E n \in {1, 2} : Counts(t, n)) \/ IncrLost(Tool(t))
          PROVE  RedisEnds'
      <3>. DEFINE k == Tool(t)
      <3>1. redis[k] \in Entry
        BY <2>5 DEF RedisOK
      <3>2. /\ cut \subseteq cut' /\ \A j \in Keys \ {k} : redis'[j] = redis[j]
            /\ Live(redis[k]) => redis'[k].ttl = redis[k].ttl
        <4>1. CASE IncrLost(k)
          BY <2>5, <4>1, IncrLostKeeps
        <4>2. CASE \E n \in {1, 2} : Counts(t, n)
          BY <2>5, <4>2, IncrKeeps DEF Counts
        <4>. QED
          BY <2>5, <4>1, <4>2
      <3>3. ASSUME ~Live(redis[k]), redis'[k].ttl = Endless
            PROVE  <<"redis", k>> \in cut' \/ (pc'[t] = "expire" /\ Tool(t)' = k)
        <4>1. redis[k].ttl # Endless
          BY <3>1, <3>3, EntryFacts
        <4>2. CASE IncrLost(k)
          BY <2>5, <3>3, <4>1, <4>2, IncrLostKeeps
        <4>3. ASSUME NEW n \in {1, 2}, Counts(t, n), redis'[k].val = 1
              PROVE  pc'[t] = "expire" /\ Tool(t)' = k
          BY <2>1, <4>3 DEF Counts, PlacesOK, Tool, ByGemini
        <4>4. CASE ~IncrLost(k)
          <5>1. PICK n \in {1, 2} : Counts(t, n)
            BY <2>5, <4>4
          <5>2. <<"redis", k>> \in cut' \/ redis'[k].val = 1
            BY <2>5, <3>3, <5>1, IncrKeeps DEF Counts
          <5>. QED
            BY <4>3, <5>1, <5>2
        <4>. QED
          BY <4>2, <4>4
      <3>4. ASSUME NEW j \in Keys, redis'[j].ttl = Endless
            PROVE  <<"redis", j>> \in cut' \/ \E u \in Turns : pc'[u] = "expire" /\ Tool(u)' = j
        <4>1. CASE redis[j].ttl = Endless
          BY <2>2, <2>5, <3>2, <3>4, <4>1
        <4>2. CASE redis[j].ttl # Endless
          <5>1. j = k /\ ~Live(redis[k])
            BY <3>2, <3>4, <4>2
          <5>. QED
            BY <3>3, <3>4, <5>1
        <4>. QED
          BY <4>1, <4>2
      <3>. QED
        BY <3>4 DEF RedisEnds
    <2>6. ASSUME pc[t] = "expire", SetExpiry(Tool(t)) \/ ExpiryLost(Tool(t))
          PROVE  RedisEnds'
      <3>. DEFINE k == Tool(t)
      <3>1. \A j \in Keys \ {k} : redis'[j] = redis[j]
        BY <2>6 DEF RedisOK, SetExpiry, ExpiryLost
      <3>2. \A j \in Keys \ {k} : <<"redis", j>> \in cut => <<"redis", j>> \in cut'
        BY <2>6 DEF SetExpiry, ExpiryLost
      <3>3. k \in Keys => redis'[k].ttl # Endless \/ <<"redis", k>> \in cut'
        BY <2>6, ExpireFacts DEF RedisOK, SetExpiry, ExpiryLost
      <3>4. ASSUME NEW j \in Keys \ {k}, redis'[j].ttl = Endless
            PROVE  <<"redis", j>> \in cut' \/ \E u \in Turns : pc'[u] = "expire" /\ Tool(u)' = j
        BY <2>2, <3>1, <3>2, <3>4
      <3>. QED
        BY <3>3, <3>4 DEF RedisEnds
    <2>. QED
      BY <1>1, <2>3, <2>4, <2>5, <2>6, TurnCounts
  <1>2. ASSUME UNCHANGED <<gemini, turns, redis>>,
               \A k \in Keys : <<"redis", k>> \in cut => <<"redis", k>> \in cut'
        PROVE  RedisEnds'
    BY <1>2 DEF RedisEnds, Tool, ByGemini, turns
  <1>3. ASSUME NEW p \in Probes, Ask(p) \/ Check(p)
        PROVE  RedisEnds'
    <2>1. \A k \in Keys : <<"redis", k>> \notin {"memory"} \X Keys
      OBVIOUS
    <2>2. UNCHANGED <<gemini, turns>>
      BY <1>3 DEF Ask, Check
    <2>3. UNCHANGED redis /\ \A k \in Keys : <<"redis", k>> \in cut => <<"redis", k>> \in cut'
      BY <1>3, <2>1, ProbeCounts DEF Ask, StartProbe, Check, counters
    <2>. QED
      BY <1>2, <2>2, <2>3
  <1>4. CASE ((Outage \/ Restore) /\ UNCHANGED <<gemini, turns>>) \/ UNCHANGED vars
    BY <1>2, <1>4 DEF Outage, Restore, vars, clientVars, counters
  <1>5. CASE Tick /\ UNCHANGED <<gemini, turns>>
    <2>1. \A k \in Keys : redis'[k].ttl = Endless => redis[k].ttl = Endless
      BY <1>5, AgedFacts DEF RedisOK, Tick
    <2>2. cut' = cut /\ pc' = pc /\ \A u \in Turns : Tool(u)' = Tool(u)
      BY <1>5 DEF Tick, turns, Tool, ByGemini
    <2>. QED
      BY <2>1, <2>2 DEF RedisEnds
  <1>. QED
    BY <1>1, <1>3, <1>4, <1>5 DEF Next

-----------------------------------------------------------------------------
(* The theorems.                                                            *)

Inv == /\ ClientOK /\ ClientFlags /\ PlacesOK /\ TurnFlags /\ Expiring /\ Listed
       /\ MemoryInv /\ RedisOK /\ RedisEnds

LEMMA InvInit == Init => Inv
  <1>. SUFFICES ASSUME Init
                PROVE  Inv
    OBVIOUS
  <1>1. ClientOK
    BY ClientAssumption DEF Init, ClientInit, ClientOK
  <1>2. ClientFlags
    BY DEF Init, ClientInit, ClientFlags, FlagIsTrue
  <1>3. PlacesOK /\ Expiring /\ Listed
    BY DEF Init, PlacesOK, Expiring, Listed, Words, Outcomes
  <1>4. TurnFlags
    BY DEF Init, TurnFlags, Failures
  <1>5. MemoryInv
    <2>1. \A k \in Keys : memory[k] = Absent /\ age[k] = 0
      BY DEF Init, ClientInit, Empty, Fresh
    <2>2. Absent \in Entry /\ ~Live(Absent) /\ Absent.ttl # Endless
      BY DEF Entry, Absent, Live, Endless
    <2>3. 0 \in 0 .. Window * Second
      BY Ticks, ClientAssumption
    <2>4. MemoryOK
      BY <2>2, <2>3 DEF Init, ClientInit, MemoryOK, Empty, Fresh
    <2>. QED
      BY <2>1, <2>2, <2>4 DEF MemoryInv, MemoryEnds, WindowKept
  <1>6. RedisOK /\ RedisEnds
    BY DEF Init, ClientInit, RedisOK, RedisEnds, Empty, Entry, Absent, Endless
  <1>. QED
    BY <1>1, <1>2, <1>3, <1>4, <1>5, <1>6 DEF Inv

\* The inductive invariant: what the client, the turns and either store are.
THEOREM Invariance == Spec => []Inv
  <1>1. Inv /\ [Next]_vars => Inv'
    BY ClientStep, TurnStep, MemoryStep, RedisTyped, RedisStep DEF Inv
  <1>. QED
    BY <1>1, InvInit, PTL DEF Spec

\* Turns and health checks are only at the awaits they have, and the stores
\* hold entries, none of them older than its window.
THEOREM TypeCorrect == Spec => []TypeOK
  <1>1. Inv => TypeOK
    BY DEF Inv, TypeOK, ClientTypeOK, ClientOK, ClientFlags, PlacesOK, TurnFlags, MemoryInv,
           MemoryOK, RedisOK
  <1>. QED
    BY <1>1, Invariance, PTL

\* using_memory tells what the client is, for any health checks that overlap.
THEOREM FlagTrue == Spec => []FlagIsTrue
  BY Invariance, PTL DEF Inv, ClientFlags

\* A turn in which a tool call failed is answered by the agent only when that
\* failure was lost: Gemini failed after its tool, and the mock agent's own call
\* did not.
THEOREM OnlyLostFailuresForgiven == Spec => []OnlyFallBackForgives
  <1>1. Inv => OnlyFallBackForgives
    BY DEF Inv, Listed, TurnFlags, Failures, OnlyFallBackForgives
  <1>. QED
    BY <1>1, Invariance, PTL

\* Carrying a window over in whole seconds costs it less than a second for
\* each increment, and lengthens it only within its last second.
THEOREM WindowsKept == Spec => []WindowKept
  BY Invariance, PTL DEF Inv, MemoryInv

\* For any turns at once, a counter is without an end only if an exchange
\* broke off or was repeated, or its TTL is just being set.
THEOREM CountersEnd == Spec => []EndlessOnlyIfCut
  <1>1. Inv => EndlessOnlyIfCut
    BY DEF Inv, MemoryInv, MemoryEnds, RedisEnds, EndlessOnlyIfCut
  <1>. QED
    BY <1>1, Invariance, PTL
==============================================================================
