----------------------------- MODULE AgentTools -----------------------------
(***************************************************************************)
(* One session's turns, as far as the agent, its tools and the hand-off    *)
(* policy decide them: VoiceAgent (services/agent/runtime.py) picks a tool *)
(* by the caller's words, SecuredToolRegistry (services/tools/authz.py)    *)
(* counts the call in the shared client (RedisClient), judges and runs it, *)
(* and HandoffPolicy (services/handoff.py) looks at the outcome.  This is  *)
(* what TurnAgent of ConversationPipeline leaves open.                     *)
(*                                                                         *)
(* What a caller says is one of the kinds of words that runtime.py tells   *)
(* apart.  The policy's keywords and its limit on the length are in        *)
(* ConversationPipeline.  Confidences are percentages.                     *)
(***************************************************************************)
EXTENDS RedisClient

\* Keys are the tools whose counters are followed; a call of another one is
\* judged freely.
CONSTANTS
    Turns,          \* turns, some of which may run at once
    Limit,          \* tool_rate_limit_per_minute (0 or less, which is no
                    \* limit and no counter, is left out)
    Said,           \* what callers say, out of Words
    Threshold       \* handoff_confidence_threshold

Words == {"human", "order", "shipment", "ticket", "complaint", "other"}

ASSUME ToolsAssumption ==
    /\ Said \subseteq Words
    /\ Limit \in Nat \ {0} /\ Threshold \in 0..100
    /\ Keys \subseteq {"crm_lookup", "create_ticket", "knowledge_search"}

VARIABLES
    gemini,         \* is there a Gemini backend, or only the mock agent?
    words,          \* per turn: what the caller said
    pc,             \* per turn: where it is
    fellBack,       \* per turn: has Gemini failed, so that the mock agent took over?
    failed          \* per turn: has a tool call failed, and is it among the
                    \* tool results or (which the code does not keep) lost?

turns == <<words, pc, fellBack, failed>>
vars == <<gemini, turns, clientVars>>

Outcomes == {"answered", "handed", "raised"}

Failures == {"no", "listed", "lost"}

Init ==
    /\ ClientInit /\ gemini \in BOOLEAN
    /\ words = [t \in Turns |-> "other"] /\ pc = [t \in Turns |-> "idle"]
    /\ fellBack = [t \in Turns |-> FALSE] /\ failed = [t \in Turns |-> "no"]

Goto(t, l) == pc' = [pc EXCEPT ![t] = l]

\* What the turn knew is gone when it is over, but for what an answer has
\* passed over; f is its failure.
Proceed(t, l, f) ==
    /\ Goto(t, l)
    /\ failed' = [failed EXCEPT ![t] = IF l \in {"handed", "raised"} THEN "no" ELSE f]
    /\ words' = IF l \in Outcomes THEN [words EXCEPT ![t] = "other"] ELSE words
    /\ fellBack' = IF l \in Outcomes THEN [fellBack EXCEPT ![t] = FALSE] ELSE fellBack

-----------------------------------------------------------------------------
(* The agent.                                                               *)

ToolOfMock(w) == CASE w \in {"order", "shipment"} -> "crm_lookup"
                   [] w \in {"ticket", "complaint"} -> "create_ticket"
                   [] w = "other" -> "knowledge_search"

ToolOfGemini(w) == CASE w = "order" -> "crm_lookup"
                     [] w = "ticket" -> "create_ticket"
                     [] OTHER -> "knowledge_search"

ByGemini(t) == gemini /\ ~fellBack[t]

Tool(t) == IF ByGemini(t) THEN ToolOfGemini(words[t]) ELSE ToolOfMock(words[t])

\* Where a run of the agent begins: the mock agent gives up at once on a
\* caller who asks for a human.
Begins(mock, w) == IF mock /\ w = "human" THEN "handed" ELSE "incr"

\* Turns are taken until one has handed the session over.
Begin(t, w) ==
    /\ pc[t] = "idle" /\ \A u \in Turns : pc[u] # "handed"
    /\ words' = [words EXCEPT ![t] = w]
    /\ Goto(t, Begins(~gemini, w))
    /\ UNCHANGED <<gemini, fellBack, failed, clientVars>>

\* Mutant: the policy is not told of failed tools.
EscalatesDeaf(fail, confidence) == confidence < Threshold

\* HandoffPolicy.evaluate.
Escalates(fail, confidence) == fail \/ confidence < Threshold

Decision(fail, confidence) == IF Escalates(fail, confidence) THEN "handed" ELSE "answered"

\* The mock agent's confidence in its reply; knowledge may be found, or not.
Confidences(tool, ok) ==
    CASE tool = "crm_lookup" -> IF ok THEN {90} ELSE {40}
      [] tool = "create_ticket" -> IF ok THEN {88} ELSE {30}
      [] tool = "knowledge_search" -> IF ok THEN {82, 70} ELSE {70}

\* The tool has answered: Gemini still has to put it into words.
Result(t, ok) ==
    LET f == IF ok THEN failed[t] ELSE "listed" IN
    IF ByGemini(t)
    THEN Proceed(t, "reply", f)
    ELSE \E confidence \in Confidences(Tool(t), ok) : Proceed(t, Decision(~ok, confidence), f)

\* Gemini's reply, or the apology for an empty one.
Reply(t) ==
    /\ pc[t] = "reply"
    /\ \E confidence \in {86, 40} :
          Proceed(t, Decision(failed[t] = "listed", confidence), failed[t])
    /\ UNCHANGED <<gemini, clientVars>>

\* It failed: the mock agent starts anew, its tool included, and what Gemini's
\* tool has come to is not among the results that it returns.
FallBack(t) ==
    /\ pc[t] = "reply"
    /\ fellBack' = [fellBack EXCEPT ![t] = TRUE]
    /\ failed' = [failed EXCEPT ![t] = IF @ = "listed" THEN "lost" ELSE @]
    /\ Goto(t, Begins(TRUE, words[t])) /\ UNCHANGED words
    /\ UNCHANGED <<gemini, clientVars>>

-----------------------------------------------------------------------------
(* The registry.                                                            *)

\* What a call may come to that is allowed by the limit: a CRM look-up may
\* be refused for the caller's identity; the tools themselves always answer.
Permitted(tool) == IF tool = "crm_lookup" THEN BOOLEAN ELSE {TRUE}

Judge(t, count) ==
    \E ok \in (IF count <= Limit THEN Permitted(Tool(t)) ELSE {FALSE}) : Result(t, ok)

Raise(t) == Proceed(t, "raised", "no")

\* A tool whose counter is not followed.
CallOther(t) ==
    /\ pc[t] = "incr" /\ Tool(t) \notin Keys
    /\ Raise(t) \/ \E count \in {Limit, Limit + 1} : Judge(t, count)
    /\ UNCHANGED <<gemini, clientVars>>

Calls(t) == pc[t] = "incr" /\ Tool(t) \in Keys

\* The client raises when there is none.
CallNobody(t) ==
    /\ Calls(t) /\ client = "none" /\ Raise(t)
    /\ UNCHANGED <<gemini, clientVars>>

CallMemory(t, late) ==
    /\ Calls(t) /\ MemoryIncr(Tool(t), late)
    /\ Judge(t, memory'[Tool(t)].val)
    /\ UNCHANGED <<gemini, client, usingMemory, probing, network>>

\* Mutant: the TTL is set by who finds the counter at 1.
CallRedisLate(t, n) ==
    /\ Calls(t) /\ Incr(Tool(t), n)
    /\ IF redis[Tool(t)].val = 1
       THEN Goto(t, "expire") /\ UNCHANGED <<words, fellBack, failed>>
       ELSE Judge(t, redis'[Tool(t)].val)
    /\ UNCHANGED <<gemini, client, usingMemory, probing, network>>

\* Only who is answered 1 sets the TTL.
CallRedis(t, n) ==
    /\ Calls(t) /\ Incr(Tool(t), n)
    /\ IF redis'[Tool(t)].val = 1
       THEN Goto(t, "expire") /\ UNCHANGED <<words, fellBack, failed>>
       ELSE Judge(t, redis'[Tool(t)].val)
    /\ UNCHANGED <<gemini, client, usingMemory, probing, network>>

CallBreaks(t) ==
    /\ Calls(t) /\ IncrLost(Tool(t)) /\ Raise(t)
    /\ UNCHANGED <<gemini, client, usingMemory, probing, network>>

Expiry(t) ==
    /\ pc[t] = "expire" /\ SetExpiry(Tool(t)) /\ Judge(t, 1)
    /\ UNCHANGED <<gemini, client, usingMemory, probing, network>>

ExpiryBreaks(t) ==
    /\ pc[t] = "expire" /\ ExpiryLost(Tool(t)) /\ Raise(t)
    /\ UNCHANGED <<gemini, client, usingMemory, probing, network>>

-----------------------------------------------------------------------------
Turn(t) == \/ \E w \in Said : Begin(t, w)
           \/ Reply(t) \/ FallBack(t)
           \/ CallOther(t) \/ CallNobody(t) \/ CallRedis(t, 1) \/ CallRedis(t, 2)
           \/ CallMemory(t, FALSE) \/ CallMemory(t, TRUE)
           \/ CallBreaks(t) \/ Expiry(t) \/ ExpiryBreaks(t)

Ask(p) == StartProbe(p) /\ UNCHANGED <<gemini, turns>>

Check(p) == Probe(p) /\ UNCHANGED <<gemini, turns>>

Next == \/ \E t \in Turns : Turn(t)
        \/ \E p \in Probes : Ask(p) \/ Check(p)
        \/ (Outage \/ Restore \/ Tick) /\ UNCHANGED <<gemini, turns>>

Spec == Init /\ [][Next]_vars

\* The container's health check asks every 30 s, and the event loop runs it.
FairSpec == Spec /\ \A p \in Probes : WF_vars(Ask(p)) /\ WF_vars(Check(p))

-----------------------------------------------------------------------------
(* Properties.                                                              *)

\* The one type invariant.
TypeOK ==
    /\ ClientTypeOK /\ gemini \in BOOLEAN
    /\ words \in [Turns -> Words]
    /\ pc \in [Turns -> {"idle", "incr", "expire", "reply"} \cup Outcomes]
    /\ fellBack \in [Turns -> BOOLEAN] /\ failed \in [Turns -> Failures]

\* A window in memory ends when it should: each increment cuts it by less
\* than a second, and none makes it longer, except that one in its last
\* second gives it a second more.
WindowKept ==
    \A k \in Keys : Live(memory[k]) /\ memory[k].ttl # Endless =>
        /\ age[k] + memory[k].ttl >= Window * Second - (memory[k].val - 1) * (Second - 1)
        /\ age[k] + memory[k].ttl <= Window * Second \/ memory[k].ttl <= Second

\* A counter without an end, which refuses its tool to the session for good,
\* is only left by an exchange that broke off or was repeated; or its TTL is
\* just being set.
EndlessOnlyIfCut ==
    \A k \in Keys :
        /\ redis[k].ttl = Endless =>
              \/ <<"redis", k>> \in cut
              \/ \E t \in Turns : pc[t] = "expire" /\ Tool(t) = k
        /\ memory[k].ttl = Endless => <<"memory", k>> \in cut

\* A turn in which a tool call has failed, by the rate limit, the caller's
\* identity or the tool itself, goes to a human, as README.md says, but for one
\* case that README.md does not except: Gemini failed too, its tool results are
\* lost, and the mock agent's own call has not failed.
OnlyFallBackForgives == \A t \in Turns : pc[t] = "answered" => failed[t] \in {"no", "lost"}

\* Where memory may not stand in for it, Redis is used again once it can be
\* reached for good, whatever health checks overlapped while it could not.
ClientComesBack ==
    <>[](reachable /\ ~optional) => <>[](client = "redis")
=============================================================================
