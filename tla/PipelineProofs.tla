--------------------------- MODULE PipelineProofs ---------------------------
(***************************************************************************)
(* What holds of ConversationPipeline for any number of clients and of     *)
(* turns, whichever of their calls and awaits overlap, fail, or lose their *)
(* writes to another's: each step of a turn inside the session manager is  *)
(* a step of SessionStore, so the store's theorems hold here as well.      *)
(***************************************************************************)
EXTENDS ConversationPipeline, SessionStoreProofs

TurnFree == {"idle", "a_get", "a_stt"}

\* The roles of the lines of a turn that is at stage l that the session
\* manager has acknowledged.
RolesBy(l) ==
    CASE l \in {"t_get", "t_user"} -> {}
      [] l \in {"t_agent", "t_reply", "h_get", "h_turn"} -> {"user"}
      [] l \in {"t_check", "t_tts"} -> {"user", "assistant"}
      [] OTHER -> {"user", "handoff"}

Placed == /\ at \in [Clients -> Stages] /\ num \in [Clients -> 0..MaxBegun]
          /\ begun \in 0..MaxBegun

Marked == /\ flag \in BOOLEAN
          /\ asked \subseteq 1..MaxBegun /\ spoken \subseteq 1..MaxBegun
          /\ dropped \subseteq 1..MaxBegun /\ handed \subseteq 1..MaxBegun

\* Whoever awaits a provider is in no call of the session manager; the call
\* that adds a line carries that line.
Calling ==
    \A r \in Clients :
        /\ at[r] \in Asks \cup {"t_check"} => pc[r] = "idle"
        /\ pc[r] # "idle" /\ at[r] \in DOMAIN RoleAt
              => op[r] = "turn" /\ turn[r] = {Line(r, RoleAt[at[r]])}
        /\ pc[r] = "idle" \/ at[r] \notin DOMAIN RoleAt => turn[r] = {}

\* The turns in progress have numbers of their own.
Numbered ==
    /\ \A r \in Clients : /\ num[r] = 0 <=> at[r] \in TurnFree
                          /\ num[r] <= begun
    /\ \A r, q \in Clients : r # q /\ num[r] # 0 => num[r] # num[q]

Past == /\ \A l \in acked : l.turn <= begun
        /\ \A n \in spoken \cup dropped \cup handed : n <= begun

OnRecord ==
    \A r \in Clients :
        num[r] # 0 => /\ RolesOf(acked, num[r]) = RolesBy(at[r])
                      /\ num[r] \notin spoken \cup dropped
                      /\ num[r] \in handed <=> at[r] = "h_tts"

\* The flag is only ever set on behalf of every turn in progress.
FlagKnown == flag => \A r \in Clients : num[r] # 0 => num[r] \in asked

-----------------------------------------------------------------------------
(* The calls.                                                               *)

LEMMA RoleStages ==
    /\ DOMAIN RoleAt = {"t_user", "t_reply", "h_turn"}
    /\ RoleAt["t_user"] = "user" /\ RoleAt["t_reply"] = "assistant" /\ RoleAt["h_turn"] = "handoff"
  BY DEF RoleAt

LEMMA DecideCalls ==
    ASSUME TypeOK, NEW c \in Clients, NEW s, Decide(c, s)
    PROVE  /\ \A d \in Clients \ {c} : pc'[d] = pc[d] /\ op'[d] = op[d] /\ turn'[d] = turn[d]
           /\ pc'[c] = "idle" => turn'[c] = {}
           /\ pc'[c] # "idle" => turn'[c] = turn[c] /\ (op[c] = "turn" => op'[c] = "turn")
  <1>1. ASSUME Done(c)
        PROVE  /\ \A d \in Clients \ {c} : pc'[d] = pc[d] /\ op'[d] = op[d] /\ turn'[d] = turn[d]
               /\ pc'[c] = "idle" /\ turn'[c] = {}
    BY <1>1 DEF TypeOK, Done, Goto
  <1>2. ASSUME NEW l, NEW t, l # "idle", Goto(c, l, t), UNCHANGED turn,
               UNCHANGED op \/ (op[c] # "turn" /\ op' = [op EXCEPT ![c] = "complete"])
        PROVE  /\ \A d \in Clients \ {c} : pc'[d] = pc[d] /\ op'[d] = op[d] /\ turn'[d] = turn[d]
               /\ pc'[c] # "idle" /\ turn'[c] = turn[c] /\ (op[c] = "turn" => op'[c] = "turn")
    BY <1>2 DEF TypeOK, Goto
  <1>. QED
    BY <1>1, <1>2 DEF Decide, DecideGet, DecideTurn, DecideEnd, DecideCallback

\* What a step inside the session manager does to whom it does not concern,
\* and to what has been acknowledged.
LEMMA StepCalls ==
    ASSUME TypeOK, NEW c \in Clients, Step(c)
    PROVE  /\ pc[c] # "idle"
           /\ \A d \in Clients \ {c} : pc'[d] = pc[d] /\ op'[d] = op[d] /\ turn'[d] = turn[d]
           /\ pc'[c] = "idle" => turn'[c] = {}
           /\ pc'[c] # "idle" => turn'[c] = turn[c] /\ (op[c] = "turn" => op'[c] = "turn")
           /\ acked' = IF pc[c] = "p_commit" THEN acked \cup turn[c] ELSE acked
           /\ pc[c] = "p_commit" /\ op[c] = "turn" => pc'[c] = "idle"
  <1>1. ASSUME Done(c)
        PROVE  /\ \A d \in Clients \ {c} : pc'[d] = pc[d] /\ op'[d] = op[d] /\ turn'[d] = turn[d]
               /\ pc'[c] = "idle" /\ turn'[c] = {}
    BY <1>1 DEF TypeOK, Done, Goto
  <1>2. ASSUME NEW l, NEW t, l # "idle", Goto(c, l, t), UNCHANGED <<turn, op>>
        PROVE  /\ \A d \in Clients \ {c} : pc'[d] = pc[d] /\ op'[d] = op[d] /\ turn'[d] = turn[d]
               /\ pc'[c] # "idle" /\ turn'[c] = turn[c] /\ op'[c] = op[c]
    BY <1>2 DEF TypeOK, Goto
  <1>3. CASE GetCache(c)
    BY <1>2, <1>3, DecideCalls DEF GetCache
  <1>4. CASE GetFill(c)
    BY <1>4, DecideCalls DEF GetFill
  <1>5. CASE GetRow(c) \/ SaveCache(c) \/ PersistLoad(c) \/ CreateCache(c)
    BY <1>2, <1>5 DEF GetRow, SaveCache, PersistLoad, CreateCache
  <1>6. CASE CallLookup(c) \/ CallSelect(c)
    BY <1>1, <1>2, <1>6 DEF CallLookup, CallSelect
  <1>7. CASE CallBind(c)
    BY <1>7, DecideCalls DEF CallBind, Decide
  <1>8. CASE PersistCommit(c)
    BY <1>1, <1>2, <1>8 DEF PersistCommit
  <1>9. CASE EndDelete(c) \/ CreateBind(c)
    BY <1>1, <1>9 DEF EndDelete, CreateBind
  <1>. QED
    BY <1>3, <1>4, <1>5, <1>6, <1>7, <1>8, <1>9 DEF Step

LEMMA FailCalls ==
    ASSUME TypeOK, NEW c \in Clients, Fail(c)
    PROVE  /\ pc[c] # "idle" /\ pc'[c] = "idle" /\ turn'[c] = {} /\ acked' = acked
           /\ \A d \in Clients \ {c} : pc'[d] = pc[d] /\ op'[d] = op[d] /\ turn'[d] = turn[d]
  BY DEF Fail, TypeOK, Done, Goto

LEMMA StartCalls ==
    ASSUME TypeOK, NEW c \in Clients
    PROVE  /\ \A kind : StartGet(c, kind) =>
                /\ pc[c] = "idle" /\ pc'[c] = "g_cache" /\ turn' = turn /\ acked' = acked
                /\ \A d \in Clients \ {c} : pc'[d] = pc[d] /\ op'[d] = op[d]
           /\ \A t : StartTurn(c, t) =>
                /\ pc[c] = "idle" /\ pc'[c] = "g_cache" /\ acked' = acked
                /\ turn'[c] = {t} /\ op'[c] = "turn"
                /\ \A d \in Clients \ {c} : pc'[d] = pc[d] /\ op'[d] = op[d] /\ turn'[d] = turn[d]
  BY DEF StartGet, StartTurn, TypeOK, Goto

-----------------------------------------------------------------------------
(* Every step is a step of the store, or leaves it alone.                   *)

LEMMA LinesAreTurns ==
    ASSUME Placed, Numbered, NEW r \in Clients, at[r] \in DOMAIN RoleAt
    PROVE  Line(r, RoleAt[at[r]]) \in Turns /\ num[r] # 0
  BY RoleStages, PipelineAssumption DEF Placed, Numbered, TurnFree, Line, Lines, Roles

LEMMA StoreSteps ==
    ASSUME Placed, Numbered, [PNext]_allvars
    PROVE  [Next]_vars
  <1>1. ASSUME NEW r \in Clients, Step(r) \/ Fail(r) \/ StartGet(r, "get") \/ StartGet(r, "complete")
                                  \/ StartGet(r, "handoff")
        PROVE  Next
    BY <1>1 DEF Next, Start, OpKinds
  <1>2. ASSUME NEW r \in Clients, Call(r)
        PROVE  Next
    BY <1>1, <1>2, LinesAreTurns DEF Call, Next, Start
  <1>3. ASSUME NEW r \in Clients, TurnStep(r)
        PROVE  [Next]_vars
    <2>1. CASE Call(r) \/ Await(r)
      BY <1>1, <1>2, <2>1 DEF Await
    <2>2. CASE \/ HearGet(r) \/ TurnGet(r) \/ TurnUser(r) \/ TurnReply(r) \/ HandoffGet(r)
               \/ HandoffTurn(r) \/ HandoffEnd(r) \/ HandoffFresh(r)
      BY <1>1, <2>2 DEF HearGet, TurnGet, TurnUser, TurnReply, HandoffGet, HandoffTurn,
                        HandoffEnd, HandoffFresh, Returns
    <2>3. CASE \/ HearNothing(r) \/ TurnAgent(r) \/ TurnCheck(r) \/ TurnTts(r) \/ HandoffGive(r)
               \/ HandoffTts(r) \/ \E hasText \in BOOLEAN : HearFinal(r, hasText)
      BY <2>3 DEF HearNothing, TurnAgent, TurnCheck, TurnTts, HandoffGive, HandoffTts,
                  HearFinal, Begin
    <2>. QED
      BY <1>3, <2>1, <2>2, <2>3 DEF TurnStep
  <1>4. ASSUME NEW r \in Clients, Outside(r)
        PROVE  Next
    BY <1>1, <1>4 DEF Outside
  <1>5. ASSUME NEW r \in Clients, HearChunk(r) \/ Raise(r)
                                  \/ \E hasText \in BOOLEAN : BeginText(r, hasText)
        PROVE  [Next]_vars
    BY <1>1, <1>5 DEF HearChunk, Raise, BeginText, Begin
  <1>6. CASE RequestBargeIn \/ Expire \/ UNCHANGED allvars
    BY <1>6 DEF RequestBargeIn, Expire, allvars, Next
  <1>. QED
    BY <1>3, <1>4, <1>5, <1>6 DEF PNext, Talk

-----------------------------------------------------------------------------
(* What a step does to the turns, whatever it does to the session.          *)

Rests == UNCHANGED <<at, num, begun, acked, spoken, dropped, handed>>

Begins(r) ==
    /\ num[r] = 0 /\ begun < MaxBegun /\ begun' = begun + 1
    /\ at' = [at EXCEPT ![r] = "t_get"] /\ num' = [num EXCEPT ![r] = begun + 1]
    /\ UNCHANGED <<acked, spoken, dropped, handed>>

Listens(r) ==
    /\ num[r] = 0
    /\ Over(r) \/ \E l \in TurnFree : Move(r, l)
    /\ UNCHANGED <<begun, acked, spoken, dropped, handed>>

Stops(r) ==
    /\ num[r] # 0 /\ Over(r) /\ UNCHANGED <<begun, acked, handed>>
    /\ \/ UNCHANGED <<spoken, dropped>>
       \/ /\ at[r] \in {"t_tts", "h_tts"} /\ spoken' = spoken \cup {num[r]}
          /\ UNCHANGED dropped
       \/ /\ at[r] \in {"t_check", "t_tts"} /\ dropped' = dropped \cup {num[r]}
          /\ UNCHANGED spoken

Proceeds(r, l) ==
    /\ num[r] # 0 /\ l \in Stages \ TurnFree /\ Move(r, l)
    /\ UNCHANGED <<begun, spoken, dropped>>
    /\ \/ /\ RolesBy(l) = RolesBy(at[r]) /\ at[r] # "h_tts" /\ l # "h_tts"
          /\ UNCHANGED <<acked, handed>>
       \/ /\ at[r] \in DOMAIN RoleAt /\ l # "h_tts"
          /\ RolesBy(l) = RolesBy(at[r]) \cup {RoleAt[at[r]]}
          /\ acked' = acked \cup {Line(r, RoleAt[at[r]])} /\ UNCHANGED handed
       \/ /\ at[r] = "h_give" /\ l = "h_tts"
          /\ handed' = handed \cup {num[r]} /\ UNCHANGED acked

\* A call that returns adds the line of its stage or nothing.
LEMMA ReturnAcks ==
    ASSUME TypeOK, Placed, Calling, NEW r \in Clients, Step(r)
    PROVE  acked' = IF at[r] \in DOMAIN RoleAt /\ Appended(r)
                    THEN acked \cup {Line(r, RoleAt[at[r]])} ELSE acked
  BY StepCalls DEF Calling, Appended

LEMMA Moves ==
    ASSUME TypeOK, Placed, Calling, Numbered, PNext
    PROVE  \/ Rests
           \/ \E r \in Clients : Begins(r) \/ Listens(r) \/ Stops(r) \/ \E l : Proceeds(r, l)
  <1>. USE DEF heard
  <1>1. ASSUME NEW r \in Clients, Call(r) \/ Await(r) \/ Outside(r)
        PROVE  Rests
    <2>1. CASE Call(r)
      <3>1. acked' = acked
        BY <2>1, StartCalls DEF Call
      <3>. QED
        BY <2>1, <3>1 DEF Call, Rests, pvars
    <2>2. CASE Await(r)
      <3>1. acked' = acked
        BY <2>2, StepCalls, RoleStages DEF Await, Calling
      <3>. QED
        BY <2>2, <3>1 DEF Await, Rests, pvars
    <2>3. CASE Outside(r)
      <3>1. acked' = acked
        BY <2>3, StepCalls, StartCalls, RoleStages DEF Outside, Calling
      <3>. QED
        BY <2>3, <3>1 DEF Outside, Rests
    <2>. QED
      BY <1>1, <2>1, <2>2, <2>3
  <1>2. ASSUME NEW r \in Clients, NEW hasText \in BOOLEAN, Begin(r, hasText), num[r] = 0
        PROVE  Begins(r) \/ Listens(r)
    BY <1>2 DEF Begin, Begins, Listens, vars
  <1>3. ASSUME NEW r \in Clients, BeginText(r, TRUE) \/ BeginText(r, FALSE) \/ HearFinal(r, TRUE)
                                  \/ HearFinal(r, FALSE)
        PROVE  Begins(r) \/ Listens(r)
    BY <1>2, <1>3 DEF BeginText, HearFinal, Free, Numbered, TurnFree
  <1>4. ASSUME NEW r \in Clients, HearChunk(r) \/ HearGet(r) \/ HearNothing(r)
        PROVE  Listens(r)
    <2>1. num[r] = 0
      BY <1>4 DEF HearChunk, HearGet, HearNothing, Free, Returns, Numbered, TurnFree
    <2>2. acked' = acked
      BY <1>4, ReturnAcks, RoleStages DEF HearChunk, HearGet, HearNothing, Returns, vars
    <2>. QED
      BY <1>4, <2>1, <2>2 DEF HearChunk, HearGet, HearNothing, Listens, TurnFree
  <1>5. ASSUME NEW r \in Clients, Raise(r)
        PROVE  Listens(r) \/ Stops(r)
    <2>1. acked' = acked
      BY <1>5, FailCalls DEF Raise, vars
    <2>. QED
      BY <1>5, <2>1 DEF Raise, Listens, Stops
  <1>6. ASSUME NEW r \in Clients, TurnGet(r)
        PROVE  Stops(r) \/ \E l : Proceeds(r, l)
    <2>1. num[r] # 0 /\ acked' = acked
      BY <1>6, ReturnAcks, RoleStages DEF TurnGet, Returns, Numbered, TurnFree
    <2>2. CASE Over(r)
      BY <1>6, <2>1, <2>2 DEF TurnGet, Stops
    <2>3. CASE Move(r, "t_user")
      <3>1. RolesBy("t_user") = RolesBy(at[r])
        BY <1>6 DEF RolesBy, TurnGet, Returns
      <3>. QED
        BY <1>6, <2>1, <2>3, <3>1, RoleStages
           DEF TurnGet, Returns, Proceeds, Stages, TurnFree
    <2>. QED
      BY <1>6, <2>2, <2>3 DEF TurnGet
  <1>7. ASSUME NEW r \in Clients, NEW l \in Stages \ TurnFree, l # "h_tts",
               at[r] \in DOMAIN RoleAt, Step(r), Added(r, l),
               RolesBy(l) = RolesBy(at[r]) \cup {RoleAt[at[r]]},
               UNCHANGED <<begun, heard>>
        PROVE  Stops(r) \/ Proceeds(r, l)
    <2>1. num[r] # 0
      BY <1>7, LinesAreTurns
    <2>2. CASE Appended(r)
      <3>1. acked' = acked \cup {Line(r, RoleAt[at[r]])}
        BY <1>7, <2>2, ReturnAcks
      <3>. QED
        BY <1>7, <2>1, <2>2, <3>1 DEF Added, Proceeds
    <2>3. CASE ~Appended(r)
      <3>1. acked' = acked
        BY <1>7, <2>3, ReturnAcks
      <3>. QED
        BY <1>7, <2>1, <2>3, <3>1 DEF Added, Stops
    <2>. QED
      BY <2>2, <2>3
  <1>8. ASSUME NEW r \in Clients, TurnUser(r) \/ TurnReply(r) \/ HandoffTurn(r)
        PROVE  Stops(r) \/ \E l : Proceeds(r, l)
    <2>1. CASE TurnUser(r)
      <3>1. PICK l \in {"h_get", "t_agent"} : Added(r, l)
        BY <2>1 DEF TurnUser
      <3>2. RolesBy(l) = RolesBy("t_user") \cup {"user"}
        BY DEF RolesBy
      <3>. QED
        BY <1>7, <2>1, <3>1, <3>2, RoleStages DEF TurnUser, Returns, Stages, TurnFree, Asks, Reads
    <2>2. CASE TurnReply(r)
      <3>1. RolesBy("t_check") = RolesBy("t_reply") \cup {"assistant"}
        BY DEF RolesBy
      <3>. QED
        BY <1>7, <2>2, <3>1, RoleStages DEF TurnReply, Returns, Stages, TurnFree
    <2>3. CASE HandoffTurn(r)
      <3>1. RolesBy("h_end") = RolesBy("h_turn") \cup {"handoff"}
        BY DEF RolesBy
      <3>. QED
        BY <1>7, <2>3, <3>1, RoleStages DEF HandoffTurn, Returns, Stages, TurnFree
    <2>. QED
      BY <1>8, <2>1, <2>2, <2>3
  <1>9. ASSUME NEW r \in Clients, NEW l, Move(r, l), UNCHANGED <<begun, acked, heard>>,
               <<at[r], l>> \in {<<"t_agent", "h_get">>, <<"t_agent", "t_reply">>,
                  <<"t_check", "t_tts">>, <<"h_get", "h_turn">>, <<"h_end", "h_fresh">>,
                  <<"h_end", "h_give">>, <<"h_fresh", "h_give">>}
        PROVE  Proceeds(r, l)
    <2>1. /\ at[r] \in {"t_agent", "t_check", "h_get", "h_end", "h_fresh"}
          /\ l \in {"h_get", "t_reply", "t_tts", "h_turn", "h_fresh", "h_give"}
      BY <1>9
    <2>2. RolesBy(l) = RolesBy(at[r])
      BY <1>9 DEF RolesBy
    <2>. QED
      BY <1>9, <2>1, <2>2, RoleStages DEF Proceeds, Numbered, Stages, TurnFree, Asks, Reads
  <1>10. ASSUME NEW r \in Clients,
                TurnAgent(r) \/ HandoffGet(r) \/ HandoffEnd(r) \/ HandoffFresh(r)
         PROVE  \E l : Proceeds(r, l)
    <2>1. acked' = acked
      BY <1>10, ReturnAcks, RoleStages
         DEF TurnAgent, HandoffGet, HandoffEnd, HandoffFresh, Returns, vars
    <2>. QED
      BY <1>9, <1>10, <2>1 DEF TurnAgent, HandoffGet, HandoffEnd, HandoffFresh, Returns
  <1>11. ASSUME NEW r \in Clients, TurnCheck(r)
         PROVE  Stops(r) \/ \E l : Proceeds(r, l)
    <2>1. num[r] # 0
      BY <1>11 DEF TurnCheck, Numbered, TurnFree
    <2>. QED
      BY <1>9, <1>11, <2>1 DEF TurnCheck, Stops, vars
  <1>12. ASSUME NEW r \in Clients, TurnTts(r) \/ HandoffTts(r)
         PROVE  Stops(r)
    BY <1>12 DEF TurnTts, HandoffTts, Stops, Numbered, TurnFree, vars
  <1>13. ASSUME NEW r \in Clients, HandoffGive(r)
         PROVE  Proceeds(r, "h_tts")
    <2>1. num[r] # 0 /\ "h_tts" \in Stages \ TurnFree
      BY <1>13 DEF HandoffGive, Numbered, TurnFree, Stages, Asks
    <2>. QED
      BY <1>13, <2>1 DEF HandoffGive, Proceeds, vars
  <1>14. CASE RequestBargeIn \/ Expire
    BY <1>14 DEF RequestBargeIn, Expire, ExpireSession, Rests, pvars, vars
  <1>. QED
    BY <1>1, <1>3, <1>4, <1>5, <1>6, <1>8, <1>10, <1>11, <1>12, <1>13, <1>14
       DEF PNext, Talk, TurnStep

-----------------------------------------------------------------------------
(* The types and the places.                                                *)

LEMMA PlacedStep ==
    ASSUME TypeOK, Placed, Calling, Numbered, PNext
    PROVE  Placed'
  <1>. USE DEF Placed
  <1>1. ASSUME NEW r \in Clients, NEW l \in Stages, at' = [at EXCEPT ![r] = l]
        PROVE  at' \in [Clients -> Stages]
    BY <1>1
  <1>2. TurnFree \subseteq Stages /\ "t_get" \in Stages /\ "idle" \in Stages
    BY DEF TurnFree, Stages, Reads, Asks
  <1>3. CASE Rests
    BY <1>3 DEF Rests
  <1>4. ASSUME NEW r \in Clients, Begins(r)
        PROVE  Placed'
    <2>1. begun' \in 0..MaxBegun
      BY <1>4, PipelineAssumption DEF Begins
    <2>2. num' \in [Clients -> 0..MaxBegun]
      BY <1>4, <2>1 DEF Begins
    <2>. QED
      BY <1>1, <1>2, <1>4, <2>1, <2>2 DEF Begins
  <1>5. ASSUME NEW r \in Clients, Over(r), UNCHANGED begun
        PROVE  Placed'
    <2>1. num' \in [Clients -> 0..MaxBegun]
      BY <1>5, PipelineAssumption DEF Over
    <2>. QED
      BY <1>1, <1>2, <1>5, <2>1 DEF Over
  <1>6. ASSUME NEW r \in Clients, NEW l \in Stages, Move(r, l), UNCHANGED begun
        PROVE  Placed'
    BY <1>1, <1>6 DEF Move
  <1>. QED
    BY <1>2, <1>3, <1>4, <1>5, <1>6, Moves DEF Listens, Stops, Proceeds

LEMMA NumberedStep ==
    ASSUME TypeOK, Placed, Calling, Numbered, PNext
    PROVE  Numbered'
  <1>. USE DEF Numbered
  <1>1. CASE Rests
    BY <1>1 DEF Rests
  <1>2. ASSUME NEW r \in Clients, Begins(r)
        PROVE  Numbered'
    <2>1. /\ at'[r] = "t_get" /\ num'[r] = begun + 1 /\ begun' = begun + 1 /\ begun \in Nat
          /\ \A q \in Clients \ {r} : at'[q] = at[q] /\ num'[q] = num[q]
          /\ \A q \in Clients : num[q] \in Nat
      BY <1>2, PipelineAssumption DEF Begins, Placed
    <2>2. \A q \in Clients : (num'[q] = 0 <=> at'[q] \in TurnFree) /\ num'[q] <= begun'
      BY <2>1 DEF TurnFree
    <2>3. \A q, p \in Clients : q # p /\ num'[q] # 0 => num'[q] # num'[p]
      BY <2>1
    <2>. QED
      BY <2>2, <2>3
  <1>3. ASSUME NEW r \in Clients, Over(r), UNCHANGED begun
        PROVE  Numbered'
    <2>1. /\ at'[r] = "idle" /\ num'[r] = 0
          /\ \A q \in Clients \ {r} : at'[q] = at[q] /\ num'[q] = num[q]
      BY <1>3 DEF Over, Placed
    <2>2. 0 <= begun
      BY PipelineAssumption DEF Placed
    <2>. QED
      BY <1>3, <2>1, <2>2 DEF TurnFree
  <1>4. ASSUME NEW r \in Clients, NEW l, Move(r, l), UNCHANGED begun,
               l \in TurnFree <=> num[r] = 0
        PROVE  Numbered'
    <2>1. at'[r] = l /\ num' = num /\ \A q \in Clients \ {r} : at'[q] = at[q]
      BY <1>4 DEF Move, Placed
    <2>. QED
      BY <1>4, <2>1
  <1>. QED
    BY <1>1, <1>2, <1>3, <1>4, Moves DEF Listens, Stops, Proceeds

LEMMA CallingStep ==
    ASSUME TypeOK, Placed, Calling, Numbered, PNext
    PROVE  Calling'
  <1>. USE RoleStages
  <1>0. Asks \cap DOMAIN RoleAt = {} /\ "t_check" \notin DOMAIN RoleAt
    BY DEF Asks
  <1>1. ASSUME NEW r \in Clients,
               \A q \in Clients \ {r} : /\ at'[q] = at[q] /\ num'[q] = num[q] /\ pc'[q] = pc[q]
                                        /\ op'[q] = op[q] /\ turn'[q] = turn[q],
               pc'[r] = "idle", turn'[r] = {}
        PROVE  Calling'
    BY <1>1 DEF Calling, Line
  <1>2. ASSUME NEW r \in Clients, Step(r), pc'[r] = "idle",
               \A q \in Clients \ {r} : at'[q] = at[q] /\ num'[q] = num[q]
        PROVE  Calling'
    BY <1>1, <1>2, StepCalls
  <1>3. ASSUME NEW r \in Clients, UNCHANGED vars, pc[r] = "idle",
               \A q \in Clients \ {r} : at'[q] = at[q] /\ num'[q] = num[q]
        PROVE  Calling'
    <2>1. turn[r] = {}
      BY <1>3 DEF Calling
    <2>. QED
      BY <1>1, <1>3, <2>1 DEF vars
  <1>4. ASSUME NEW r \in Clients, NEW l, Move(r, l) \/ Over(r) \/ Begins(r)
        PROVE  \A q \in Clients \ {r} : at'[q] = at[q] /\ num'[q] = num[q]
    BY <1>4 DEF Move, Over, Begins, Placed
  <1>5. ASSUME NEW r \in Clients, Call(r)
        PROVE  Calling'
    <2>1. pc[r] = "idle" /\ at' = at /\ num' = num /\ at[r] \notin Asks \cup {"t_check"}
      BY <1>5, StartCalls DEF Call, pvars, Reads, Asks
    <2>2. CASE at[r] \in DOMAIN RoleAt
      <3>1. StartTurn(r, Line(r, RoleAt[at[r]]))
        BY <1>5, <2>2 DEF Call, Reads
      <3>. QED
        BY <2>1, <2>2, <3>1, StartCalls DEF Calling, Line
    <2>3. CASE at[r] \notin DOMAIN RoleAt
      <3>1. StartGet(r, "get") \/ StartGet(r, "handoff")
        BY <1>5, <2>3 DEF Call
      <3>. QED
        BY <2>1, <2>3, <3>1, StartCalls DEF Calling, Line
    <2>. QED
      BY <2>2, <2>3
  <1>6. ASSUME NEW r \in Clients, Await(r) \/ Outside(r)
        PROVE  Calling'
    <2>1. at' = at /\ num' = num
      BY <1>6 DEF Await, Outside, pvars
    <2>2. CASE Step(r)
      <3>1. pc[r] # "idle" /\ at[r] \notin Asks \cup {"t_check"}
        BY <2>2, StepCalls DEF Calling
      <3>. QED
        BY <2>1, <2>2, <3>1, StepCalls DEF Calling, Line
    <2>3. CASE at[r] = "idle" /\ (StartGet(r, "get") \/ StartGet(r, "complete"))
      BY <2>1, <2>3, StartCalls DEF Calling, Line, Asks
    <2>. QED
      BY <1>6, <2>2, <2>3 DEF Await, Outside
  <1>7. ASSUME NEW r \in Clients, Raise(r)
        PROVE  Calling'
    <2>1. \A q \in Clients \ {r} : at'[q] = at[q] /\ num'[q] = num[q]
      BY <1>4, <1>7 DEF Raise
    <2>2. CASE Fail(r)
      BY <1>1, <2>1, <2>2, FailCalls
    <2>3. CASE at[r] \in Asks /\ UNCHANGED vars
      BY <1>3, <2>1, <2>3 DEF Calling
    <2>. QED
      BY <1>7, <2>2, <2>3 DEF Raise
  <1>8. ASSUME NEW r \in Clients, NEW hasText \in BOOLEAN, Begin(r, hasText), pc[r] = "idle"
        PROVE  Calling'
    <2>1. \A q \in Clients \ {r} : at'[q] = at[q] /\ num'[q] = num[q]
      BY <1>8 DEF Begin, Over, Placed
    <2>. QED
      BY <1>3, <1>8, <2>1 DEF Begin
  <1>9. ASSUME NEW r \in Clients, NEW hasText \in BOOLEAN,
               BeginText(r, hasText) \/ HearFinal(r, hasText)
        PROVE  Calling'
    BY <1>8, <1>9 DEF BeginText, HearFinal, Free, Calling, Asks
  <1>10. ASSUME NEW r \in Clients, HearChunk(r) \/ HearNothing(r) \/ TurnAgent(r) \/ TurnCheck(r)
                                   \/ TurnTts(r) \/ HandoffGive(r) \/ HandoffTts(r)
         PROVE  Calling'
    <2>1. pc[r] = "idle" /\ UNCHANGED vars
      BY <1>10 DEF HearChunk, Free, HearNothing, TurnAgent, TurnCheck, TurnTts, HandoffGive,
                   HandoffTts, Calling, Asks
    <2>2. (\E l : Move(r, l)) \/ Over(r)
      BY <1>10 DEF HearChunk, HearNothing, TurnAgent, TurnCheck, TurnTts, HandoffGive, HandoffTts
    <2>. QED
      BY <1>3, <1>4, <2>1, <2>2
  <1>11. ASSUME NEW r \in Clients,
                \/ HearGet(r) \/ TurnGet(r) \/ TurnUser(r) \/ TurnReply(r) \/ HandoffGet(r)
                \/ HandoffTurn(r) \/ HandoffEnd(r) \/ HandoffFresh(r)
         PROVE  Calling'
    <2>1. Step(r) /\ pc'[r] = "idle"
      BY <1>11 DEF HearGet, TurnGet, TurnUser, TurnReply, HandoffGet, HandoffTurn, HandoffEnd,
                   HandoffFresh, Returns
    <2>2. (\E l : Move(r, l)) \/ Over(r)
      BY <1>11 DEF HearGet, TurnGet, TurnUser, TurnReply, HandoffGet, HandoffTurn, HandoffEnd,
                   HandoffFresh, Added
    <2>. QED
      BY <1>2, <1>4, <2>1, <2>2
  <1>12. CASE RequestBargeIn \/ Expire
    BY <1>12 DEF RequestBargeIn, Expire, ExpireSession, local, pvars, vars, Calling, Line
  <1>. QED
    BY <1>5, <1>6, <1>7, <1>9, <1>10, <1>11, <1>12 DEF PNext, Talk, TurnStep

-----------------------------------------------------------------------------
(* The flag.                                                                *)

LEMMA MarkedStep ==
    ASSUME TypeOK, Placed, Calling, Numbered, Marked, FlagKnown, PNext
    PROVE  Marked' /\ FlagKnown' /\ (DroppedWasInterrupted => DroppedWasInterrupted')
  <1>. USE DEF heard
  <1>1. \A r \in Clients : num[r] # 0 => num[r] \in 1..MaxBegun
    BY PipelineAssumption DEF Placed
  <1>2. ASSUME UNCHANGED heard, flag' = FALSE \/ (flag' = flag /\ \A r \in Clients : num'[r] \in {0, num[r]})
        PROVE  Marked' /\ FlagKnown' /\ (DroppedWasInterrupted => DroppedWasInterrupted')
    <2>1. Marked' /\ (DroppedWasInterrupted => DroppedWasInterrupted')
      BY <1>2 DEF Marked, DroppedWasInterrupted
    <2>2. FlagKnown'
      BY <1>2 DEF FlagKnown
    <2>. QED
      BY <2>1, <2>2
  <1>3. ASSUME NEW r \in Clients, NEW l, Move(r, l) \/ Over(r)
        PROVE  \A q \in Clients : num'[q] \in {0, num[q]}
    BY <1>3 DEF Move, Over, Placed
  <1>4. ASSUME NEW r \in Clients, HearChunk(r) \/ Call(r) \/ Await(r) \/ Outside(r)
        PROVE  Marked' /\ FlagKnown' /\ (DroppedWasInterrupted => DroppedWasInterrupted')
    BY <1>2, <1>3, <1>4 DEF HearChunk, Call, Await, Outside, pvars, Marked
  <1>5. ASSUME NEW r \in Clients, \/ Raise(r) \/ HearGet(r) \/ HearNothing(r) \/ TurnGet(r)
                                  \/ TurnUser(r) \/ TurnAgent(r) \/ TurnReply(r)
                                  \/ HandoffGet(r) \/ HandoffTurn(r) \/ HandoffEnd(r)
                                  \/ HandoffFresh(r)
        PROVE  Marked' /\ FlagKnown' /\ (DroppedWasInterrupted => DroppedWasInterrupted')
    BY <1>2, <1>3, <1>5
       DEF Raise, HearGet, HearNothing, TurnGet, TurnUser, TurnAgent, TurnReply, HandoffGet,
           HandoffTurn, HandoffEnd, HandoffFresh, Added
  <1>6. ASSUME NEW r \in Clients, NEW hasText \in BOOLEAN,
               BeginText(r, hasText) \/ HearFinal(r, hasText)
        PROVE  Marked' /\ FlagKnown' /\ (DroppedWasInterrupted => DroppedWasInterrupted')
    BY <1>2, <1>6 DEF BeginText, HearFinal, Begin
  <1>7. ASSUME NEW r \in Clients, TurnCheck(r) \/ TurnTts(r)
        PROVE  Marked' /\ FlagKnown' /\ (DroppedWasInterrupted => DroppedWasInterrupted')
    <2>1. num[r] # 0 /\ num[r] \in 1..MaxBegun
      BY <1>1, <1>7 DEF TurnCheck, TurnTts, Numbered, TurnFree
    <2>2. /\ flag' = FALSE /\ asked' = asked /\ handed' = handed
          /\ spoken' \in {spoken, spoken \cup {num[r]}}
          /\ dropped' = dropped \/ (flag /\ dropped' = dropped \cup {num[r]})
      BY <1>7 DEF TurnCheck, TurnTts, Marked
    <2>. QED
      BY <2>1, <2>2 DEF Marked, FlagKnown, DroppedWasInterrupted
  <1>8. ASSUME NEW r \in Clients, HandoffGive(r) \/ HandoffTts(r)
        PROVE  Marked' /\ FlagKnown' /\ (DroppedWasInterrupted => DroppedWasInterrupted')
    <2>1. num[r] \in 1..MaxBegun
      BY <1>1, <1>8 DEF HandoffGive, HandoffTts, Numbered, TurnFree
    <2>2. \A q \in Clients : num'[q] \in {0, num[q]}
      BY <1>3, <1>8 DEF HandoffGive, HandoffTts
    <2>3. /\ flag' = flag /\ asked' = asked /\ dropped' = dropped
          /\ spoken' \in {spoken, spoken \cup {num[r]}} /\ handed' \in {handed, handed \cup {num[r]}}
      BY <1>8 DEF HandoffGive, HandoffTts
    <2>4. Marked' /\ (DroppedWasInterrupted => DroppedWasInterrupted')
      BY <2>1, <2>3 DEF Marked, DroppedWasInterrupted
    <2>5. FlagKnown'
      BY <2>2, <2>3 DEF FlagKnown
    <2>. QED
      BY <2>4, <2>5
  <1>9. CASE RequestBargeIn
    <2>1. {num[r] : r \in {q \in Clients : num[q] # 0}} \subseteq 1..MaxBegun
      BY <1>1
    <2>. QED
      BY <1>9, <2>1 DEF RequestBargeIn, Marked, FlagKnown, DroppedWasInterrupted
  <1>10. CASE Expire
    BY <1>2, <1>10 DEF Expire, pvars, Marked
  <1>. QED
    BY <1>4, <1>5, <1>6, <1>7, <1>8, <1>9, <1>10 DEF PNext, Talk, TurnStep

-----------------------------------------------------------------------------
(* What is acknowledged.                                                    *)

\* Another turn's line says nothing of this one.
LEMMA RolesAdded ==
    ASSUME NEW r \in Clients, NEW role, NEW n, acked' = acked \cup {Line(r, role)}
    PROVE  RolesOf(acked', n) = IF n = num[r] THEN RolesOf(acked, n) \cup {role}
                                              ELSE RolesOf(acked, n)
  <1>1. Line(r, role).role = role /\ Line(r, role).turn = num[r]
    BY DEF Line
  <1>2. \A x : x \in RolesOf(acked', n) <=> x \in RolesOf(acked, n) \/ (n = num[r] /\ x = role)
    BY <1>1 DEF RolesOf
  <1>. QED
    BY <1>2

LEMMA RolesNew ==
    ASSUME NEW n, \A l \in acked : l.turn # n
    PROVE  RolesOf(acked, n) = {}
  BY DEF RolesOf

\* A turn that is not in progress has all the lines it will have.
LEMMA HeardKept ==
    ASSUME HeardIsAcknowledged, UNCHANGED <<spoken, dropped, handed>>,
           \A n \in spoken \cup dropped \cup handed : RolesOf(acked', n) = RolesOf(acked, n)
    PROVE  HeardIsAcknowledged'
  BY DEF HeardIsAcknowledged

Heard == Past /\ OnRecord /\ HeardIsAcknowledged

LEMMA BeginsHeard ==
    ASSUME TypeOK, Placed, Numbered, Marked, Heard, NEW r \in Clients, Begins(r)
    PROVE  Heard'
  <1>. USE DEF Heard
  <1>1. /\ at'[r] = "t_get" /\ num'[r] = begun + 1 /\ begun' = begun + 1 /\ begun \in Nat
        /\ \A q \in Clients \ {r} : at'[q] = at[q] /\ num'[q] = num[q]
        /\ UNCHANGED <<acked, spoken, dropped, handed>>
    BY PipelineAssumption DEF Begins, Placed
  <1>2. \A l \in acked : l.turn \in Nat /\ l.turn <= begun
    BY PipelineAssumption DEF TypeOK, Lines, Past
  <1>3. \A n \in spoken \cup dropped \cup handed : n \in Nat /\ n <= begun
    BY DEF Marked, Past
  <1>4. Past'
    BY <1>1, <1>2, <1>3 DEF Past
  <1>5. RolesOf(acked', num'[r]) = RolesBy(at'[r])
    BY <1>1, <1>2, RolesNew DEF RolesBy
  <1>6. num'[r] \notin spoken \cup dropped \cup handed
    BY <1>1, <1>3
  <1>7. OnRecord'
    BY <1>1, <1>5, <1>6 DEF OnRecord
  <1>8. HeardIsAcknowledged'
    BY <1>1, HeardKept
  <1>. QED
    BY <1>4, <1>7, <1>8

LEMMA StopsHeard ==
    ASSUME TypeOK, Placed, Numbered, Marked, Heard, NEW r \in Clients, Stops(r)
    PROVE  Heard'
  <1>. USE DEF Heard
  <1>1. /\ num'[r] = 0 /\ UNCHANGED <<acked, begun, handed>>
        /\ \A q \in Clients \ {r} : at'[q] = at[q] /\ num'[q] = num[q]
        /\ num[r] # 0 /\ num[r] <= begun
        /\ \A q \in Clients \ {r} : num[q] # num[r]
    BY DEF Stops, Over, Placed, Numbered
  <1>2. /\ RolesOf(acked, num[r]) = RolesBy(at[r])
        /\ num[r] \notin spoken \cup dropped /\ (num[r] \in handed <=> at[r] = "h_tts")
    BY <1>1 DEF OnRecord
  <1>3. /\ spoken' \in {spoken, spoken \cup {num[r]}}
        /\ dropped' \in {dropped, dropped \cup {num[r]}}
    BY DEF Stops
  <1>4. Past'
    BY <1>1, <1>3 DEF Past
  <1>5. OnRecord'
    <2>. SUFFICES ASSUME NEW q \in Clients, num'[q] # 0
                  PROVE  /\ RolesOf(acked', num'[q]) = RolesBy(at'[q])
                         /\ num'[q] \notin spoken' \cup dropped'
                         /\ num'[q] \in handed' <=> at'[q] = "h_tts"
      BY DEF OnRecord
    <2>1. q # r /\ num'[q] = num[q] /\ at'[q] = at[q] /\ num[q] # num[r]
      BY <1>1
    <2>. QED
      BY <1>1, <1>3, <2>1 DEF OnRecord
  <1>6. HeardIsAcknowledged'
    <2>1. CASE UNCHANGED <<spoken, dropped>>
      BY <1>1, <2>1, HeardKept
    <2>2. CASE /\ at[r] = "t_tts" /\ spoken' = spoken \cup {num[r]} /\ dropped' = dropped
      <3>1. RolesOf(acked, num[r]) = {"user", "assistant"}
        BY <1>2, <2>2 DEF RolesBy
      <3>. QED
        BY <1>1, <1>2, <2>2, <3>1 DEF HeardIsAcknowledged
    <2>3. CASE /\ at[r] = "h_tts" /\ spoken' = spoken \cup {num[r]} /\ dropped' = dropped
      <3>1. RolesOf(acked, num[r]) = {"user", "handoff"}
        BY <1>2, <2>3 DEF RolesBy
      <3>. QED
        BY <1>1, <1>2, <2>3, <3>1 DEF HeardIsAcknowledged
    <2>4. CASE /\ at[r] \in {"t_check", "t_tts"} /\ dropped' = dropped \cup {num[r]}
               /\ spoken' = spoken
      <3>1. RolesOf(acked, num[r]) = {"user", "assistant"}
        BY <1>2, <2>4 DEF RolesBy
      <3>. QED
        BY <1>1, <1>2, <2>4, <3>1 DEF HeardIsAcknowledged
    <2>. QED
      BY <2>1, <2>2, <2>3, <2>4 DEF Stops
  <1>. QED
    BY <1>4, <1>5, <1>6

LEMMA ProceedsHeard ==
    ASSUME TypeOK, Placed, Numbered, Marked, Heard, NEW r \in Clients, NEW l, Proceeds(r, l)
    PROVE  Heard'
  <1>. USE DEF Heard
  <1>1. /\ at'[r] = l /\ num' = num /\ num[r] # 0 /\ num[r] <= begun
        /\ \A q \in Clients \ {r} : at'[q] = at[q]
        /\ UNCHANGED <<begun, spoken, dropped>>
        /\ \A q \in Clients \ {r} : num[q] # num[r]
    BY DEF Proceeds, Move, Placed, Numbered
  <1>2. /\ RolesOf(acked, num[r]) = RolesBy(at[r])
        /\ num[r] \notin spoken \cup dropped /\ (num[r] \in handed <=> at[r] = "h_tts")
    BY <1>1 DEF OnRecord
  <1>3. CASE /\ RolesBy(l) = RolesBy(at[r]) /\ at[r] # "h_tts" /\ l # "h_tts"
             /\ UNCHANGED <<acked, handed>>
    <2>1. Past' /\ HeardIsAcknowledged'
      BY <1>1, <1>3, HeardKept DEF Past
    <2>2. OnRecord'
      BY <1>1, <1>2, <1>3 DEF OnRecord
    <2>. QED
      BY <2>1, <2>2
  <1>4. CASE /\ at[r] \in DOMAIN RoleAt /\ l # "h_tts"
             /\ RolesBy(l) = RolesBy(at[r]) \cup {RoleAt[at[r]]}
             /\ acked' = acked \cup {Line(r, RoleAt[at[r]])} /\ UNCHANGED handed
    <2>1. Past'
      BY <1>1, <1>4 DEF Past, Line
    <2>2. num[r] \notin spoken \cup dropped \cup handed
      BY <1>2, <1>4, RoleStages
    <2>3. \A n : RolesOf(acked', n) = IF n = num[r] THEN RolesBy(l) ELSE RolesOf(acked, n)
      <3>1. \A n : RolesOf(acked', n) = IF n = num[r] THEN RolesOf(acked, n) \cup {RoleAt[at[r]]}
                                                     ELSE RolesOf(acked, n)
        BY <1>4, RolesAdded
      <3>. QED
        BY <1>2, <1>4, <3>1
    <2>4. HeardIsAcknowledged'
      BY <1>1, <1>4, <2>2, <2>3, HeardKept
    <2>5. OnRecord'
      BY <1>1, <1>4, <2>2, <2>3 DEF OnRecord
    <2>. QED
      BY <2>1, <2>4, <2>5
  <1>5. CASE /\ at[r] = "h_give" /\ l = "h_tts"
             /\ handed' = handed \cup {num[r]} /\ UNCHANGED acked
    <2>1. RolesOf(acked, num[r]) = {"user", "handoff"} /\ RolesBy(l) = {"user", "handoff"}
      BY <1>2, <1>5 DEF RolesBy
    <2>2. Past'
      BY <1>1, <1>5 DEF Past
    <2>3. HeardIsAcknowledged'
      BY <1>1, <1>2, <1>5, <2>1 DEF HeardIsAcknowledged
    <2>4. OnRecord'
      <3>. SUFFICES ASSUME NEW q \in Clients, num'[q] # 0
                    PROVE  /\ RolesOf(acked', num'[q]) = RolesBy(at'[q])
                           /\ num'[q] \notin spoken' \cup dropped'
                           /\ num'[q] \in handed' <=> at'[q] = "h_tts"
        BY DEF OnRecord
      <3>1. CASE q = r
        BY <1>1, <1>2, <1>5, <2>1, <3>1
      <3>2. CASE q # r
        BY <1>1, <1>5, <3>2 DEF OnRecord
      <3>. QED
        BY <3>1, <3>2
    <2>. QED
      BY <2>2, <2>3, <2>4
  <1>. QED
    BY <1>3, <1>4, <1>5 DEF Proceeds

LEMMA HeardStep ==
    ASSUME TypeOK, Placed, Calling, Numbered, Marked, Heard, PNext
    PROVE  Heard'
  <1>1. CASE Rests
    BY <1>1 DEF Rests, Heard, Past, OnRecord, HeardIsAcknowledged
  <1>2. ASSUME NEW r \in Clients, Listens(r)
        PROVE  Heard'
    <2>1. UNCHANGED <<begun, acked, spoken, dropped, handed>>
      BY <1>2 DEF Listens
    <2>2. \A q \in Clients : num'[q] # 0 => num'[q] = num[q] /\ at'[q] = at[q]
      BY <1>2 DEF Listens, Over, Move, Placed, Numbered, TurnFree
    <2>. QED
      BY <2>1, <2>2 DEF Heard, Past, OnRecord, HeardIsAcknowledged
  <1>. QED
    BY <1>1, <1>2, BeginsHeard, StopsHeard, ProceedsHeard, Moves

-----------------------------------------------------------------------------
(* The theorems.                                                            *)

PInv == /\ TypeOK /\ Placed /\ Marked /\ Calling /\ Numbered /\ FlagKnown
        /\ Heard /\ DroppedWasInterrupted

LEMMA PipelineStarts == PInit => PInv
  <1>. SUFFICES ASSUME PInit PROVE PInv
    OBVIOUS
  <1>. USE DEF PInit
  <1>1. TypeOK
    BY ValuesTyped DEF TypeOK, PCs, OpKinds
  <1>2. Placed /\ Marked
    <2>1. 0 \in 0..MaxBegun /\ "idle" \in Stages
      BY PipelineAssumption DEF Stages
    <2>. QED
      BY <2>1 DEF Placed, Marked
  <1>3. Calling /\ Numbered
    BY PipelineAssumption, RoleStages DEF Calling, Numbered, TurnFree
  <1>4. FlagKnown /\ DroppedWasInterrupted
    BY DEF FlagKnown, DroppedWasInterrupted
  <1>5. Heard
    BY DEF Heard, Past, OnRecord, HeardIsAcknowledged
  <1>. QED
    BY <1>1, <1>2, <1>3, <1>4, <1>5 DEF PInv

LEMMA PipelineKeeps == PInv /\ [PNext]_allvars => PInv'
  <1>. SUFFICES ASSUME PInv, [PNext]_allvars PROVE PInv'
    OBVIOUS
  <1>1. TypeOK'
    BY StoreSteps, NextTyped DEF PInv
  <1>2. CASE PNext
    BY <1>1, <1>2, PlacedStep, MarkedStep, CallingStep, NumberedStep, HeardStep DEF PInv
  <1>3. CASE UNCHANGED allvars
    <2>. USE <1>3 DEF allvars, pvars, heard, vars, PInv
    <2>1. Placed' /\ Marked'
      BY DEF Placed, Marked
    <2>2. Calling' /\ Numbered'
      BY DEF Calling, Numbered, Line
    <2>3. FlagKnown' /\ DroppedWasInterrupted'
      BY DEF FlagKnown, DroppedWasInterrupted
    <2>4. Heard'
      BY DEF Heard, Past, OnRecord, HeardIsAcknowledged
    <2>. QED
      BY <1>1, <2>1, <2>2, <2>3, <2>4
  <1>. QED
    BY <1>2, <1>3

\* The inductive invariant: which call each stage makes, that turns in progress
\* have different numbers, and which lines of each were acknowledged by then.
THEOREM PipelineInvariance == PSpec => []PInv
  BY PipelineStarts, PipelineKeeps, PTL DEF PSpec

\* Whatever turns overlap, each is at one of its awaits, and no more turns
\* are counted than were begun.
THEOREM PipelineTypeCorrect == PSpec => []PTypeOK
  <1>1. PInv => PTypeOK
    BY DEF PInv, Placed, Marked, PTypeOK
  <1>. QED
    BY <1>1, PipelineInvariance, PTL

\* request_barge_in silences nobody but the turns it was meant for: each turn
\* clears the flag when it begins, whoever else is in a turn.
THEOREM DroppedOnlyIfAsked == PSpec => []DroppedWasInterrupted
  BY PipelineInvariance, PTL DEF PInv

\* handle_user_text speaks no reply, and _do_handoff no message, of which
\* add_turn has not acknowledged the words and what is said.
THEOREM HeardOnlyIfAcknowledged == PSpec => []HeardIsAcknowledged
  BY PipelineInvariance, PTL DEF PInv, Heard

\* The turns of any number of clients never leave a session, or a mapping of
\* it, in Redis that the database does not know.
THEOREM PipelineIsRecoverable == PSpec => []RedisNeedsRow
  <1>1. PInit => RowInv
    BY AbsentOrFresh DEF PInit, RowInv, RedisNeedsRow, Held
  <1>2. PInv /\ RowInv /\ [PNext]_allvars => RowInv'
    BY StoreSteps, NextRow DEF PInv
  <1>3. RowInv => RedisNeedsRow
    BY DEF RowInv
  <1>. QED
    BY <1>1, <1>2, <1>3, PipelineInvariance, PTL DEF PSpec
=============================================================================
