------------------------ MODULE ConversationPipeline ------------------------
(***************************************************************************)
(* One conversation turn (services/conversation_pipeline.py) and what      *)
(* several of them do to one session: from the caller's words to the       *)
(* reply, or to the hand-off to a human (services/handoff.py).  A client   *)
(* of the SessionStore is whoever awaits handle_user_text or               *)
(* handle_audio_chunk, a socket handler or an HTTP text turn, or uses the  *)
(* session manager itself, as the HTTP end and the status callback do.     *)
(*                                                                         *)
(* A turn is at a stage, the call it is about to make or awaits; the calls *)
(* to the session manager are the operations of SessionStore, step by      *)
(* step, so turns read, overwrite and lose what SessionStore lets them.    *)
(* Texts, scores, tools and audio are what a decision makes of them: a     *)
(* turn either goes on or escalates.                                       *)
(***************************************************************************)
EXTENDS SessionStore, Naturals

CONSTANTS
    MaxTurns,       \* transcript length that forces a hand-off (20 in the code)
    MaxBegun        \* bound: how many turns are begun in all

Roles == {"user", "assistant", "handoff"}

\* A line of the transcript names the turn it is from.
Lines == [role : Roles, turn : 1..MaxBegun]
HandoffLines == {l \in Lines : l.role = "handoff"}

ASSUME PipelineAssumption ==
    /\ MaxTurns \in Nat /\ MaxBegun \in Nat
    /\ Turns = Lines /\ HandoffTurns = HandoffLines
    /\ Ops = {"get", "turn", "complete", "handoff"}

VARIABLES
    flag,           \* _barge_in_flags: is one set for the session?
    at,             \* per client: the stage of its turn
    num,            \* per client: the number of its turn, 0 if none
    begun,          \* how many turns were begun
    asked,          \* turns during which a barge-in was requested
    spoken,         \* turns that emitted TTS_AUDIO
    dropped,        \* turns that emitted BARGE_IN in place of it
    handed          \* turns that started a transfer and emitted HANDOFF

heard == <<asked, spoken, dropped, handed>>
pvars == <<flag, at, num, begun, heard>>
allvars == <<vars, pvars>>

\* The stages that await the session manager: a get, or the turn to add.
Reads == {"a_get", "t_get", "h_get", "h_fresh"}
RoleAt == [t_user |-> "user", t_reply |-> "assistant", h_turn |-> "handoff"]

\* Those that await a provider.
Asks == {"a_stt", "t_agent", "t_tts", "h_give", "h_tts"}

Stages == {"idle", "t_check", "h_end"} \cup Reads \cup DOMAIN RoleAt \cup Asks

\* A session that was just created.
PInit == /\ row = Fresh /\ cache = Fresh /\ bound = FALSE
         /\ pc = [r \in Clients |-> "idle"] /\ op = [r \in Clients |-> "get"]
         /\ turn = [r \in Clients |-> {}]
         /\ loc = [r \in Clients |-> Absent] /\ loaded = [r \in Clients |-> Absent]
         /\ sent = {} /\ acked = {}
         /\ flag = FALSE
         /\ at = [r \in Clients |-> "idle"] /\ num = [r \in Clients |-> 0]
         /\ begun = 0
         /\ asked = {} /\ spoken = {} /\ dropped = {} /\ handed = {}

Move(r, l) == at' = [at EXCEPT ![r] = l] /\ UNCHANGED num

\* The call returns, or raises: the client has no turn any more.
Over(r) == /\ at' = [at EXCEPT ![r] = "idle"]
           /\ num' = [num EXCEPT ![r] = 0]

Line(r, role) == [role |-> role, turn |-> num[r]]

-----------------------------------------------------------------------------
(* Calls to the session manager.                                            *)

\* Client r makes the call of its stage.
Call(r) ==
    /\ \/ at[r] \in Reads /\ StartGet(r, "get")
       \/ at[r] \in DOMAIN RoleAt /\ StartTurn(r, Line(r, RoleAt[at[r]]))
       \/ at[r] = "h_end" /\ StartGet(r, "handoff")
    /\ UNCHANGED pvars

\* It goes on inside, or returns.
Await(r) == at[r] # "idle" /\ Step(r) /\ pc'[r] # "idle" /\ UNCHANGED pvars

Returns(r, l) == at[r] = l /\ Step(r) /\ pc'[r] = "idle"

\* The copy that a returning get answers; whether a returning add_turn has
\* appended, or raised SessionError.
Given(r) == IF pc[r] = "g_cache" THEN cache ELSE loc[r]
Appended(r) == pc[r] = "p_commit"

\* After an add_turn: the stage l, or the end of the turn.
Added(r, l) == IF Appended(r) THEN Move(r, l) ELSE Over(r)

-----------------------------------------------------------------------------
\* request_barge_in.  The ghost notes the turns that are in progress.
RequestBargeIn ==
    /\ flag' = TRUE
    /\ asked' = asked \cup {num[r] : r \in {q \in Clients : num[q] # 0}}
    /\ UNCHANGED <<vars, at, num, begun, spoken, dropped, handed>>

\* Mutant: the flag of an earlier turn is kept.
BeginKeepsFlag(r, hasText) ==
    /\ begun < MaxBegun
    /\ IF hasText
       THEN /\ begun' = begun + 1
            /\ at' = [at EXCEPT ![r] = "t_get"]
            /\ num' = [num EXCEPT ![r] = begun + 1]
       ELSE Over(r) /\ UNCHANGED begun
    /\ UNCHANGED <<vars, flag, heard>>

\* The head of handle_user_text: a new turn owns the barge-in state; without
\* text there is no turn.
Begin(r, hasText) ==
    /\ begun < MaxBegun
    /\ flag' = FALSE
    /\ IF hasText
       THEN /\ begun' = begun + 1
            /\ at' = [at EXCEPT ![r] = "t_get"]
            /\ num' = [num EXCEPT ![r] = begun + 1]
       ELSE Over(r) /\ UNCHANGED begun
    /\ UNCHANGED <<vars, heard>>

\* Whoever neither takes a turn nor uses the session manager himself.
Free(r) == at[r] = "idle" /\ pc[r] = "idle"

BeginText(r, hasText) == Free(r) /\ Begin(r, hasText)

\* handle_audio_chunk: nothing happens on a session that is not active;
\* otherwise the chunk yields no transcript or a partial one, or a final one
\* that begins a turn.
HearChunk(r) ==
    /\ Free(r) /\ Move(r, "a_get")
    /\ UNCHANGED <<vars, flag, begun, heard>>

HearGet(r) ==
    /\ Returns(r, "a_get")
    /\ IF Given(r).status = "active" THEN Move(r, "a_stt") ELSE Over(r)
    /\ UNCHANGED <<flag, begun, heard>>

HearNothing(r) ==
    /\ at[r] = "a_stt" /\ Over(r)
    /\ UNCHANGED <<vars, flag, begun, heard>>

HearFinal(r, hasText) == at[r] = "a_stt" /\ Begin(r, hasText)

-----------------------------------------------------------------------------
TurnGet(r) ==
    /\ Returns(r, "t_get")
    /\ IF Given(r).status = "active" THEN Move(r, "t_user") ELSE Over(r)
    /\ UNCHANGED <<flag, begun, heard>>

\* Mutant: the length that forces a hand-off is off by one exchange.
EscalatesLate(length) == IF length > MaxTurns + 1 THEN {TRUE} ELSE {TRUE, FALSE}

\* HandoffPolicy.evaluate: the words, the confidence and a failed tool may
\* escalate any turn; a long transcript escalates every turn.
Escalates(length) == IF length >= MaxTurns THEN {TRUE} ELSE {TRUE, FALSE}

\* The user's turn, and the decision on it and on the transcript it ends.
TurnUser(r) ==
    /\ Returns(r, "t_user")
    /\ \E e \in Escalates(Cardinality(loc[r].turns)) :
          Added(r, IF e THEN "h_get" ELSE "t_agent")
    /\ UNCHANGED <<flag, begun, heard>>

\* The agent's answer; its own decision, or the policy's on its answer, may
\* still escalate.
TurnAgent(r) ==
    /\ at[r] = "t_agent"
    /\ \E e \in BOOLEAN : Move(r, IF e THEN "h_get" ELSE "t_reply")
    /\ UNCHANGED <<vars, flag, begun, heard>>

\* Mutant: the refusal of the session manager is logged and forgotten.
TurnReplySoft(r) ==
    /\ Returns(r, "t_reply") /\ Move(r, "t_check")
    /\ UNCHANGED <<flag, begun, heard>>

TurnReply(r) ==
    /\ Returns(r, "t_reply") /\ Added(r, "t_check")
    /\ UNCHANGED <<flag, begun, heard>>

\* A barge-in that came before synthesis.
TurnCheck(r) ==
    /\ at[r] = "t_check"
    /\ IF flag THEN Over(r) /\ dropped' = dropped \cup {num[r]}
               ELSE Move(r, "t_tts") /\ UNCHANGED dropped
    /\ flag' = FALSE
    /\ UNCHANGED <<vars, begun, asked, spoken, handed>>

\* Mutant: nobody looks at the flag after synthesis.
TurnTtsSpeaks(r) ==
    /\ at[r] = "t_tts" /\ Over(r)
    /\ spoken' = spoken \cup {num[r]} /\ flag' = FALSE
    /\ UNCHANGED <<vars, begun, asked, dropped, handed>>

\* Synthesis, and a barge-in that came during it.
TurnTts(r) ==
    /\ at[r] = "t_tts" /\ Over(r)
    /\ IF flag
       THEN dropped' = dropped \cup {num[r]} /\ UNCHANGED spoken
       ELSE spoken' = spoken \cup {num[r]} /\ UNCHANGED dropped
    /\ flag' = FALSE
    /\ UNCHANGED <<vars, begun, asked, handed>>

-----------------------------------------------------------------------------
\* _do_handoff reads the session for its summary; the message is added first,
\* then the session waits for a human; whether end changed anything is not
\* asked.
HandoffGet(r) ==
    /\ Returns(r, "h_get") /\ Move(r, "h_turn")
    /\ UNCHANGED <<flag, begun, heard>>

HandoffTurn(r) ==
    /\ Returns(r, "h_turn") /\ Added(r, "h_end")
    /\ UNCHANGED <<flag, begun, heard>>

\* A warm transfer reads the session again, for the call's CallSid.
HandoffEnd(r) ==
    /\ Returns(r, "h_end") /\ \E l \in {"h_fresh", "h_give"} : Move(r, l)
    /\ UNCHANGED <<flag, begun, heard>>

HandoffFresh(r) ==
    /\ Returns(r, "h_fresh") /\ Move(r, "h_give")
    /\ UNCHANGED <<flag, begun, heard>>

HandoffGive(r) ==
    /\ at[r] = "h_give" /\ Move(r, "h_tts")
    /\ handed' = handed \cup {num[r]}
    /\ UNCHANGED <<vars, flag, begun, asked, spoken, dropped>>

\* The hand-off message is spoken whatever the barge-in flag says.
HandoffTts(r) ==
    /\ at[r] = "h_tts" /\ Over(r)
    /\ spoken' = spoken \cup {num[r]}
    /\ UNCHANGED <<vars, flag, begun, asked, dropped, handed>>

-----------------------------------------------------------------------------
\* An await raises, in the session manager or in a provider; the exception
\* ends the turn, or the call, and leaves what it has written where it is.
Raise(r) ==
    /\ \/ Fail(r)
       \/ at[r] \in Asks /\ CanFail /\ UNCHANGED vars
    /\ Over(r)
    /\ UNCHANGED <<flag, begun, heard>>

\* A client that has no turn reads or ends the session: the HTTP routes, the
\* status callback, a connection that is closed, which first clears the flag.
Outside(r) ==
    /\ at[r] = "idle"
    /\ \/ StartGet(r, "get") /\ flag' \in {flag, FALSE}
       \/ (StartGet(r, "complete") \/ Step(r)) /\ UNCHANGED flag
    /\ UNCHANGED <<at, num, begun, heard>>

Expire == ExpireSession /\ UNCHANGED pvars

TurnStep(r) ==
    \/ Call(r) \/ Await(r)
    \/ HearGet(r) \/ HearNothing(r) \/ \E hasText \in BOOLEAN : HearFinal(r, hasText)
    \/ TurnGet(r) \/ TurnUser(r) \/ TurnAgent(r) \/ TurnReply(r) \/ TurnCheck(r) \/ TurnTts(r)
    \/ HandoffGet(r) \/ HandoffTurn(r) \/ HandoffEnd(r) \/ HandoffFresh(r)
    \/ HandoffGive(r) \/ HandoffTts(r)

Talk == \/ \E r \in Clients : \/ HearChunk(r) \/ TurnStep(r) \/ Raise(r)
                              \/ \E hasText \in BOOLEAN : BeginText(r, hasText)
        \/ RequestBargeIn \/ Expire

PNext == Talk \/ \E r \in Clients : Outside(r)

PSpec == PInit /\ [][PNext]_allvars

-----------------------------------------------------------------------------
(* Properties.                                                              *)

\* The one type invariant.
PTypeOK ==
    /\ TypeOK
    /\ flag \in BOOLEAN
    /\ at \in [Clients -> Stages] /\ num \in [Clients -> 0..MaxBegun]
    /\ begun \in 0..MaxBegun
    /\ asked \subseteq 1..MaxBegun /\ spoken \subseteq 1..MaxBegun
    /\ dropped \subseteq 1..MaxBegun /\ handed \subseteq 1..MaxBegun

\* The roles under which a set of lines holds turn n.
RolesOf(lines, n) == {l.role : l \in {k \in lines : k.turn = n}}

\* A reply is dropped only when somebody interrupted that very turn: an
\* interruption of an earlier reply, or of nothing, never silences a later
\* one, whichever turns overlap.
DroppedWasInterrupted == dropped \subseteq asked

\* What the caller hears has been acknowledged by the session manager before:
\* the words and the reply, or the words and the hand-off message, and never
\* both of these; whichever calls fail, and whatever other turns and ends do
\* to the session.  (Two turns at once may still overwrite each other's lines
\* afterwards; what one talker hears stays on record, see VoiceSocket.)
HeardIsAcknowledged ==
    /\ \A n \in spoken \cup dropped \cup handed : "user" \in RolesOf(acked, n)
    /\ \A n \in dropped \cup (spoken \ handed) : RolesOf(acked, n) = {"user", "assistant"}
    /\ \A n \in handed : RolesOf(acked, n) = {"user", "handoff"}
=============================================================================
