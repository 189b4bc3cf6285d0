----------------------------- MODULE VoiceSocket -----------------------------
(***************************************************************************)
(* The voice WebSocket (api/routes/voice_ws.py): connections to one        *)
(* session, each a loop that takes one message after the other and awaits  *)
(* its turn.  The clients of ConversationPipeline are the connections; in  *)
(* between two turns a connection calls the session manager itself, to end *)
(* the session or to clean up after itself.                                *)
(*                                                                         *)
(* Each connection holds a turn lock of its own, so nobody ever waits for  *)
(* it: the loop is the only one to take it and awaits the turn inside.     *)
(***************************************************************************)
EXTENDS ConversationPipeline, Sequences

CONSTANTS
    Sends,          \* per connection: the messages its client may send
    MaxSent         \* bound: messages sent in all

Messages == {"text", "blank", "audio", "barge_in", "end", "disconnect"}

ASSUME SocketAssumption ==
    Sends \in [Clients -> SUBSET Messages] /\ MaxSent \in Nat

VARIABLES
    inbox,          \* per connection: messages that arrived, not yet taken
    conn,           \* per connection: where its loop is
    gone,           \* connections whose client has disconnected
    messages,       \* how many messages were sent
    skipped         \* connections whose cleanup logged that it could not end
                    \* the session

socket == <<inbox, conn, gone, messages, skipped>>
svars == <<allvars, socket>>

\* In the loop, in its call of end, out of it, in the two calls of the finally
\* block (about to make the second one), and over.
Conns == {"open", "ending", "leaving", "reading", "finish", "finishing", "closed"}

SInit == /\ PInit
         /\ inbox = [k \in Clients |-> <<>>]
         /\ conn = [k \in Clients |-> "open"]
         /\ gone = {} /\ messages = 0 /\ skipped = {}

Become(k, l) == conn' = [conn EXCEPT ![k] = l]

-----------------------------------------------------------------------------
\* The client.
Send(k, m) ==
    /\ m \in Sends[k] /\ k \notin gone /\ messages < MaxSent
    /\ messages' = messages + 1
    /\ inbox' = [inbox EXCEPT ![k] = Append(@, m)]
    /\ gone' = IF m = "disconnect" THEN gone \cup {k} ELSE gone
    /\ UNCHANGED <<allvars, conn, skipped>>

\* The loop takes message m, which it only does between two turns.
Take(k, m) ==
    /\ conn[k] = "open" /\ Free(k)
    /\ inbox[k] # <<>> /\ Head(inbox[k]) = m
    /\ inbox' = [inbox EXCEPT ![k] = Tail(@)]
    /\ UNCHANGED <<gone, messages, skipped>>

TakeText(k) == /\ Take(k, "text") /\ BeginText(k, TRUE) /\ UNCHANGED conn

TakeBlank(k) == /\ Take(k, "blank") /\ BeginText(k, FALSE) /\ UNCHANGED conn

TakeAudio(k) == /\ Take(k, "audio") /\ HearChunk(k) /\ UNCHANGED conn

TakeBargeIn(k) == /\ Take(k, "barge_in") /\ RequestBargeIn /\ UNCHANGED conn

TakeDisconnect(k) == /\ Take(k, "disconnect") /\ Become(k, "leaving") /\ UNCHANGED allvars

TakeEnd(k) ==
    /\ Take(k, "end") /\ Become(k, "ending")
    /\ StartGet(k, "complete") /\ UNCHANGED pvars

\* A call of the connection's own goes on or, being in l, returns.
Inside(k) ==
    /\ conn[k] \in {"ending", "reading", "finishing"} /\ Step(k) /\ pc'[k] # "idle"
    /\ UNCHANGED <<pvars, socket>>

Back(k, l) == /\ conn[k] = l /\ Step(k) /\ pc'[k] = "idle"
              /\ UNCHANGED <<pvars, inbox, gone, messages, skipped>>

EndReturns(k) == Back(k, "ending") /\ Become(k, "leaving")

\* end raised: an ERROR event, and the loop goes on.
EndRaises(k) ==
    /\ conn[k] = "ending" /\ Fail(k) /\ Become(k, "open")
    /\ UNCHANGED <<pvars, inbox, gone, messages, skipped>>

\* The finally block: the flag goes, and the session is read ...
Leave(k) ==
    /\ conn[k] = "leaving" /\ Become(k, "reading")
    /\ flag' = FALSE
    /\ StartGet(k, "get")
    /\ UNCHANGED <<at, num, begun, heard, inbox, gone, messages, skipped>>

\* Mutant: the session is left to whoever has it next.
ReadForgets(k) == Back(k, "reading") /\ Become(k, "closed")

\* ... and, if it is active, ...
Read(k) ==
    /\ Back(k, "reading")
    /\ Become(k, IF Given(k).status = "active" THEN "finish" ELSE "closed")

\* ... completed.
Finish(k) ==
    /\ conn[k] = "finish" /\ Become(k, "finishing")
    /\ StartGet(k, "complete")
    /\ UNCHANGED <<pvars, inbox, gone, messages, skipped>>

Finished(k) == Back(k, "finishing") /\ Become(k, "closed")

\* One of the two raised, which is logged and forgotten.
CleanupFails(k) ==
    /\ conn[k] \in {"reading", "finishing"} /\ Fail(k) /\ Become(k, "closed")
    /\ skipped' = skipped \cup {k}
    /\ UNCHANGED <<pvars, inbox, gone, messages>>

Serve(k) == \/ TakeText(k) \/ TakeBlank(k) \/ TakeAudio(k) \/ TakeBargeIn(k) \/ TakeEnd(k)
            \/ TakeDisconnect(k) \/ Inside(k) \/ EndReturns(k)
            \/ Leave(k) \/ Read(k) \/ Finish(k) \/ Finished(k)
            \/ TurnStep(k) /\ UNCHANGED socket

SNext == \/ \E k \in Clients : \/ Serve(k) \/ EndRaises(k) \/ CleanupFails(k)
                               \/ at[k] # "idle" /\ Raise(k) /\ UNCHANGED socket
                               \/ \E m \in Messages : Send(k, m)
         \/ Expire /\ UNCHANGED socket

SSpec == SInit /\ [][SNext]_svars

\* The event loop runs a connection's coroutine whenever it can go on.
SFairSpec == SSpec /\ \A k \in Clients : WF_svars(Serve(k))

-----------------------------------------------------------------------------
(* Properties.                                                              *)

\* The one type invariant.
STypeOK ==
    /\ PTypeOK
    /\ inbox \in [Clients -> Seq(Messages)]
    /\ conn \in [Clients -> Conns]
    /\ gone \subseteq Clients /\ skipped \subseteq Clients
    /\ messages \in 0..MaxSent

\* While one connection alone talks, a session is handed to a human at most
\* once, and from then on its row waits for that human, and so does the copy
\* in Redis, whatever fails and however the client leaves.
HandedOnce ==
    /\ Cardinality(handed) <= 1
    /\ handed # {} => /\ row.status = "waiting_human"
                      /\ Exists(cache) => cache.status = "waiting_human"

\* While one connection alone talks, a turn that somebody interrupted before
\* its audio was ready is not spoken; a hand-off message is.
InterruptedIsSilent == asked \cap spoken \subseteq handed

\* While one connection alone talks, the caller hears nothing the database
\* does not hold: the words and the reply, or the words and the hand-off
\* message, are in the row for good, although saves fail half-way and Redis
\* loses its keys.
SpokenIsRecorded ==
    \A n \in spoken : /\ "user" \in RolesOf(row.turns, n)
                      /\ RolesOf(row.turns, n) \cap {"assistant", "handoff"} # {}

\* The agent answers nobody in a transcript of the length that forces a
\* hand-off: each reply that the row or Redis holds is, with all that came
\* before it, within that length, although words whose save failed half-way
\* stay in Redis, and lengthen it, without the policy having looked.
AnswersBounded ==
    \A s \in {row, cache} : \A l \in s.turns :
        l.role = "assistant" => Cardinality({k \in s.turns : k.turn <= l.turn}) <= MaxTurns

\* Every reply, and every hand-off message, is kept together with the words
\* it answers, in the row and in Redis, whatever has failed before.
RepliesFollow ==
    \A s \in {row, cache} : \A l \in s.turns : "user" \in RolesOf(s.turns, l.turn)

\* A client that disconnects, in the middle of whatever turn, leaves a closed
\* connection and a session that the next reader finds over: in the database,
\* or in the copy in Redis that an end has left before it failed; or the log
\* says that it could not be ended.
DisconnectSettles ==
    \A k \in Clients :
        k \in gone /\ conn[k] # "closed" ~>
            /\ conn[k] = "closed"
            /\ row.status \in Terminal \/ cache.status \in Terminal \/ k \in skipped
=============================================================================
