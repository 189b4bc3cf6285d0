---------------------------- MODULE DeepgramLive ----------------------------
(***************************************************************************)
(* One live transcription session (services/stt/deepgram_live.py).  The    *)
(* owner, who starts it, sends the audio and closes it, and the receiver   *)
(* of each connection reconnect independently of each other, on the same   *)
(* attributes.                                                             *)
(*                                                                         *)
(* A process is the owner, 0, or the receiver of a connection, named after *)
(* it.  Cancelling a task takes effect at the await it is suspended in.    *)
(* A receiver that reconnects cancels and awaits itself: the runtime       *)
(* refuses that await (a task cannot await itself) and throws the pending  *)
(* cancellation instead, which the code catches, so the receiver goes on;  *)
(* a cancellation that comes on top, in that one turn of the event loop,   *)
(* is absorbed ("swallow").                                                *)
(***************************************************************************)
EXTENDS Naturals, Sequences, FiniteSets

CONSTANTS
    MaxAttempts,    \* max_reconnect_attempts (3 in the code)
    MaxConns,       \* bound: connections that Deepgram accepts
    MaxHeard        \* bound: segments of speech that Deepgram finalizes

ASSUME LiveAssumption == MaxAttempts \in Nat /\ MaxConns \in Nat \ {0} /\ MaxHeard \in Nat

VARIABLES
    ws, task,       \* _ws and _receiver_task, by the connection's name; 0 is None
    closed,         \* _closed
    attempts,       \* _reconnect_attempts
    parts,          \* _utterance.parts, each segment a number
    pc,             \* where each process is
    conn,           \* each connection
    aim,            \* the connection send_audio is sending on; 0 when it is not
    heard,          \* ghost: how many segments were finalized
    told            \* ghost: the segments handed to on_transcript as a turn

vars == <<ws, task, closed, attempts, parts, pc, conn, aim, heard, told>>

Conns == 1..MaxConns
Procs == 0..MaxConns
speech == <<parts, heard, told>>

Unused == {c \in Conns : conn[c] = "none"}

Init ==
    /\ ws = 0 /\ task = 0 /\ closed = FALSE /\ attempts = 0 /\ parts = <<>>
    /\ pc = [p \in Procs |-> IF p = 0 THEN "connect" ELSE "none"]
    /\ conn = [c \in Conns |-> "none"]
    /\ aim = 0 /\ heard = 0 /\ told = <<>>

\* Where a process goes after it reconnected, or failed to.
Return(p) == IF p = 0 THEN "idle" ELSE "done"

\* What task.cancel() leaves of the receiver t.
Cancelled(f, t) ==
    IF t # 0 /\ f[t] # "swallow" THEN [f EXCEPT ![t] = "done"] ELSE f

-----------------------------------------------------------------------------
(* Reconnection.                                                            *)

\* _connect: a new connection and its receiver, or an error.
Connected(p) ==
    /\ pc[p] = "connect"
    /\ \E c \in Unused :
        /\ \A d \in Unused : c <= d
        /\ ws' = c /\ task' = c
        /\ conn' = [conn EXCEPT ![c] = "open"]
        /\ pc' = [pc EXCEPT ![p] = Return(p), ![c] = "listen"]
    /\ attempts' = 0
    /\ UNCHANGED <<closed, aim, speech>>

ConnectFails(p) ==
    /\ pc[p] = "connect"
    /\ pc' = [pc EXCEPT ![p] = Return(p)]
    /\ UNCHANGED <<ws, task, closed, attempts, conn, aim, speech>>

\* Mutant: the attempt is counted when it has been allowed one time too many.
TryReconnectLate(p) ==
    /\ IF closed \/ attempts > MaxAttempts
       THEN pc' = [pc EXCEPT ![p] = Return(p)] /\ UNCHANGED attempts
       ELSE pc' = [pc EXCEPT ![p] = "sleep"] /\ attempts' = attempts + 1
    /\ UNCHANGED <<ws, task, closed, conn, speech>>

\* _try_reconnect, up to its sleep.
TryReconnect(p) ==
    /\ IF closed \/ attempts >= MaxAttempts
       THEN pc' = [pc EXCEPT ![p] = Return(p)] /\ UNCHANGED attempts
       ELSE pc' = [pc EXCEPT ![p] = "sleep"] /\ attempts' = attempts + 1
    /\ UNCHANGED <<ws, task, closed, conn, speech>>

\* Mutant: the receiver is left as it is.
WakeKeeps(p) ==
    /\ pc[p] = "sleep" /\ \A q \in Procs : pc[q] # "swallow"
    /\ pc' = [pc EXCEPT ![p] = "drop"]
    /\ UNCHANGED <<ws, task, closed, attempts, conn, aim, speech>>

\* After the sleep the receiver task is cancelled, p itself perhaps.  No two
\* sleeps end in the same turn of the event loop (assumed, see README.md):
\* nobody wakes up while a receiver swallows.
Wake(p) ==
    /\ pc[p] = "sleep" /\ \A q \in Procs : pc[q] # "swallow"
    /\ pc' = IF p # 0 /\ task = p THEN [pc EXCEPT ![p] = "swallow"]
              ELSE [Cancelled(pc, task) EXCEPT ![p] = "drop"]
    /\ UNCHANGED <<ws, task, closed, attempts, conn, aim, speech>>

Swallow(p) ==
    /\ pc[p] = "swallow"
    /\ pc' = [pc EXCEPT ![p] = "drop"]
    /\ UNCHANGED <<ws, task, closed, attempts, conn, aim, speech>>

\* The old connection is closed, whatever became of it.
Shut(c) == conn' = IF c # 0 /\ conn[c] = "open" THEN [conn EXCEPT ![c] = "closed"] ELSE conn

\* Mutant: the old connection is taken for dead.
DropOldNot(p) ==
    /\ pc[p] = "drop"
    /\ pc' = [pc EXCEPT ![p] = "connect"]
    /\ UNCHANGED <<ws, task, closed, attempts, conn, aim, speech>>

DropOld(p) ==
    /\ pc[p] = "drop"
    /\ Shut(ws)
    /\ pc' = [pc EXCEPT ![p] = "connect"]
    /\ UNCHANGED <<ws, task, closed, attempts, aim, speech>>

Reconnect(p) == Connected(p) \/ ConnectFails(p) \/ Wake(p) \/ Swallow(p) \/ DropOld(p)

-----------------------------------------------------------------------------
(* The receiver: _receive_loop and _parse_message.                          *)

\* A message that was sent before its connection ended may still be read.
Reading(r) == pc[r] = "listen"

\* Once closed the loop is left at the next message.
Break(r) ==
    /\ Reading(r) /\ closed
    /\ pc' = [pc EXCEPT ![r] = "done"]
    /\ UNCHANGED <<ws, task, closed, attempts, conn, aim, speech>>

\* on_transcript is called when there is something to tell.
Tell(r, something) == pc' = IF something THEN [pc EXCEPT ![r] = "handle"] ELSE pc

\* Mutant: the loop does not look at _closed.
InterimBlind(r) ==
    /\ Reading(r)
    /\ \E text \in BOOLEAN : Tell(r, text \/ parts # <<>>)
    /\ UNCHANGED <<ws, task, closed, attempts, conn, aim, speech>>

\* An interim result, with or without text.
Interim(r) ==
    /\ Reading(r) /\ ~closed
    /\ \E text \in BOOLEAN : Tell(r, text \/ parts # <<>>)
    /\ UNCHANGED <<ws, task, closed, attempts, conn, aim, speech>>

\* The segment a message brings: none, or the next one.
Segments == {<<>>} \cup (IF heard < MaxHeard THEN {<<heard + 1>>} ELSE {})

\* A finalized segment: _UtteranceBuffer.add_final_segment.
Segment(r) ==
    /\ Reading(r) /\ ~closed
    /\ \E s \in Segments :
        /\ heard' = heard + Len(s)
        /\ parts' = parts \o s
        /\ Tell(r, parts \o s # <<>>)
    /\ UNCHANGED <<ws, task, closed, attempts, conn, aim, told>>

\* Mutant: the buffer is left as it was.
SpeechFinalKeeps(r) ==
    /\ Reading(r) /\ ~closed
    /\ \E s \in Segments :
        /\ heard' = heard + Len(s)
        /\ told' = told \o parts \o s
        /\ parts' = parts
        /\ Tell(r, parts \o s # <<>>)
    /\ UNCHANGED <<ws, task, closed, attempts, conn, aim>>

\* speech_final, with or without text, or UtteranceEnd, which has none:
\* _UtteranceBuffer.flush, and a turn if anything was said.
SpeechFinal(r) ==
    /\ Reading(r) /\ ~closed
    /\ \E s \in Segments :
        /\ heard' = heard + Len(s)
        /\ told' = told \o parts \o s
        /\ parts' = <<>>
        /\ Tell(r, parts \o s # <<>>)
    /\ UNCHANGED <<ws, task, closed, attempts, conn, aim>>

\* on_transcript returns, or raises, which ends the receiver for good.
Handled(r) ==
    /\ pc[r] = "handle"
    /\ \E l \in {"listen", "done"} : pc' = [pc EXCEPT ![r] = l]
    /\ UNCHANGED <<ws, task, closed, attempts, conn, aim, speech>>

\* The connection was lost: the receiver reconnects.  It was closed in good
\* order: the loop just ends.
Lost(r) == Reading(r) /\ conn[r] = "lost" /\ TryReconnect(r) /\ UNCHANGED aim

Exhausted(r) ==
    /\ Reading(r) /\ conn[r] = "closed"
    /\ pc' = [pc EXCEPT ![r] = "done"]
    /\ UNCHANGED <<ws, task, closed, attempts, conn, aim, speech>>

\* What a message does, and what r does by itself.
Receive(r) == Break(r) \/ Interim(r) \/ Segment(r) \/ SpeechFinal(r)

Receiver(r) == Reconnect(r) \/ Handled(r) \/ Lost(r) \/ Exhausted(r)

-----------------------------------------------------------------------------
(* The owner.                                                               *)

\* send_audio, on the connection there is when it begins.
Send ==
    /\ pc[0] = "idle" /\ ws # 0 /\ ~closed
    /\ aim' = ws
    /\ pc' = [pc EXCEPT ![0] = "send"]
    /\ UNCHANGED <<ws, task, closed, attempts, conn, speech>>

SendOk ==
    /\ pc[0] = "send" /\ conn[aim] = "open"
    /\ aim' = 0
    /\ pc' = [pc EXCEPT ![0] = "idle"]
    /\ UNCHANGED <<ws, task, closed, attempts, conn, speech>>

\* Mutant: only a lost connection is noticed.
SendFailsIfLost ==
    /\ pc[0] = "send" /\ conn[aim] # "open"
    /\ aim' = 0
    /\ IF conn[aim] = "lost" THEN TryReconnect(0)
       ELSE /\ pc' = [pc EXCEPT ![0] = "idle"]
            /\ UNCHANGED <<ws, task, closed, attempts, conn, speech>>

\* The connection has ended, even if another has replaced it meanwhile.
SendFails ==
    /\ pc[0] = "send" /\ conn[aim] # "open"
    /\ aim' = 0
    /\ TryReconnect(0)

\* close: its receiver is cancelled and awaited, ...
Close ==
    /\ pc[0] = "idle"
    /\ closed' = TRUE
    /\ pc' = [Cancelled(pc, task) EXCEPT ![0] = "join"]
    /\ UNCHANGED <<ws, task, attempts, conn, aim, speech>>

\* Mutant: close does not wait for its receiver to end.
JoinNot ==
    /\ pc[0] = "join"
    /\ task' = 0 /\ ws' = 0 /\ Shut(ws)
    /\ pc' = [pc EXCEPT ![0] = "over"]
    /\ UNCHANGED <<closed, attempts, aim, speech>>

\* ... then the connection is closed, a newer one if the receiver, spared,
\* has made one while it was awaited.
Join ==
    /\ pc[0] = "join"
    /\ task # 0 => pc[task] \notin {"swallow", "drop", "connect"}
    /\ task' = 0 /\ ws' = 0 /\ Shut(ws)
    /\ pc' = [pc EXCEPT ![0] = "over"]
    /\ UNCHANGED <<closed, attempts, aim, speech>>

-----------------------------------------------------------------------------
(* Deepgram and the network.                                                *)

Drop(c) ==
    /\ conn[c] = "open"
    /\ \E how \in {"lost", "closed"} : conn' = [conn EXCEPT ![c] = how]
    /\ UNCHANGED <<ws, task, closed, attempts, pc, aim, speech>>

Owner == Reconnect(0) \/ SendOk \/ SendFails \/ Join

Next == \/ Owner \/ Send \/ Close
        \/ \E c \in Conns : Receive(c) \/ Receiver(c) \/ Drop(c)

Spec == Init /\ [][Next]_vars

\* The event loop runs whoever can go on, on_transcript comes back, and audio
\* arrives as long as the call lasts, one frame every 20 ms.
FairSpec ==
    /\ Spec
    /\ WF_vars(Owner) /\ WF_vars(Send)
    /\ \A c \in Conns : WF_vars(Receiver(c))

-----------------------------------------------------------------------------
(* Properties.                                                              *)

\* The one type invariant.
TypeOK ==
    /\ ws \in Procs /\ task \in Procs /\ aim \in Procs /\ closed \in BOOLEAN /\ attempts \in 0..MaxAttempts
    /\ heard \in Nat /\ parts \in Seq(Nat) /\ told \in Seq(Nat)
    /\ pc \in [Procs -> {"none", "connect", "idle", "send", "sleep", "swallow", "drop", "listen",
                         "handle", "done", "join", "over"}]
    /\ conn \in [Conns -> {"none", "open", "lost", "closed"}]

Up == \E c \in Conns : ws = c /\ conn[c] = "open"

Alive(r) == pc[r] \notin {"none", "done"}

\* However the owner's reconnection and a receiver's own overlap, no two
\* receivers are at work: nobody else parses into the utterance buffer or
\* runs a turn.
OneReceiver == \A r, s \in Conns : Alive(r) /\ Alive(s) => r = s

\* No connection is left open that nobody owns; none at all once close returned.
NoOrphan == \A c \in Conns : conn[c] = "open" => c = ws /\ pc[0] # "over"

\* Every finalized segment is told once and in order, or waits in the
\* buffer, across any number of reconnections and cancelled turns.
SegmentsOnce == told \o parts = [i \in 1..heard |-> i]

\* Once close is called no transcript is handed over any more, not by a
\* receiver that survived its cancellation either.
QuietAfterClose ==
    [][closed => \A r \in Conns : pc'[r] = "handle" => pc[r] = "handle"]_vars

\* The session as its owner sees it: one link, one listener and one stream of
\* segments, which is what LiveLink describes.
Linked == \E c \in Conns : conn[c] = "open"

Listener == IF \E r \in Conns : pc[r] = "handle" THEN "tells"
            ELSE IF \E r \in Conns : Alive(r) THEN "reads" ELSE "none"

Phase == IF pc[0] = "over" THEN "over" ELSE IF closed THEN "closing" ELSE "open"

Link == INSTANCE LiveLink WITH up <- Linked, listener <- Listener, phase <- Phase

\* However owner and receivers reconnect over each other, the whole is such a
\* session.
ImplementsLink == Link!Spec

\* close comes to its end, and leaves no receiver behind.
CloseSettles == closed ~> pc[0] = "over" /\ \A r \in Conns : ~Alive(r)

\* A connection that ended, in whatever way, is replaced, or the attempts are
\* used up, or the session is closed.
Recovers == ws # 0 /\ ~Up ~> Up \/ closed \/ attempts = MaxAttempts
=============================================================================
