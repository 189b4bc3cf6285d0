----------------------------- MODULE MediaBridge -----------------------------
(***************************************************************************)
(* One phone call on the Twilio media stream (services/telephony/          *)
(* media_bridge.py, handle).  Three coroutines share the locals of handle: *)
(*   main   the loop that reads Twilio's messages, and the cleanup         *)
(*   "rx"   the Deepgram receiver, which awaits on_transcript, and so the  *)
(*          whole turn and its playback, before it reads the next result   *)
(*   "wd"   the silence watchdog                                           *)
(* rx and wd both play audio: play_gen says whose frames are still wanted. *)
(*                                                                         *)
(* The turn is cut at its three uses of the session (add_turn, and end for *)
(* a hand-off) and at each request of the warm transfer (WarmTransfer);    *)
(* ConversationPipeline has the rest of it.  Of the session there is the   *)
(* status, in Redis and in the database, each read and each write a step:  *)
(* rx, wd and main overwrite one another as SessionManager lets them.  Its *)
(* calls do not raise here, but they are cancelled; SessionStore cuts them *)
(* further and lets them fail.  Deepgram's socket is up or down            *)
(* (DeepgramLive has its reconnection).  The turn lock is not modelled:    *)
(* only rx takes it.  media_format, metadata and the marks have no effect. *)
(* barge_in_enabled and a positive silence timeout are taken as set, which *)
(* they are by default.                                                    *)
(***************************************************************************)
EXTENDS WarmTransfer, Sequences, FiniteSets

CONSTANTS
    Texts,          \* what a caller may say
    MaxNudges,      \* max_nudges (3 in the code)
    MaxFrames,      \* bound: frames in one utterance
    MaxSaid,        \* bound: results Deepgram delivers
    MaxDrops,       \* bound: times Deepgram's socket drops
    MaxStarts       \* bound: start events from Twilio

ASSUME BridgeAssumption ==
    /\ MaxNudges \in Nat \ {0} /\ MaxFrames \in Nat \ {0}
    /\ MaxSaid \in Nat /\ MaxDrops \in Nat /\ MaxStarts \in Nat

VARIABLES
    closed, speaking,   \* the locals of handle
    gen,                \* play_gen
    streaming,          \* is stream_sid known?
    recent,             \* recent_finals, those not yet 1.5 s old
    quiet,              \* has it been silence_timeout_seconds since last_speech_at?
    nudges,
    main, pc,           \* where each coroutine is
    playGen, left,      \* per player: its generation, the frames it has left,
                        \* both 0 while it does not play
    cache, row,         \* the session's status: the key's, or "none", the row's,
    snap,               \* and the one of the copy that handle read when it began
    line, held,         \* the turn rx is adding to the transcript, and its copy's
                        \* status
    words,              \* Deepgram's results that rx has not read yet
    up,                 \* is Deepgram's socket connected?
    said, drops, starts,
    frame,              \* ghost: the latest generation a frame was sent of
    cleared,            \* ghost: generations up to this one were cleared
    torn                \* ghost: was an end cancelled after its first write?

locals == <<closed, streaming, recent, quiet, nudges>>
playback == <<speaking, gen, playGen, left, frame, cleared>>
session == <<cache, row, snap, line, held, torn>>
world == <<words, up, said, drops, starts, transfer>>
vars == <<locals, playback, pc, main, session, world>>

Players == {"rx", "wd"}
CallStatuses == {"active", "waiting_human", "completed"}
LinesAdded == {"words", "reply", "message"}

\* The caller may be back on a session that already waits for a human (to
\* handle, a completed one is no different).

Init ==
    /\ closed = FALSE /\ speaking = FALSE /\ gen = 0 /\ streaming = FALSE
    /\ recent = {} /\ quiet = FALSE /\ nudges = 0
    /\ main = "receive" /\ pc = [p \in Players |-> IF p = "rx" THEN "none" ELSE "sleep"]
    /\ playGen = [p \in Players |-> 0] /\ left = [p \in Players |-> 0]
    /\ row \in {"active", "waiting_human"} /\ cache = row /\ snap = row
    /\ line = "words" /\ held = "active" /\ torn = FALSE
    /\ words = <<>> /\ up = FALSE /\ TransferInit
    /\ said = 0 /\ drops = 0 /\ starts = 0
    /\ frame = 0 /\ cleared = 0

Goto(p, l) == pc' = [pc EXCEPT ![p] = l]

-----------------------------------------------------------------------------
(* The session manager.                                                     *)

\* What get answers; a miss fills the cache.
Answer == IF cache = "none" THEN row ELSE cache
Get == cache' = Answer /\ UNCHANGED <<row, snap, torn>>

\* rx hands the caller over, the others complete the session.
Target(p) == IF p = "rx" THEN "waiting_human" ELSE "completed"

\* Who has ended the session goes on: rx to the transfer, if there is one and
\* the call has a CallSid, or to synthesis; the watchdog is done.
AfterEnd(p) == IF p = "rx" THEN {"tts", "store"} ELSE {"stopped"}

\* end: a session that is not active any more is left as it is, and nobody
\* asks.  (wd reads it twice in a row, which comes to the same.)
End(p) ==
    /\ pc[p] = "end" /\ Get
    /\ IF Answer = "active" THEN Goto(p, "save") ELSE \E l \in AfterEnd(p) : Goto(p, l)
    /\ UNCHANGED <<locals, playback, main, line, held, world>>

\* Otherwise the copy goes to the cache, then to the database, and then the
\* key is deleted.
Save(p) ==
    /\ pc[p] = "save" /\ cache' = Target(p) /\ Goto(p, "commit")
    /\ UNCHANGED <<locals, playback, main, row, snap, line, held, torn, world>>

Commit(p) ==
    /\ pc[p] = "commit" /\ row' = Target(p) /\ Goto(p, "delete")
    /\ UNCHANGED <<locals, playback, main, cache, snap, line, held, torn, world>>

Delete(p) ==
    /\ pc[p] = "delete" /\ cache' = "none" /\ \E l \in AfterEnd(p) : Goto(p, l)
    /\ UNCHANGED <<locals, playback, main, row, snap, line, held, torn, world>>

-----------------------------------------------------------------------------
(* Playback.                                                                *)

\* cancel_playback: no frame of the running generation is wanted any more,
\* and Twilio drops those it has buffered.
CancelPlayback ==
    /\ gen' = gen + 1 /\ speaking' = FALSE
    /\ cleared' = IF streaming THEN gen ELSE cleared
    /\ UNCHANGED <<playGen, left, frame>>

\* A player takes over and sends from its first frame.
Play(p) ==
    /\ gen' = gen + 1 /\ speaking' = TRUE
    /\ Goto(p, "play")
    /\ playGen' = [playGen EXCEPT ![p] = gen + 1]
    /\ left' = [left EXCEPT ![p] = MaxFrames]
    /\ UNCHANGED <<frame, cleared>>

\* Mutant: frames are sent whoever took over.
PlayFrameOn(p) ==
    /\ pc[p] = "play" /\ left[p] > 0 /\ ~closed
    /\ frame' = playGen[p]
    /\ left' = [left EXCEPT ![p] = @ - 1]
    /\ UNCHANGED <<locals, speaking, gen, playGen, cleared, pc, main, session, world>>

\* send_mulaw, one frame every 20 ms.
PlayFrame(p) ==
    /\ pc[p] = "play" /\ left[p] > 0 /\ ~closed /\ playGen[p] = gen
    /\ frame' = playGen[p]
    /\ left' = [left EXCEPT ![p] = @ - 1]
    /\ UNCHANGED <<locals, speaking, gen, playGen, cleared, pc, main, session, world>>

\* Mutant: whoever stops resets the flag.
StopPlayingAlways(p) ==
    /\ speaking' = IF pc[p] = "play" THEN FALSE ELSE speaking
    /\ playGen' = [playGen EXCEPT ![p] = 0] /\ left' = [left EXCEPT ![p] = 0]
    /\ UNCHANGED <<frame, cleared>>

\* The finally block of send_mulaw, when p stops for any reason, playing or not.
StopPlaying(p) ==
    /\ speaking' = IF pc[p] = "play" /\ playGen[p] = gen THEN FALSE ELSE speaking
    /\ playGen' = [playGen EXCEPT ![p] = 0] /\ left' = [left EXCEPT ![p] = 0]
    /\ UNCHANGED <<frame, cleared>>

\* The frames are all sent, or no longer wanted, or nobody takes them.
PlayEnd(p, l) ==
    /\ pc[p] = "play" /\ (left[p] = 0 \/ closed \/ call # "stream" \/ playGen[p] # gen)
    /\ StopPlaying(p) /\ Goto(p, l)
    /\ UNCHANGED <<closed, streaming, recent, nudges, gen, main, session, world>>

-----------------------------------------------------------------------------
(* The receiver.                                                            *)

Read == /\ pc["rx"] = "listen" /\ words # <<>>
        /\ words' = Tail(words)
        /\ UNCHANGED <<main, session, up, said, drops, starts, transfer>>

\* Nothing is done with a result that comes after the close, with a partial
\* one while nobody plays, or with the words just heard.
RxIgnore ==
    /\ Read
    /\ \/ closed
       \/ Head(words) = "partial" /\ ~(speaking /\ streaming)
       \/ Head(words) \in recent
    /\ UNCHANGED <<locals, playback, pc>>

\* A partial result interrupts playback.
RxBargeIn ==
    /\ Read /\ ~closed /\ Head(words) = "partial" /\ speaking /\ streaming
    /\ CancelPlayback
    /\ UNCHANGED <<locals, pc>>

RxFinal ==
    /\ Read /\ ~closed /\ Head(words) \in Texts \ recent
    /\ recent' = recent \cup {Head(words)}
    /\ quiet' = FALSE
    /\ Goto("rx", "get")
    /\ UNCHANGED <<closed, streaming, nudges, playback>>

\* Under the lock: the turn is for an active session, and silences whoever
\* plays, also when the call has been closed meanwhile.
RxGet ==
    /\ pc["rx"] = "get" /\ Get
    /\ IF Answer # "active"
       THEN Goto("rx", "listen") /\ UNCHANGED playback
       ELSE /\ Goto("rx", "turn")
            /\ IF speaking /\ streaming THEN CancelPlayback ELSE UNCHANGED playback
    /\ UNCHANGED <<locals, main, line, held, world>>

\* rx has nothing more to add to the transcript.
EndTurn(l) == Goto("rx", l) /\ line' = "words" /\ held' = "active"

\* add_turn: the copy it appends to, or its SessionError.
RxAdd ==
    /\ pc["rx"] = "turn" /\ Get
    /\ IF Answer \in (IF line = "message" THEN {"active", "waiting_human"} ELSE {"active"})
       THEN Goto("rx", "keep") /\ held' = Answer /\ UNCHANGED line
       ELSE EndTurn("listen")
    /\ UNCHANGED <<locals, playback, main, world>>

\* It is saved whole, status included.
RxKeep ==
    /\ pc["rx"] = "keep" /\ cache' = held /\ Goto("rx", "kept")
    /\ UNCHANGED <<locals, playback, main, row, snap, line, held, torn, world>>

\* The words are answered or handed over, the latter now or when the agent
\* has answered; the reply is synthesized; after the message the session is
\* ended.
RxKept ==
    /\ pc["rx"] = "kept" /\ row' = held
    /\ \/ /\ line = "words" /\ line' \in {"reply", "message"}
          /\ Goto("rx", "turn") /\ UNCHANGED held
       \/ line = "reply" /\ EndTurn("tts")
       \/ line = "message" /\ EndTurn("end")
    /\ UNCHANGED <<locals, playback, main, cache, snap, torn, world>>

\* WarmTransferService.start, one await after the other; an exception out of
\* Twilio's API only fails the transfer, one out of Redis the turn (RxRaise).
\* The session is read once more before, for its CallSid only.
RxStore ==
    /\ pc["rx"] = "store" /\ Get /\ StoreContext /\ Goto("rx", "redirect")
    /\ UNCHANGED <<locals, playback, main, line, held, words, up, said, drops, starts>>

\* The caller is taken off the stream before the answer is back.
RxRedirect ==
    /\ pc["rx"] = "redirect" /\ Park /\ Goto("rx", "redirected")
    /\ UNCHANGED <<locals, playback, main, session, words, up, said, drops, starts>>

RxRedirected ==
    /\ pc["rx"] = "redirected" /\ Goto("rx", "dial")
    /\ UNCHANGED <<locals, playback, main, session, world>>

RxDial ==
    /\ pc["rx"] = "dial" /\ Ring /\ Goto("rx", "tts")
    /\ UNCHANGED <<locals, playback, main, session, words, up, said, drops, starts>>

\* The request is refused, as it is for a call that is over, or lost.
RxTransferFails ==
    /\ \/ pc["rx"] = "redirect" /\ call # "stream"
       \/ pc["rx"] \in {"redirect", "redirected", "dial"} /\ TwilioFails
    /\ Goto("rx", "tts")
    /\ UNCHANGED <<locals, playback, main, session, world>>

\* The agent, synthesis or Redis raises: the turn ends there.
RxRaise ==
    /\ pc["rx"] \in {"turn", "store", "tts"} /\ EndTurn("listen")
    /\ UNCHANGED <<locals, playback, main, cache, row, snap, torn, world>>

\* play_events.
RxPlay ==
    /\ pc["rx"] = "tts"
    /\ IF closed \/ ~streaming
       THEN Goto("rx", "listen") /\ UNCHANGED playback
       ELSE Play("rx")
    /\ UNCHANGED <<locals, main, session, world>>

RxPlayEnd == PlayEnd("rx", "listen") /\ UNCHANGED quiet

\* The socket is down and rx notices, which it only does while it reads.
\* It reconnects, or gives up.
RxReconnect ==
    /\ pc["rx"] = "listen" /\ ~up /\ words = <<>>
    /\ \/ up' = TRUE /\ UNCHANGED pc
       \/ up' = FALSE /\ Goto("rx", "stopped")
    /\ UNCHANGED <<locals, playback, main, session, words, said, drops, starts, transfer>>

\* rx is cancelled wherever it is; its turn, if any, ends there.
CancelRx(l) ==
    /\ StopPlaying("rx") /\ EndTurn(l)
    /\ torn' = (torn \/ pc["rx"] \in {"commit", "delete"})
    /\ UNCHANGED <<cache, row, snap>>

-----------------------------------------------------------------------------
(* The watchdog.                                                            *)

\* After 5 s of sleep: nothing to do while somebody plays or the last words
\* are recent; otherwise one more nudge.
WdNudge ==
    /\ pc["wd"] = "sleep" /\ ~closed /\ ~speaking /\ quiet
    /\ nudges' = nudges + 1
    /\ Goto("wd", "tts")
    /\ UNCHANGED <<closed, streaming, recent, quiet, playback, main, session, world>>

\* speak: synthesis, then playback; without a stream, or when synthesis
\* fails, nothing is played.
WdPlay ==
    /\ pc["wd"] = "tts" /\ streaming /\ ~closed
    /\ Play("wd")
    /\ UNCHANGED <<locals, main, session, world>>

\* Mutants: one nudge too many; leaving the loop before the session is ended.
AfterNudgeLate == IF nudges > MaxNudges THEN "end" ELSE "sleep"
AfterNudgeBreaks == IF nudges >= MaxNudges THEN "stopped" ELSE "sleep"

AfterNudge == IF nudges >= MaxNudges THEN "end" ELSE "sleep"

WdMute ==
    /\ pc["wd"] = "tts"
    /\ Goto("wd", AfterNudge) /\ quiet' = FALSE
    /\ UNCHANGED <<closed, streaming, recent, nudges, playback, main, session, world>>

WdPlayEnd == PlayEnd("wd", AfterNudge) /\ quiet' = FALSE

-----------------------------------------------------------------------------
(* The main loop.                                                           *)

\* A start event: the stream is known, and the copy of the session that was
\* read when the call connected is saved, to the cache ...
MainStart ==
    /\ main = "receive" /\ call = "stream" /\ starts < MaxStarts
    /\ starts' = starts + 1
    /\ streaming' = TRUE
    /\ cache' = snap
    /\ main' = "persist"
    /\ UNCHANGED <<closed, recent, quiet, nudges, playback, pc, row, snap, line, held, torn,
                   words, up, said, drops, transfer>>

\* ... and to the database.
MainPersist ==
    /\ main = "persist" /\ row' = snap /\ main' = "connect"
    /\ UNCHANGED <<locals, playback, pc, cache, snap, line, held, torn, world>>

\* An earlier Deepgram session is closed, which cancels its receiver, and a
\* new one is opened, or fails to: then the call is over.
MainConnect ==
    /\ main = "connect"
    /\ \/ main' = "receive" /\ up' = TRUE /\ CancelRx("listen") /\ quiet' = FALSE
       \/ main' = "leave" /\ up' = FALSE /\ CancelRx("stopped") /\ UNCHANGED quiet
    /\ words' = <<>>
    /\ UNCHANGED <<closed, streaming, recent, nudges, gen, said, drops, starts, transfer>>

\* A media frame that Deepgram's socket no longer takes: main itself sets
\* out to reconnect, which takes seconds.
MainSendFails ==
    /\ main = "receive" /\ call = "stream" /\ ~up /\ pc["rx"] # "none"
    /\ main' = "reconnect"
    /\ UNCHANGED <<locals, playback, pc, session, world>>

\* Then it cancels the receiver and the turn it is in, even if the receiver
\* has reconnected meanwhile; unless the attempts are used up.
MainReconnect ==
    /\ main = "reconnect" /\ main' = "receive"
    /\ \/ up' = TRUE /\ CancelRx("listen") /\ words' = <<>>
       \/ up' = FALSE /\ CancelRx("stopped") /\ words' = <<>>
       \/ UNCHANGED <<up, pc, speaking, playGen, left, frame, cleared, words, session>>
    /\ UNCHANGED <<locals, gen, said, drops, starts, transfer>>

\* stop, or the disconnect, because the caller has hung up or because he has
\* been redirected; or an exception.
MainStop == /\ main = "receive" /\ call # "stream" /\ main' = "leave"
            /\ UNCHANGED <<locals, playback, pc, session, world>>

\* finally: playback is over and the watchdog cancelled.
MainClose ==
    /\ main = "leave"
    /\ closed' = TRUE /\ gen' = gen + 1
    /\ Goto("wd", "stopped")
    /\ playGen' = [playGen EXCEPT !["wd"] = 0] /\ left' = [left EXCEPT !["wd"] = 0]
    /\ torn' = (torn \/ pc["wd"] \in {"commit", "delete"})
    /\ main' = "unlisten"
    /\ UNCHANGED <<streaming, recent, quiet, nudges, speaking, frame, cleared,
                   cache, row, snap, line, held, world>>

\* Mutant: the cleanup fails when Twilio never sent a start.
MainUnlistenBlind ==
    /\ main = "unlisten" /\ pc["rx"] # "none"
    /\ CancelRx("stopped")
    /\ main' = "end"
    /\ UNCHANGED <<locals, gen, world>>

\* deepgram.finalize and close: the receiver is cancelled.
MainUnlisten ==
    /\ main = "unlisten"
    /\ CancelRx(IF pc["rx"] = "none" THEN "none" ELSE "stopped")
    /\ main' = "end"
    /\ UNCHANGED <<locals, gen, world>>

\* Mutant: the session is left as it is.
MainEndSkips ==
    /\ main = "end" /\ main' = "done"
    /\ UNCHANGED <<locals, playback, pc, session, world>>

\* Mutant: the session is ended whatever has become of it.
MainEndOverrides ==
    /\ main = "end" /\ main' = "done"
    /\ row' = "completed" /\ cache' = "none"
    /\ UNCHANGED <<locals, playback, pc, snap, line, held, torn, world>>

\* A session still active is ended; nobody is left to look at the steps.
MainEnd ==
    /\ main = "end" /\ main' = "done"
    /\ IF Answer = "active" THEN row' = "completed" /\ cache' = "none"
                            ELSE cache' = Answer /\ UNCHANGED row
    /\ UNCHANGED <<locals, playback, pc, snap, line, held, torn, world>>

-----------------------------------------------------------------------------
(* The world.                                                               *)

\* The caller is heard.
Hear(w) ==
    /\ pc["rx"] \notin {"none", "stopped"} /\ up /\ call = "stream" /\ said < MaxSaid
    /\ words' = Append(words, w) /\ said' = said + 1
    /\ UNCHANGED <<locals, playback, pc, main, session, up, drops, starts, transfer>>

HangUp == /\ HangUpCall
          /\ UNCHANGED <<locals, playback, pc, main, session, words, up, said, drops, starts>>

\* The agent's phone.
Agent == /\ AgentAnswers \/ AgentLeaves
         /\ UNCHANGED <<locals, playback, pc, main, session, words, up, said, drops, starts>>

Drop == /\ up /\ drops < MaxDrops
        /\ up' = FALSE /\ drops' = drops + 1
        /\ UNCHANGED <<locals, playback, pc, main, session, words, said, starts, transfer>>

\* Time passes, the silence timeout or the 1.5 s after which words are
\* forgotten, while somebody can tell.
FallSilent == /\ ~quiet /\ pc["wd"] = "sleep" /\ quiet' = TRUE
              /\ UNCHANGED <<closed, streaming, recent, nudges, playback, pc, main, session, world>>

Forget == /\ pc["rx"] = "listen" /\ \E t \in recent : recent' = recent \ {t}
          /\ UNCHANGED <<closed, streaming, quiet, nudges, playback, pc, main, session, world>>

Rx == \/ RxIgnore \/ RxBargeIn \/ RxFinal \/ RxGet \/ RxAdd \/ RxKeep \/ RxKept \/ RxRaise
      \/ End("rx") \/ Save("rx") \/ Commit("rx") \/ Delete("rx")
      \/ RxStore \/ RxRedirect \/ RxRedirected \/ RxDial \/ RxTransferFails
      \/ RxPlay \/ PlayFrame("rx") \/ RxPlayEnd \/ RxReconnect

Wd == \/ WdNudge \/ WdPlay \/ WdMute \/ PlayFrame("wd") \/ WdPlayEnd
      \/ End("wd") \/ Save("wd") \/ Commit("wd") \/ Delete("wd")

Main == \/ MainPersist \/ MainConnect \/ MainSendFails \/ MainReconnect \/ MainStop
        \/ MainClose \/ MainUnlisten \/ MainEnd

Next == \/ Rx \/ Wd \/ Main \/ MainStart
        \/ \E w \in Texts \cup {"partial"} : Hear(w)
        \/ HangUp \/ Agent \/ Drop \/ FallSilent \/ Forget

Spec == Init /\ [][Next]_vars

\* The event loop runs every coroutine that can go on, and time passes.
FairSpec == Spec /\ WF_vars(Rx) /\ WF_vars(Wd) /\ WF_vars(Main) /\ WF_vars(FallSilent)

-----------------------------------------------------------------------------
(* Properties.                                                              *)

\* The one type invariant.
TypeOK ==
    /\ closed \in BOOLEAN /\ speaking \in BOOLEAN /\ gen \in Nat /\ streaming \in BOOLEAN
    /\ recent \subseteq Texts /\ quiet \in BOOLEAN /\ nudges \in 0..MaxNudges
    /\ main \in {"receive", "persist", "connect", "reconnect", "leave", "unlisten", "end", "done"}
    /\ pc["rx"] \in {"none", "listen", "get", "turn", "keep", "kept", "end", "save", "commit",
                    "delete", "store", "redirect", "redirected", "dial", "tts", "play", "stopped"}
    /\ pc["wd"] \in {"sleep", "tts", "play", "end", "save", "commit", "delete", "stopped"}
    /\ playGen \in [Players -> Nat] /\ left \in [Players -> 0..MaxFrames]
    /\ cache \in CallStatuses \cup {"none"} /\ row \in CallStatuses /\ snap \in CallStatuses
    /\ line \in LinesAdded /\ held \in CallStatuses /\ torn \in BOOLEAN
    /\ words \in Seq(Texts \cup {"partial"}) /\ up \in BOOLEAN /\ TransferTypeOK
    /\ frame \in Nat /\ cleared \in Nat

\* While the call is open, the flag that decides over barge-in and nudges is
\* set exactly when somebody plays the wanted generation, through every
\* overlap of a reply, a nudge, an interruption and a cancellation.
SpeakingIsPlaying ==
    ~closed => (speaking <=> \E p \in Players : pc[p] = "play" /\ playGen[p] = gen)

\* No frame follows one of a later generation, and none follows the clear
\* that was to silence it: the caller never hears the tail of a reply that a
\* nudge, a turn or an interruption has superseded.
NoStaleFrame ==
    [][\A p \in Players : left'[p] + 1 = left[p] /\ pc'[p] = "play"
            => playGen[p] >= frame /\ playGen[p] > cleared]_vars

\* When handle returns, the receiver and the watchdog are gone, and the session
\* is not active, although the cleanup may have cancelled either of them in
\* the middle of an end, and although each writes over what the others wrote;
\* the row may only be active still if an end was cut after its first write, or
\* if Twilio re-sent start, which saves the copy handle began with.
NothingLeft ==
    main = "done" => /\ pc["rx"] \in {"none", "stopped"} /\ pc["wd"] = "stopped"
                     /\ Answer # "active"
                     /\ row # "active" \/ torn \/ starts > 1

\* A caller who hangs up, in the middle of whatever, lets handle return.
HangUpSettles == call # "stream" ~> main = "done"

\* Lasting silence is noticed: sooner or later the session is not active any
\* more, so that nobody is kept by a flag left set or a turn that was cancelled.
SilenceIsNoticed == <>(Answer # "active")

\* README.md: the watchdog nudges a few times, then ends the call if it is
\* still quiet.
SilenceEnds == pc["wd"] = "end" ~> call # "stream"

\* The watchdog has found the session active after its last nudge, and completes
\* it, or has been cancelled since.
WatchdogEnds == nudges = MaxNudges /\ pc["wd"] \in {"save", "commit", "delete", "stopped"}

\* Who is parked for a human, or has one called, belongs to a session that
\* waits for the human, with what he will be told stored, whatever turns, a
\* hang-up and the cleanup write meanwhile.  Two writers may undo the wait: the
\* watchdog, which completes the session without looking again, and a re-sent
\* start, which saves it as it was when the call began.
TransferredIsWaiting ==
    call = "parked" \/ agent # "none"
        => /\ context /\ agent # "blind"
           /\ Answer = "waiting_human" \/ WatchdogEnds \/ starts > 1

\* README.md: a caller who is parked in the conference gets a human called.
ParkedGetsAgent == call = "parked" ~> agent # "none" \/ call = "over"

\* What README.md promises of barge-in: a caller who is heard while a reply
\* has all its frames to go has that reply cleared (unless the call, or
\* Deepgram's connection, ends first).
BargeInCuts ==
    \A g \in 1..(2 * (MaxSaid + MaxNudges) + 1) :
        /\ pc["rx"] = "play" /\ playGen["rx"] = g /\ gen = g /\ left["rx"] = MaxFrames
        /\ words # <<>> /\ Head(words) = "partial"
        ~> cleared >= g \/ call # "stream" \/ main # "receive" \/ ~up
=============================================================================
