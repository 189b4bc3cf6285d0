---------------------------- MODULE BridgeProofs ----------------------------
(***************************************************************************)
(* What holds of MediaBridge for any words, any number of nudges, frames,  *)
(* results, drops and starts.                                              *)
(***************************************************************************)
EXTENDS MediaBridge, TLAPS

RxPCs == {"none", "listen", "get", "turn", "keep", "kept", "end", "save", "commit", "delete",
          "store", "redirect", "redirected", "dial", "tts", "play", "stopped"}
WdPCs == {"sleep", "tts", "play", "end", "save", "commit", "delete", "stopped"}

\* The parts of TypeOK; the watchdog sleeps only with a nudge left, and ends
\* the session only without one.
FlagsOK == /\ closed \in BOOLEAN /\ speaking \in BOOLEAN /\ streaming \in BOOLEAN
           /\ quiet \in BOOLEAN /\ up \in BOOLEAN /\ context \in BOOLEAN
           /\ torn \in BOOLEAN

PlaybackOK == /\ gen \in Nat /\ frame \in Nat /\ cleared \in Nat
              /\ playGen \in [Players -> Nat] /\ left \in [Players -> 0..MaxFrames]

PlacesOK == /\ pc \in [Players -> RxPCs \cup WdPCs]
            /\ pc["rx"] \in RxPCs /\ pc["wd"] \in WdPCs
            /\ main \in {"receive", "persist", "connect", "reconnect", "leave", "unlisten",
                        "end", "done"}
            /\ nudges \in 0..MaxNudges
            /\ pc["wd"] = "sleep" => nudges < MaxNudges
            /\ pc["wd"] \in {"end", "save", "commit", "delete"} => nudges = MaxNudges

WordsOK == words \in Seq(Texts \cup {"partial"})

\* Nobody begins with a completed session, and no turn is added to one.
RestOK == /\ recent \subseteq Texts
          /\ cache \in CallStatuses \cup {"none"} /\ row \in CallStatuses
          /\ snap \in {"active", "waiting_human"} /\ held \in {"active", "waiting_human"}
          /\ line \in LinesAdded
          /\ call \in {"stream", "parked", "over"} /\ agent \in Legs

Typed == FlagsOK /\ PlaybackOK /\ PlacesOK /\ WordsOK /\ RestOK

\* The steps that end a session.
Ends(p) == End(p) \/ Save(p) \/ Commit(p) \/ Delete(p)

\* Each player that plays has a generation of its own, not later than the
\* current one; whoever does not play has none.
Generations ==
    /\ \A p \in Players : /\ playGen[p] <= gen
                          /\ playGen[p] # 0 <=> pc[p] = "play"
                          /\ pc[p] # "play" => left[p] = 0
    /\ playGen["rx"] = playGen["wd"] => playGen["rx"] = 0
    /\ frame <= gen /\ cleared <= gen
    /\ cleared = gen => gen = 0

Playing == Generations /\ SpeakingIsPlaying

\* The cleanup stops one coroutine after the other, for good.
Stopping ==
    /\ main \in {"unlisten", "end", "done"} => pc["wd"] = "stopped"
    /\ main \in {"end", "done"} => pc["rx"] \in {"none", "stopped"}
    /\ main = "done" => Answer # "active" /\ (row # "active" \/ torn \/ starts > 1)

\* Before the first start nobody receives, and while its copy is saved.
Beginning ==
    /\ starts \in Nat
    /\ starts = 0 => main \notin {"persist", "connect", "reconnect"}
    /\ starts = 0 \/ (starts <= 1 /\ main = "persist")
          => pc["rx"] = "none" /\ call # "parked" /\ agent = "none"

\* rx holds a copy of the session that it is going to write.
Adding == pc["rx"] \in {"keep", "kept"}

\* The row is active, or somebody is going to make it so.
Reviving == row = "active" \/ (Adding /\ held = "active") \/ (main = "persist" /\ snap = "active")

\* A session that was not active when the call began never becomes active, and
\* only the watchdog and the cleanup complete one.
Completing ==
    /\ snap # "active" => cache # "active" /\ ~Reviving
    /\ row = "completed" \/ cache = "completed" => WatchdogEnds \/ main = "done"

\* Unless start is re-sent or an end is cut, a cache that says otherwise than
\* a row that is active, or to be so, belongs to somebody who ends the session
\* and is going to write the row.
Reconciling ==
    starts <= 1 =>
        /\ Adding \/ main = "persist" => cache # "none" \/ pc["wd"] = "stopped"
        /\ ~torn => /\ cache = "completed" /\ Reviving => pc["wd"] \in {"commit", "delete"}
                    /\ cache = "waiting_human" /\ Reviving => pc["rx"] \in {"commit", "delete"}
                    /\ Adding /\ held = "waiting_human" => row # "active"

Handing == pc["rx"] \in {"store", "redirect", "redirected", "dial"}

\* Unless start is re-sent or the watchdog ends the session, what rx writes is
\* what the session says, and a transfer is under way on a waiting one.
Waiting ==
    starts <= 1 /\ ~WatchdogEnds =>
        /\ Adding => Answer = held
        /\ Handing \/ call = "parked" \/ agent # "none" => Answer = "waiting_human"
        /\ pc["rx"] \in {"commit", "delete"} => cache = "waiting_human"
        /\ pc["rx"] = "delete" => row = "waiting_human"

\* A transfer is beyond its first step only with what the human will be told.
Briefing ==
    /\ pc["rx"] \in {"redirect", "redirected", "dial"} \/ call = "parked" \/ agent # "none"
          => context
    /\ agent # "blind"

-----------------------------------------------------------------------------
(* The type.                                                                *)

LEMMA TypeInit == Init => Typed
  <1>. SUFFICES ASSUME Init
                PROVE  Typed
    OBVIOUS
  <1>1. PlacesOK
    BY BridgeAssumption DEF Init, PlacesOK, Players, RxPCs, WdPCs
  <1>2. PlaybackOK
    BY BridgeAssumption DEF Init, PlaybackOK
  <1>5. FlagsOK
    BY DEF Init, TransferInit, FlagsOK
  <1>3. WordsOK
    BY DEF Init, WordsOK
  <1>4. RestOK
    BY DEF Init, RestOK, TransferInit, Legs, CallStatuses, LinesAdded
  <1>. QED
    BY <1>1, <1>2, <1>3, <1>4, <1>5 DEF Typed

LEMMA TypedIsType == Typed => TypeOK
  BY DEF Typed, TypeOK, FlagsOK, PlaybackOK, PlacesOK, WordsOK, RestOK, TransferTypeOK,
         RxPCs, WdPCs, CallStatuses

\* Ending a session touches its status and the coroutine's place only.
LEMMA EndsKeep ==
    ASSUME NEW p \in Players, Ends(p)
    PROVE  /\ UNCHANGED <<locals, playback, main, snap, line, held, torn, world>>
           /\ \E l \in {"save", "commit", "delete"} \cup AfterEnd(p) : Goto(p, l)
           /\ pc[p] \in {"end", "save", "commit", "delete"}
  BY DEF Ends, End, Get, Save, Commit, Delete

LEMMA FlagsStep ==
    ASSUME FlagsOK, [Next]_vars
    PROVE  FlagsOK'
  <1>. USE DEF FlagsOK, locals, playback, world, transfer, session
  <1>1. ASSUME Play("rx") \/ Play("wd") \/ CancelPlayback \/ StopPlaying("rx") \/ StopPlaying("wd")
        PROVE  speaking' \in BOOLEAN
    BY <1>1 DEF Play, CancelPlayback, StopPlaying
  <1>2. CASE Rx
    <2>1. CASE RxIgnore \/ RxFinal \/ RxAdd \/ RxKeep \/ RxKept \/ RxRaise \/ RxRedirected
               \/ RxTransferFails \/ PlayFrame("rx") \/ RxReconnect
      BY <2>1 DEF RxIgnore, RxFinal, RxAdd, RxKeep, RxKept, RxRaise, RxRedirected, RxTransferFails,
                  PlayFrame, RxReconnect, Read, EndTurn, Get
    <2>2. CASE RxStore \/ RxRedirect \/ RxDial
      BY <2>2 DEF RxStore, StoreContext, RxRedirect, Park, RxDial, Ring, Get
    <2>3. CASE RxBargeIn \/ RxGet \/ RxPlay \/ RxPlayEnd
      BY <1>1, <2>3 DEF RxBargeIn, RxGet, RxPlay, RxPlayEnd, PlayEnd, Read, Get
    <2>4. CASE Ends("rx")
      BY <2>4, EndsKeep DEF Players
    <2>. QED
      BY <1>2, <2>1, <2>2, <2>3, <2>4 DEF Rx, Ends
  <1>3. CASE Wd
    <2>1. CASE Ends("wd")
      BY <2>1, EndsKeep DEF Players
    <2>2. CASE WdNudge \/ WdPlay \/ WdMute \/ PlayFrame("wd") \/ WdPlayEnd
      BY <1>1, <2>2 DEF WdNudge, WdPlay, WdMute, PlayFrame, WdPlayEnd, PlayEnd
    <2>. QED
      BY <1>3, <2>1, <2>2 DEF Wd, Ends
  <1>4. CASE Main \/ MainStart
    <2>1. CASE MainConnect \/ MainReconnect \/ MainUnlisten
      BY <1>1, <2>1 DEF MainConnect, MainReconnect, MainUnlisten, CancelRx
    <2>2. CASE MainStart \/ MainPersist \/ MainSendFails \/ MainStop \/ MainClose \/ MainEnd
      BY <2>2 DEF MainStart, MainPersist, MainSendFails, MainStop, MainClose, MainEnd
    <2>. QED
      BY <1>4, <2>1, <2>2 DEF Main
  <1>5. CASE HangUp \/ Agent
    BY <1>5 DEF HangUp, HangUpCall, Agent, AgentAnswers, AgentLeaves
  <1>6. CASE Drop \/ FallSilent \/ Forget \/ UNCHANGED vars
             \/ \E w \in Texts \cup {"partial"} : Hear(w)
    BY <1>6 DEF Drop, FallSilent, Forget, Hear, vars
  <1>. QED
    BY <1>2, <1>3, <1>4, <1>5, <1>6 DEF Next

LEMMA PlaybackStep ==
    ASSUME PlaybackOK, [Next]_vars
    PROVE  PlaybackOK'
  <1>1. ASSUME UNCHANGED playback
        PROVE  PlaybackOK'
    BY <1>1 DEF PlaybackOK, playback
  <1>2. ASSUME CancelPlayback
        PROVE  PlaybackOK'
    BY <1>2 DEF PlaybackOK, CancelPlayback
  <1>3. ASSUME NEW p \in Players, Play(p)
        PROVE  PlaybackOK'
    BY <1>3, BridgeAssumption DEF PlaybackOK, Play
  <1>4. ASSUME NEW p \in Players, StopPlaying(p), gen' = gen
        PROVE  PlaybackOK'
    BY <1>4, BridgeAssumption DEF PlaybackOK, StopPlaying
  <1>5. ASSUME NEW p \in Players, PlayFrame(p)
        PROVE  PlaybackOK'
    BY <1>5, BridgeAssumption DEF PlaybackOK, PlayFrame
  <1>6. CASE MainClose
    <2>1. gen' = gen + 1 /\ frame' = frame /\ cleared' = cleared
      BY <1>6 DEF MainClose
    <2>2. playGen' = [playGen EXCEPT !["wd"] = 0] /\ left' = [left EXCEPT !["wd"] = 0]
      BY <1>6 DEF MainClose
    <2>3. playGen' \in [Players -> Nat] /\ left' \in [Players -> 0..MaxFrames]
      BY <2>2, BridgeAssumption DEF PlaybackOK, Players
    <2>. QED
      BY <2>1, <2>3 DEF PlaybackOK
  <1>11. ASSUME NEW p \in Players, Ends(p)
         PROVE  PlaybackOK'
    BY <1>1, <1>11, EndsKeep
  <1>7. CASE Rx
    BY <1>1, <1>2, <1>3, <1>4, <1>5, <1>7, <1>11
       DEF Rx, Ends, RxIgnore, RxBargeIn, RxFinal, RxGet, RxAdd, RxKeep, RxKept, RxRaise, RxStore,
           RxRedirect, RxRedirected, RxDial, RxTransferFails, RxPlay, RxPlayEnd, PlayEnd,
           RxReconnect, Players
  <1>8. CASE Wd
    BY <1>1, <1>3, <1>4, <1>5, <1>8, <1>11
       DEF Wd, Ends, WdNudge, WdPlay, WdMute, WdPlayEnd, PlayEnd, Players
  <1>9. CASE Main \/ MainStart
    BY <1>1, <1>4, <1>6, <1>9
       DEF Main, MainStart, MainPersist, MainConnect, MainSendFails, MainReconnect, MainStop, MainUnlisten,
           MainEnd, CancelRx, Players, playback
  <1>10. CASE HangUp \/ Agent \/ Drop \/ FallSilent \/ Forget \/ UNCHANGED vars
              \/ \E w \in Texts \cup {"partial"} : Hear(w)
    BY <1>1, <1>10 DEF HangUp, Agent, Drop, FallSilent, Forget, Hear, vars
  <1>. QED
    BY <1>7, <1>8, <1>9, <1>10 DEF Next

LEMMA PlacesStep ==
    ASSUME PlacesOK, [Next]_vars
    PROVE  PlacesOK'
  <1>. USE DEF PlacesOK, Players, RxPCs, WdPCs, Goto
  <1>1. ASSUME UNCHANGED <<pc, main, nudges>>
        PROVE  PlacesOK'
    BY <1>1
  <1>2. ASSUME NEW l \in RxPCs, Goto("rx", l), UNCHANGED nudges,
               main' \in {"receive", "leave", "end"} \/ main' = main
        PROVE  PlacesOK'
    BY <1>2
  <1>3. ASSUME NEW l \in WdPCs, Goto("wd", l), UNCHANGED main, nudges' \in 0..MaxNudges,
               l = "sleep" => nudges' < MaxNudges,
               l \in {"end", "save", "commit", "delete"} => nudges' = MaxNudges
        PROVE  PlacesOK'
    BY <1>3
  <1>4. CASE Rx
    <2>1. CASE RxPlay \/ RxPlayEnd \/ RxReconnect \/ PlayFrame("rx")
      BY <1>1, <1>2, <2>1 DEF RxPlay, Play, RxPlayEnd, PlayEnd, RxReconnect, PlayFrame, locals
    <2>2. CASE RxIgnore \/ RxBargeIn \/ RxFinal \/ RxGet \/ RxAdd \/ RxKeep \/ RxKept \/ RxRaise
      BY <1>1, <1>2, <2>2 DEF RxIgnore, RxBargeIn, RxFinal, RxGet, RxAdd, RxKeep, RxKept,
                              RxRaise, EndTurn, Read, locals
    <2>3. CASE RxStore \/ RxRedirect \/ RxRedirected \/ RxDial \/ RxTransferFails
      BY <1>2, <2>3 DEF RxStore, RxRedirect, RxRedirected, RxDial, RxTransferFails, locals
    <2>4. CASE Ends("rx")
      BY <1>2, <2>4, EndsKeep DEF AfterEnd, locals
    <2>. QED
      BY <1>4, <2>1, <2>2, <2>3, <2>4 DEF Rx, Ends
  <1>5. CASE Wd
    <2>1. CASE WdNudge
      BY <1>3, <2>1, BridgeAssumption DEF WdNudge
    <2>2. CASE WdMute \/ WdPlayEnd
      <3>1. Goto("wd", AfterNudge) /\ UNCHANGED <<main, nudges>>
        BY <2>2 DEF WdMute, WdPlayEnd, PlayEnd
      <3>2. \/ AfterNudge = "sleep" /\ nudges < MaxNudges
            \/ AfterNudge = "end" /\ nudges = MaxNudges
        BY BridgeAssumption DEF AfterNudge
      <3>. QED
        BY <1>3, <3>1, <3>2
    <2>3. CASE WdPlay \/ PlayFrame("wd")
      BY <1>1, <1>3, <2>3 DEF WdPlay, Play, PlayFrame, locals
    <2>4. CASE Ends("wd")
      BY <1>3, <2>4, EndsKeep DEF AfterEnd, locals
    <2>. QED
      BY <1>5, <2>1, <2>2, <2>3, <2>4 DEF Wd, Ends
  <1>6. CASE Main \/ MainStart
    <2>1. CASE MainConnect \/ MainReconnect \/ MainUnlisten
      BY <1>2, <2>1 DEF MainConnect, MainReconnect, MainUnlisten, CancelRx, EndTurn,
                        locals
    <2>2. CASE MainSendFails \/ MainStop \/ MainEnd \/ MainStart \/ MainPersist
      BY <2>2 DEF MainSendFails, MainStop, MainEnd, MainStart, MainPersist, locals
    <2>3. CASE MainClose
      BY <2>3 DEF MainClose
    <2>. QED
      BY <1>6, <2>1, <2>2, <2>3 DEF Main
  <1>7. CASE HangUp \/ Agent \/ Drop \/ FallSilent \/ Forget \/ UNCHANGED vars
             \/ \E w \in Texts \cup {"partial"} : Hear(w)
    BY <1>1, <1>7 DEF HangUp, Agent, Drop, FallSilent, Forget, Hear, vars, locals
  <1>. QED
    BY <1>4, <1>5, <1>6, <1>7 DEF Next

LEMMA WordsStep ==
    ASSUME WordsOK, [Next]_vars
    PROVE  WordsOK'
  <1>1. \/ words' = words \/ words' = <<>>
        \/ words # <<>> /\ words' = Tail(words)
        \/ \E w \in Texts \cup {"partial"} : words' = Append(words, w)
    <2>1. CASE Rx
      BY <2>1
         DEF Rx, RxIgnore, RxBargeIn, RxFinal, RxGet, RxAdd, RxKeep, RxKept, RxRaise, RxStore,
             RxRedirect, RxRedirected, RxDial, RxTransferFails, RxPlay, RxPlayEnd, PlayEnd,
             PlayFrame, RxReconnect, Read, End, Save, Commit, Delete, world
    <2>2. CASE Wd
      BY <2>2 DEF Wd, WdNudge, WdPlay, WdMute, PlayFrame, WdPlayEnd, PlayEnd, End, Save, Commit,
                  Delete, world
    <2>3. CASE Main \/ MainStart
      BY <2>3 DEF Main, MainStart, MainPersist, MainConnect, MainSendFails, MainReconnect, MainStop,
                  MainClose, MainUnlisten, MainEnd, world
    <2>4. CASE HangUp \/ Agent \/ Drop \/ FallSilent \/ Forget \/ UNCHANGED vars
      BY <2>4 DEF HangUp, Agent, Drop, FallSilent, Forget, vars, world
    <2>5. CASE \E w \in Texts \cup {"partial"} : Hear(w)
      BY <2>5 DEF Hear
    <2>. QED
      BY <2>1, <2>2, <2>3, <2>4, <2>5 DEF Next
  <1>2. CASE words' = words
    BY <1>2 DEF WordsOK
  <1>5. CASE words' = <<>>
    BY <1>5 DEF WordsOK
  <1>3. CASE words # <<>> /\ words' = Tail(words)
    BY <1>3 DEF WordsOK
  <1>4. CASE \E w \in Texts \cup {"partial"} : words' = Append(words, w)
    BY <1>4 DEF WordsOK
  <1>. QED
    BY <1>1, <1>2, <1>3, <1>4, <1>5

LEMMA RestStep ==
    ASSUME RestOK, [Next]_vars
    PROVE  RestOK'
  <1>. USE DEF RestOK, CallStatuses, LinesAdded, locals, session, world, transfer
  <1>0. Answer \in CallStatuses
    BY DEF Answer
  <1>6. ASSUME NEW p \in Players, Ends(p)
        PROVE  RestOK'
    BY <1>0, <1>6 DEF Ends, End, Get, Save, Commit, Delete, Target
  <1>1. CASE Rx
    <2>1. CASE RxIgnore \/ RxBargeIn \/ RxRedirected \/ RxTransferFails \/ RxPlay
               \/ PlayFrame("rx") \/ RxReconnect
      BY <2>1 DEF RxIgnore, RxBargeIn, RxRedirected, RxTransferFails, RxPlay, PlayFrame,
                  RxReconnect, Read
    <2>2. CASE RxFinal
      BY <2>2 DEF RxFinal, Read
    <2>3. CASE RxGet \/ RxAdd
      BY <1>0, <2>3 DEF RxGet, RxAdd, Get, EndTurn
    <2>6. CASE RxKeep \/ RxKept \/ RxRaise
      BY <2>6 DEF RxKeep, RxKept, RxRaise, EndTurn
    <2>4. CASE RxStore \/ RxRedirect \/ RxDial
      BY <1>0, <2>4 DEF RxStore, StoreContext, RxRedirect, Park, RxDial, Ring, Legs, Get
    <2>5. CASE RxPlayEnd
      BY <2>5 DEF RxPlayEnd, PlayEnd
    <2>. QED
      BY <1>1, <1>6, <2>1, <2>2, <2>3, <2>4, <2>5, <2>6 DEF Rx, Ends, Players
  <1>2. CASE Wd
    <2>1. CASE WdNudge \/ WdPlay \/ WdMute \/ PlayFrame("wd") \/ WdPlayEnd
      BY <2>1 DEF WdNudge, WdPlay, WdMute, PlayFrame, WdPlayEnd, PlayEnd
    <2>. QED
      BY <1>2, <1>6, <2>1 DEF Wd, Ends, Players
  <1>3. CASE Main \/ MainStart
    <2>1. CASE MainConnect \/ MainReconnect \/ MainUnlisten
      BY <2>1 DEF MainConnect, MainReconnect, MainUnlisten, CancelRx, EndTurn
    <2>2. CASE MainStart \/ MainPersist \/ MainEnd
      BY <1>0, <2>2 DEF MainStart, MainPersist, MainEnd
    <2>3. CASE MainSendFails \/ MainStop \/ MainClose
      BY <2>3 DEF MainSendFails, MainStop, MainClose
    <2>. QED
      BY <1>3, <2>1, <2>2, <2>3 DEF Main
  <1>4. CASE HangUp \/ Agent
    BY <1>4 DEF HangUp, HangUpCall, Agent, AgentAnswers, AgentLeaves, Legs
  <1>5. CASE Drop \/ FallSilent \/ Forget \/ UNCHANGED vars
             \/ \E w \in Texts \cup {"partial"} : Hear(w)
    BY <1>5 DEF Drop, FallSilent, Forget, Hear, vars
  <1>. QED
    BY <1>1, <1>2, <1>3, <1>4, <1>5 DEF Next

LEMMA TypeStep ==
    ASSUME Typed, [Next]_vars
    PROVE  Typed'
  BY FlagsStep, PlaybackStep, PlacesStep, WordsStep, RestStep DEF Typed

-----------------------------------------------------------------------------
(* Playback.                                                                *)

LEMMA PlayingInit == Init => Playing
  BY DEF Init, Playing, Generations, SpeakingIsPlaying, Players

\* The steps that neither play nor stop, nor move a player to or from play.
LEMMA NotPlaying ==
    ASSUME Typed, Playing, UNCHANGED playback,
           \A p \in Players : pc'[p] = "play" <=> pc[p] = "play",
           closed' = closed
    PROVE  Playing'
  <1>1. Generations'
    BY DEF Playing, Generations, playback
  <1>2. SpeakingIsPlaying'
    BY DEF Playing, SpeakingIsPlaying, playback
  <1>. QED
    BY <1>1, <1>2 DEF Playing

LEMMA CancelPlays ==
    ASSUME Typed, Playing, CancelPlayback,
           \A p \in Players : pc'[p] = "play" <=> pc[p] = "play"
    PROVE  Playing'
  <1>1. Generations'
    BY DEF Typed, PlaybackOK, Playing, Generations, CancelPlayback
  <1>2. SpeakingIsPlaying'
    BY DEF Typed, PlaybackOK, Playing, Generations, CancelPlayback, SpeakingIsPlaying
  <1>. QED
    BY <1>1, <1>2 DEF Playing

LEMMA PlayPlays ==
    ASSUME Typed, Playing, NEW p \in Players, Play(p), pc[p] # "play"
    PROVE  Playing'
  <1>1. /\ gen' = gen + 1 /\ frame' = frame /\ cleared' = cleared /\ speaking' = TRUE
        /\ pc'[p] = "play" /\ playGen'[p] = gen + 1
        /\ \A q \in Players \ {p} : pc'[q] = pc[q] /\ playGen'[q] = playGen[q] /\ left'[q] = left[q]
    BY DEF Play, Goto, Typed, PlaybackOK, PlacesOK
  <1>2. gen \in Nat /\ frame \in Nat /\ cleared \in Nat /\ \A q \in Players : playGen[q] \in Nat
    BY DEF Typed, PlaybackOK
  <1>3. Generations'
    BY <1>1, <1>2 DEF Playing, Generations, Players
  <1>4. SpeakingIsPlaying'
    BY <1>1 DEF SpeakingIsPlaying
  <1>. QED
    BY <1>3, <1>4 DEF Playing

LEMMA StopPlays ==
    ASSUME Typed, Playing, NEW p \in Players, NEW l, l # "play",
           StopPlaying(p), Goto(p, l), gen' = gen, closed' = closed
    PROVE  Playing'
  <1>1. /\ pc'[p] = l /\ playGen'[p] = 0 /\ left'[p] = 0
        /\ \A q \in Players \ {p} : pc'[q] = pc[q] /\ playGen'[q] = playGen[q] /\ left'[q] = left[q]
        /\ frame' = frame /\ cleared' = cleared
    BY DEF StopPlaying, Goto, Typed, PlaybackOK, PlacesOK
  <1>2. gen \in Nat /\ \A q \in Players : playGen[q] \in Nat
    BY DEF Typed, PlaybackOK
  <1>3. Generations'
    BY <1>1, <1>2 DEF Playing, Generations, Players
  <1>4. SpeakingIsPlaying'
    <2>1. CASE pc[p] = "play" /\ playGen[p] = gen
      <3>1. speaking' = FALSE
        BY <2>1 DEF StopPlaying
      <3>2. \A q \in Players \ {p} : ~(pc[q] = "play" /\ playGen[q] = gen)
        BY <1>2, <2>1 DEF Playing, Generations, Players
      <3>. QED
        BY <1>1, <3>1, <3>2 DEF SpeakingIsPlaying
    <2>2. CASE ~(pc[p] = "play" /\ playGen[p] = gen)
      <3>1. speaking' = speaking
        BY <2>2 DEF StopPlaying
      <3>. QED
        BY <1>1, <2>2, <3>1 DEF Playing, SpeakingIsPlaying
    <2>. QED
      BY <2>1, <2>2
  <1>. QED
    BY <1>3, <1>4 DEF Playing

LEMMA PlayingStep ==
    ASSUME Typed, Playing, [Next]_vars
    PROVE  Playing'
  <1>. USE DEF locals
  <1>1. \A p \in Players : \A l : Goto(p, l) =>
           pc'[p] = l /\ \A q \in Players \ {p} : pc'[q] = pc[q]
    BY DEF Goto, Typed, PlacesOK
  <1>2. ASSUME NEW p \in Players, PlayFrame(p)
        PROVE  Playing'
    <2>1. /\ pc' = pc /\ playGen' = playGen /\ gen' = gen /\ speaking' = speaking
          /\ cleared' = cleared /\ closed' = closed
          /\ pc[p] = "play" /\ frame' = gen
          /\ \A q \in Players \ {p} : left'[q] = left[q]
      BY <1>2 DEF PlayFrame, Typed, PlaybackOK
    <2>2. Generations'
      BY <2>1 DEF Playing, Generations, Typed, PlaybackOK
    <2>3. SpeakingIsPlaying'
      BY <2>1 DEF Playing, SpeakingIsPlaying
    <2>. QED
      BY <2>2, <2>3 DEF Playing
  <1>7. ASSUME NEW p \in Players, Ends(p)
        PROVE  Playing'
    <2>1. PICK l \in {"save", "commit", "delete"} \cup AfterEnd(p) : Goto(p, l)
      BY <1>7, EndsKeep
    <2>2. l # "play" /\ pc[p] # "play"
      BY <1>7, EndsKeep DEF AfterEnd
    <2>3. \A q \in Players : pc'[q] = "play" <=> pc[q] = "play"
      BY <1>1, <2>1, <2>2
    <2>. QED
      BY <1>7, <2>3, EndsKeep, NotPlaying
  <1>3. CASE Rx
    <2>1. CASE RxIgnore \/ RxFinal \/ RxAdd \/ RxKeep \/ RxKept \/ RxRaise \/ RxReconnect
      BY <1>1, <2>1, NotPlaying
         DEF EndTurn, RxIgnore, RxFinal, RxAdd, RxKeep, RxKept, RxRaise, RxReconnect, Read, Players
    <2>2. CASE RxStore \/ RxRedirect \/ RxRedirected \/ RxDial \/ RxTransferFails
      BY <1>1, <2>2, NotPlaying
         DEF RxStore, RxRedirect, RxRedirected, RxDial, RxTransferFails, Players
    <2>3. CASE RxBargeIn
      BY <2>3, CancelPlays DEF RxBargeIn
    <2>4. CASE RxGet
      BY <1>1, <2>4, CancelPlays, NotPlaying DEF RxGet, Players
    <2>5. CASE RxPlay
      BY <1>1, <2>5, PlayPlays, NotPlaying DEF RxPlay, Players
    <2>6. CASE RxPlayEnd
      BY <2>6, StopPlays DEF RxPlayEnd, PlayEnd, Players
    <2>. QED
      BY <1>2, <1>3, <1>7, <2>1, <2>2, <2>3, <2>4, <2>5, <2>6 DEF Rx, Ends, Players
  <1>4. CASE Wd
    <2>1. CASE WdNudge \/ WdMute
      BY <1>1, <2>1, NotPlaying DEF WdNudge, WdMute, AfterNudge, Players
    <2>2. CASE WdPlay
      BY <2>2, PlayPlays DEF WdPlay, Players
    <2>3. CASE WdPlayEnd
      BY <2>3, StopPlays DEF WdPlayEnd, PlayEnd, AfterNudge, Players
    <2>. QED
      BY <1>2, <1>4, <1>7, <2>1, <2>2, <2>3 DEF Wd, Ends, Players
  <1>5. CASE Main \/ MainStart
    <2>1. CASE MainStart \/ MainPersist \/ MainSendFails \/ MainStop \/ MainEnd
      BY <2>1, NotPlaying DEF MainStart, MainPersist, MainSendFails, MainStop, MainEnd
    <2>2. CASE MainConnect \/ MainUnlisten
      BY <2>2, StopPlays DEF MainConnect, MainUnlisten, CancelRx, EndTurn, Players
    <2>3. CASE MainReconnect
      BY <2>3, StopPlays, NotPlaying
         DEF MainReconnect, CancelRx, EndTurn, Players, playback, session
    <2>4. CASE MainClose
      <3>1. /\ closed' = TRUE /\ gen' = gen + 1 /\ frame' = frame /\ cleared' = cleared
            /\ pc'["wd"] = "stopped" /\ playGen'["wd"] = 0 /\ left'["wd"] = 0
            /\ pc'["rx"] = pc["rx"] /\ playGen'["rx"] = playGen["rx"] /\ left'["rx"] = left["rx"]
        BY <2>4 DEF MainClose, Goto, Typed, PlaybackOK, PlacesOK, Players
      <3>2. Generations'
        BY <3>1 DEF Playing, Generations, Typed, PlaybackOK, Players
      <3>. QED
        BY <3>1, <3>2 DEF Playing, SpeakingIsPlaying
    <2>. QED
      BY <1>5, <2>1, <2>2, <2>3, <2>4 DEF Main
  <1>6. CASE HangUp \/ Agent \/ Drop \/ FallSilent \/ Forget \/ UNCHANGED vars
             \/ \E w \in Texts \cup {"partial"} : Hear(w)
    BY <1>6, NotPlaying DEF HangUp, Agent, Drop, FallSilent, Forget, Hear, vars
  <1>. QED
    BY <1>3, <1>4, <1>5, <1>6 DEF Next

-----------------------------------------------------------------------------
(* The session, the transfer and the cleanup.                               *)

LEMMA BeginningStep ==
    ASSUME Typed, Beginning, [Next]_vars
    PROVE  Beginning'
  <1>. USE DEF Typed, PlacesOK, Players, Goto, locals, session, world, transfer,
             Beginning
  <1>1. CASE RxIgnore \/ RxBargeIn \/ RxFinal \/ RxRaise
    BY <1>1 DEF RxIgnore, RxBargeIn, RxFinal, RxRaise, Read, EndTurn
  <1>2. CASE RxGet
    BY <1>2 DEF RxGet, Get
  <1>3. CASE RxAdd
    BY <1>3 DEF RxAdd, Get, EndTurn
  <1>4. CASE RxKeep
    BY <1>4 DEF RxKeep
  <1>5. CASE RxKept
    BY <1>5 DEF RxKept, EndTurn
  <1>6. CASE End("rx") \/ Save("rx")
    BY <1>6 DEF End, Get, Save, Target, AfterEnd
  <1>7. CASE Commit("rx") \/ Delete("rx")
    BY <1>7 DEF Commit, Delete, Target, AfterEnd
  <1>8. CASE RxStore
    BY <1>8 DEF RxStore, StoreContext, Get
  <1>9. CASE RxRedirect \/ RxRedirected \/ RxTransferFails
    BY <1>9 DEF RxRedirect, Park, RxRedirected, RxTransferFails
  <1>10. CASE RxDial
    BY <1>10 DEF RxDial, Ring
  <1>11. CASE RxPlay \/ PlayFrame("rx") \/ RxPlayEnd \/ RxReconnect
    BY <1>11 DEF RxPlay, Play, PlayFrame, RxPlayEnd, PlayEnd, RxReconnect
  <1>12. CASE End("wd") \/ Save("wd")
    BY <1>12 DEF End, Get, Save, Target, AfterEnd
  <1>13. CASE Commit("wd") \/ Delete("wd")
    BY <1>13 DEF Commit, Delete, Target, AfterEnd
  <1>14. CASE WdNudge \/ WdPlay \/ PlayFrame("wd")
    BY <1>14 DEF WdNudge, WdPlay, Play, PlayFrame
  <1>15. CASE WdMute \/ WdPlayEnd
    BY <1>15 DEF WdMute, WdPlayEnd, PlayEnd, AfterNudge
  <1>16. CASE MainStart \/ MainPersist
    BY <1>16 DEF MainStart, MainPersist
  <1>17. CASE MainConnect \/ MainReconnect \/ MainUnlisten
    BY <1>17 DEF MainConnect, MainReconnect, MainUnlisten, CancelRx, EndTurn
  <1>18. CASE MainSendFails \/ MainStop \/ MainClose
    BY <1>18 DEF MainSendFails, MainStop, MainClose
  <1>19. CASE MainEnd
    BY <1>19 DEF MainEnd
  <1>20. CASE HangUp \/ Agent
    BY <1>20 DEF HangUp, HangUpCall, Agent, AgentAnswers, AgentLeaves
  <1>21. CASE Drop \/ FallSilent \/ Forget \/ UNCHANGED vars
              \/ \E w \in Texts \cup {"partial"} : Hear(w)
    BY <1>21 DEF Drop, FallSilent, Forget, Hear, vars
  <1>. QED
    BY <1>1, <1>2, <1>3, <1>4, <1>5, <1>6, <1>7, <1>8, <1>9, <1>10, <1>11, <1>12, <1>13,
       <1>14, <1>15, <1>16, <1>17, <1>18, <1>19, <1>20, <1>21
       DEF Next, Rx, Wd, Main

LEMMA CompletingStep ==
    ASSUME Typed, Completing, [Next]_vars
    PROVE  Completing'
  <1>. USE DEF Typed, PlacesOK, RestOK, CallStatuses, Players, Goto, locals, session, world, transfer,
             Completing, Reviving, Adding, Answer, WatchdogEnds
  <1>1. CASE RxIgnore \/ RxBargeIn \/ RxFinal \/ RxRaise
    BY <1>1 DEF RxIgnore, RxBargeIn, RxFinal, RxRaise, Read, EndTurn
  <1>2. CASE RxGet
    BY <1>2 DEF RxGet, Get
  <1>3. CASE RxAdd
    BY <1>3 DEF RxAdd, Get, EndTurn
  <1>4. CASE RxKeep
    BY <1>4 DEF RxKeep
  <1>5. CASE RxKept
    BY <1>5 DEF RxKept, EndTurn
  <1>6. CASE End("rx") \/ Save("rx")
    BY <1>6 DEF End, Get, Save, Target, AfterEnd
  <1>7. CASE Commit("rx") \/ Delete("rx")
    BY <1>7 DEF Commit, Delete, Target, AfterEnd
  <1>8. CASE RxStore
    BY <1>8 DEF RxStore, StoreContext, Get
  <1>9. CASE RxRedirect \/ RxRedirected \/ RxTransferFails
    BY <1>9 DEF RxRedirect, Park, RxRedirected, RxTransferFails
  <1>10. CASE RxDial
    BY <1>10 DEF RxDial, Ring
  <1>11. CASE RxPlay \/ PlayFrame("rx") \/ RxPlayEnd \/ RxReconnect
    BY <1>11 DEF RxPlay, Play, PlayFrame, RxPlayEnd, PlayEnd, RxReconnect
  <1>12. CASE End("wd") \/ Save("wd")
    BY <1>12 DEF End, Get, Save, Target, AfterEnd
  <1>13. CASE Commit("wd") \/ Delete("wd")
    BY <1>13 DEF Commit, Delete, Target, AfterEnd
  <1>14. CASE WdNudge \/ WdPlay \/ PlayFrame("wd")
    BY <1>14 DEF WdNudge, WdPlay, Play, PlayFrame
  <1>15. CASE WdMute \/ WdPlayEnd
    BY <1>15 DEF WdMute, WdPlayEnd, PlayEnd, AfterNudge
  <1>16. CASE MainStart \/ MainPersist
    BY <1>16 DEF MainStart, MainPersist
  <1>17. CASE MainConnect \/ MainReconnect \/ MainUnlisten
    BY <1>17 DEF MainConnect, MainReconnect, MainUnlisten, CancelRx, EndTurn
  <1>18. CASE MainSendFails \/ MainStop \/ MainClose
    BY <1>18 DEF MainSendFails, MainStop, MainClose
  <1>19. CASE MainEnd
    BY <1>19 DEF MainEnd
  <1>20. CASE HangUp \/ Agent
    BY <1>20 DEF HangUp, HangUpCall, Agent, AgentAnswers, AgentLeaves
  <1>21. CASE Drop \/ FallSilent \/ Forget \/ UNCHANGED vars
              \/ \E w \in Texts \cup {"partial"} : Hear(w)
    BY <1>21 DEF Drop, FallSilent, Forget, Hear, vars
  <1>. QED
    BY <1>1, <1>2, <1>3, <1>4, <1>5, <1>6, <1>7, <1>8, <1>9, <1>10, <1>11, <1>12, <1>13,
       <1>14, <1>15, <1>16, <1>17, <1>18, <1>19, <1>20, <1>21
       DEF Next, Rx, Wd, Main

LEMMA ReconcilingStep ==
    ASSUME Typed, Stopping, Beginning, Completing, Reconciling, [Next]_vars
    PROVE  Reconciling'
  <1>. USE DEF Typed, PlacesOK, RestOK, CallStatuses, Players, Goto, locals, session, world, transfer,
             Stopping, Beginning, Completing, Reconciling, Reviving, Adding, Answer
  <1>1. CASE RxIgnore \/ RxBargeIn \/ RxFinal \/ RxRaise
    BY <1>1 DEF RxIgnore, RxBargeIn, RxFinal, RxRaise, Read, EndTurn
  <1>2. CASE RxGet
    BY <1>2 DEF RxGet, Get
  <1>3. CASE RxAdd
    BY <1>3 DEF RxAdd, Get, EndTurn
  <1>4. CASE RxKeep
    BY <1>4 DEF RxKeep
  <1>5. CASE RxKept
    BY <1>5 DEF RxKept, EndTurn
  <1>6. CASE End("rx") \/ Save("rx")
    BY <1>6 DEF End, Get, Save, Target, AfterEnd
  <1>7. CASE Commit("rx") \/ Delete("rx")
    BY <1>7 DEF Commit, Delete, Target, AfterEnd
  <1>8. CASE RxStore
    BY <1>8 DEF RxStore, StoreContext, Get
  <1>9. CASE RxRedirect \/ RxRedirected \/ RxTransferFails
    BY <1>9 DEF RxRedirect, Park, RxRedirected, RxTransferFails
  <1>10. CASE RxDial
    BY <1>10 DEF RxDial, Ring
  <1>11. CASE RxPlay \/ PlayFrame("rx") \/ RxPlayEnd \/ RxReconnect
    BY <1>11 DEF RxPlay, Play, PlayFrame, RxPlayEnd, PlayEnd, RxReconnect
  <1>12. CASE End("wd") \/ Save("wd")
    BY <1>12 DEF End, Get, Save, Target, AfterEnd
  <1>13. CASE Commit("wd") \/ Delete("wd")
    BY <1>13 DEF Commit, Delete, Target, AfterEnd
  <1>14. CASE WdNudge \/ WdPlay \/ PlayFrame("wd")
    BY <1>14 DEF WdNudge, WdPlay, Play, PlayFrame
  <1>15. CASE WdMute \/ WdPlayEnd
    BY <1>15 DEF WdMute, WdPlayEnd, PlayEnd, AfterNudge
  <1>16. CASE MainStart \/ MainPersist
    BY <1>16 DEF MainStart, MainPersist
  <1>17. CASE MainConnect \/ MainReconnect \/ MainUnlisten
    BY <1>17 DEF MainConnect, MainReconnect, MainUnlisten, CancelRx, EndTurn
  <1>18. CASE MainSendFails \/ MainStop \/ MainClose
    BY <1>18 DEF MainSendFails, MainStop, MainClose
  <1>19. CASE MainEnd
    BY <1>19 DEF MainEnd
  <1>20. CASE HangUp \/ Agent
    BY <1>20 DEF HangUp, HangUpCall, Agent, AgentAnswers, AgentLeaves
  <1>21. CASE Drop \/ FallSilent \/ Forget \/ UNCHANGED vars
              \/ \E w \in Texts \cup {"partial"} : Hear(w)
    BY <1>21 DEF Drop, FallSilent, Forget, Hear, vars
  <1>. QED
    BY <1>1, <1>2, <1>3, <1>4, <1>5, <1>6, <1>7, <1>8, <1>9, <1>10, <1>11, <1>12, <1>13,
       <1>14, <1>15, <1>16, <1>17, <1>18, <1>19, <1>20, <1>21
       DEF Next, Rx, Wd, Main

LEMMA WaitingStep ==
    ASSUME Typed, Stopping, Beginning, Completing, Reconciling, Waiting, [Next]_vars
    PROVE  Waiting'
  <1>. USE DEF Typed, PlacesOK, RestOK, CallStatuses, Players, Goto, locals, session, world, transfer,
             Stopping, Beginning, Completing, Waiting, Reconciling, Handing, Adding, Answer, WatchdogEnds
  <1>1. CASE RxIgnore \/ RxBargeIn \/ RxFinal \/ RxRaise
    BY <1>1 DEF RxIgnore, RxBargeIn, RxFinal, RxRaise, Read, EndTurn
  <1>2. CASE RxGet
    BY <1>2 DEF RxGet, Get
  <1>3. CASE RxAdd
    BY <1>3 DEF RxAdd, Get, EndTurn
  <1>4. CASE RxKeep
    BY <1>4 DEF RxKeep
  <1>5. CASE RxKept
    BY <1>5 DEF RxKept, EndTurn
  <1>6. CASE End("rx") \/ Save("rx")
    BY <1>6 DEF End, Get, Save, Target, AfterEnd
  <1>7. CASE Commit("rx") \/ Delete("rx")
    BY <1>7 DEF Commit, Delete, Target, AfterEnd
  <1>8. CASE RxStore
    BY <1>8 DEF RxStore, StoreContext, Get
  <1>9. CASE RxRedirect \/ RxRedirected \/ RxTransferFails
    BY <1>9 DEF RxRedirect, Park, RxRedirected, RxTransferFails
  <1>10. CASE RxDial
    BY <1>10 DEF RxDial, Ring
  <1>11. CASE RxPlay \/ PlayFrame("rx") \/ RxPlayEnd \/ RxReconnect
    BY <1>11 DEF RxPlay, Play, PlayFrame, RxPlayEnd, PlayEnd, RxReconnect
  <1>12. CASE End("wd") \/ Save("wd")
    BY <1>12 DEF End, Get, Save, Target, AfterEnd
  <1>13. CASE Commit("wd") \/ Delete("wd")
    BY <1>13 DEF Commit, Delete, Target, AfterEnd
  <1>14. CASE WdNudge \/ WdPlay \/ PlayFrame("wd")
    BY <1>14 DEF WdNudge, WdPlay, Play, PlayFrame
  <1>15. CASE WdMute \/ WdPlayEnd
    BY <1>15 DEF WdMute, WdPlayEnd, PlayEnd, AfterNudge
  <1>16. CASE MainStart \/ MainPersist
    BY <1>16 DEF MainStart, MainPersist
  <1>17. CASE MainConnect \/ MainReconnect \/ MainUnlisten
    BY <1>17 DEF MainConnect, MainReconnect, MainUnlisten, CancelRx, EndTurn
  <1>18. CASE MainSendFails \/ MainStop \/ MainClose
    BY <1>18 DEF MainSendFails, MainStop, MainClose
  <1>19. CASE MainEnd
    BY <1>19 DEF MainEnd
  <1>20. CASE HangUp \/ Agent
    BY <1>20 DEF HangUp, HangUpCall, Agent, AgentAnswers, AgentLeaves
  <1>21. CASE Drop \/ FallSilent \/ Forget \/ UNCHANGED vars
              \/ \E w \in Texts \cup {"partial"} : Hear(w)
    BY <1>21 DEF Drop, FallSilent, Forget, Hear, vars
  <1>. QED
    BY <1>1, <1>2, <1>3, <1>4, <1>5, <1>6, <1>7, <1>8, <1>9, <1>10, <1>11, <1>12, <1>13,
       <1>14, <1>15, <1>16, <1>17, <1>18, <1>19, <1>20, <1>21
       DEF Next, Rx, Wd, Main

LEMMA BriefingStep ==
    ASSUME Typed, Briefing, [Next]_vars
    PROVE  Briefing'
  <1>. USE DEF Typed, PlacesOK, Players, Goto, locals, session, world, transfer,
             Briefing
  <1>1. CASE RxIgnore \/ RxBargeIn \/ RxFinal \/ RxRaise
    BY <1>1 DEF RxIgnore, RxBargeIn, RxFinal, RxRaise, Read, EndTurn
  <1>2. CASE RxGet
    BY <1>2 DEF RxGet, Get
  <1>3. CASE RxAdd
    BY <1>3 DEF RxAdd, Get, EndTurn
  <1>4. CASE RxKeep
    BY <1>4 DEF RxKeep
  <1>5. CASE RxKept
    BY <1>5 DEF RxKept, EndTurn
  <1>6. CASE End("rx") \/ Save("rx")
    BY <1>6 DEF End, Get, Save, Target, AfterEnd
  <1>7. CASE Commit("rx") \/ Delete("rx")
    BY <1>7 DEF Commit, Delete, Target, AfterEnd
  <1>8. CASE RxStore
    BY <1>8 DEF RxStore, StoreContext, Get
  <1>9. CASE RxRedirect \/ RxRedirected \/ RxTransferFails
    BY <1>9 DEF RxRedirect, Park, RxRedirected, RxTransferFails
  <1>10. CASE RxDial
    BY <1>10 DEF RxDial, Ring
  <1>11. CASE RxPlay \/ PlayFrame("rx") \/ RxPlayEnd \/ RxReconnect
    BY <1>11 DEF RxPlay, Play, PlayFrame, RxPlayEnd, PlayEnd, RxReconnect
  <1>12. CASE End("wd") \/ Save("wd")
    BY <1>12 DEF End, Get, Save, Target, AfterEnd
  <1>13. CASE Commit("wd") \/ Delete("wd")
    BY <1>13 DEF Commit, Delete, Target, AfterEnd
  <1>14. CASE WdNudge \/ WdPlay \/ PlayFrame("wd")
    BY <1>14 DEF WdNudge, WdPlay, Play, PlayFrame
  <1>15. CASE WdMute \/ WdPlayEnd
    BY <1>15 DEF WdMute, WdPlayEnd, PlayEnd, AfterNudge
  <1>16. CASE MainStart \/ MainPersist
    BY <1>16 DEF MainStart, MainPersist
  <1>17. CASE MainConnect \/ MainReconnect \/ MainUnlisten
    BY <1>17 DEF MainConnect, MainReconnect, MainUnlisten, CancelRx, EndTurn
  <1>18. CASE MainSendFails \/ MainStop \/ MainClose
    BY <1>18 DEF MainSendFails, MainStop, MainClose
  <1>19. CASE MainEnd
    BY <1>19 DEF MainEnd
  <1>20. CASE HangUp \/ Agent
    BY <1>20 DEF HangUp, HangUpCall, Agent, AgentAnswers, AgentLeaves
  <1>21. CASE Drop \/ FallSilent \/ Forget \/ UNCHANGED vars
              \/ \E w \in Texts \cup {"partial"} : Hear(w)
    BY <1>21 DEF Drop, FallSilent, Forget, Hear, vars
  <1>. QED
    BY <1>1, <1>2, <1>3, <1>4, <1>5, <1>6, <1>7, <1>8, <1>9, <1>10, <1>11, <1>12, <1>13,
       <1>14, <1>15, <1>16, <1>17, <1>18, <1>19, <1>20, <1>21
       DEF Next, Rx, Wd, Main

LEMMA StoppingStep ==
    ASSUME Typed, Stopping, Beginning, Reconciling, [Next]_vars
    PROVE  Stopping'
  <1>. USE DEF Typed, PlacesOK, RestOK, CallStatuses, Players, Goto, locals, session, world, transfer,
             Stopping, Beginning, Reconciling, Reviving, Answer
  <1>1. CASE RxIgnore \/ RxBargeIn \/ RxFinal \/ RxRaise
    BY <1>1 DEF RxIgnore, RxBargeIn, RxFinal, RxRaise, Read, EndTurn
  <1>2. CASE RxGet
    BY <1>2 DEF RxGet, Get
  <1>3. CASE RxAdd
    BY <1>3 DEF RxAdd, Get, EndTurn
  <1>4. CASE RxKeep
    BY <1>4 DEF RxKeep
  <1>5. CASE RxKept
    BY <1>5 DEF RxKept, EndTurn
  <1>6. CASE End("rx") \/ Save("rx")
    BY <1>6 DEF End, Get, Save, Target, AfterEnd
  <1>7. CASE Commit("rx") \/ Delete("rx")
    BY <1>7 DEF Commit, Delete, Target, AfterEnd
  <1>8. CASE RxStore
    BY <1>8 DEF RxStore, StoreContext, Get
  <1>9. CASE RxRedirect \/ RxRedirected \/ RxTransferFails
    BY <1>9 DEF RxRedirect, Park, RxRedirected, RxTransferFails
  <1>10. CASE RxDial
    BY <1>10 DEF RxDial, Ring
  <1>11. CASE RxPlay \/ PlayFrame("rx") \/ RxPlayEnd \/ RxReconnect
    BY <1>11 DEF RxPlay, Play, PlayFrame, RxPlayEnd, PlayEnd, RxReconnect
  <1>12. CASE End("wd") \/ Save("wd")
    BY <1>12 DEF End, Get, Save, Target, AfterEnd
  <1>13. CASE Commit("wd") \/ Delete("wd")
    BY <1>13 DEF Commit, Delete, Target, AfterEnd
  <1>14. CASE WdNudge \/ WdPlay \/ PlayFrame("wd")
    BY <1>14 DEF WdNudge, WdPlay, Play, PlayFrame
  <1>15. CASE WdMute \/ WdPlayEnd
    BY <1>15 DEF WdMute, WdPlayEnd, PlayEnd, AfterNudge
  <1>16. CASE MainStart \/ MainPersist
    BY <1>16 DEF MainStart, MainPersist
  <1>17. CASE MainConnect \/ MainReconnect \/ MainUnlisten
    BY <1>17 DEF MainConnect, MainReconnect, MainUnlisten, CancelRx, EndTurn
  <1>18. CASE MainSendFails \/ MainStop \/ MainClose
    BY <1>18 DEF MainSendFails, MainStop, MainClose
  <1>19. CASE MainEnd
    BY <1>19 DEF MainEnd
  <1>20. CASE HangUp \/ Agent
    BY <1>20 DEF HangUp, HangUpCall, Agent, AgentAnswers, AgentLeaves
  <1>21. CASE Drop \/ FallSilent \/ Forget \/ UNCHANGED vars
              \/ \E w \in Texts \cup {"partial"} : Hear(w)
    BY <1>21 DEF Drop, FallSilent, Forget, Hear, vars
  <1>. QED
    BY <1>1, <1>2, <1>3, <1>4, <1>5, <1>6, <1>7, <1>8, <1>9, <1>10, <1>11, <1>12, <1>13,
       <1>14, <1>15, <1>16, <1>17, <1>18, <1>19, <1>20, <1>21
       DEF Next, Rx, Wd, Main

-----------------------------------------------------------------------------
\* A player that is still playing with one frame fewer has just sent it.
LEMMA OnlyFrames ==
    ASSUME Typed, Playing, [Next]_vars, NEW p \in Players,
           left'[p] + 1 = left[p], pc'[p] = "play"
    PROVE  PlayFrame(p)
  <1>. USE DEF locals
  <1>1. left[p] \in Nat /\ left'[p] # left[p]
    BY DEF Typed, PlaybackOK
  <1>2. ~ UNCHANGED left
    BY <1>1
  <1>3. ASSUME NEW q \in Players, Play(q), pc[q] # "play"
        PROVE  FALSE
    <2>1. left[q] = 0 /\ left' = [left EXCEPT ![q] = MaxFrames]
      BY <1>3 DEF Play, Playing, Generations
    <2>. QED
      BY <1>1, <2>1, BridgeAssumption DEF Typed, PlaybackOK
  <1>4. ASSUME NEW q \in Players, NEW l, l # "play", StopPlaying(q), Goto(q, l)
        PROVE  FALSE
    BY <1>1, <1>4 DEF StopPlaying, Goto, Typed, PlaybackOK, PlacesOK
  <1>5. ASSUME NEW q \in Players, PlayFrame(q)
        PROVE  PlayFrame(p)
    <2>1. left' = [left EXCEPT ![q] = left[q] - 1]
      BY <1>5 DEF PlayFrame
    <2>. QED
      BY <1>1, <1>5, <2>1 DEF Typed, PlaybackOK
  <1>6. ASSUME CancelPlayback
        PROVE  FALSE
    BY <1>2, <1>6 DEF CancelPlayback
  <1>11. ASSUME NEW q \in Players, Ends(q)
         PROVE  FALSE
    BY <1>2, <1>11, EndsKeep DEF playback
  <1>7. CASE Rx
    <2>1. CASE RxIgnore \/ RxBargeIn \/ RxFinal \/ RxGet \/ RxAdd \/ RxKeep \/ RxKept \/ RxRaise
      BY <1>2, <1>6, <2>1 DEF RxIgnore, RxBargeIn, RxFinal, RxGet, RxAdd, RxKeep, RxKept, RxRaise,
                              playback
    <2>2. CASE RxStore \/ RxRedirect \/ RxRedirected \/ RxDial \/ RxTransferFails \/ RxReconnect
      BY <1>2, <2>2 DEF RxStore, RxRedirect, RxRedirected, RxDial, RxTransferFails, RxReconnect,
                        playback
    <2>3. CASE RxPlay
      BY <1>2, <1>3, <2>3 DEF RxPlay, Players, playback
    <2>4. CASE RxPlayEnd
      BY <1>4, <2>4 DEF RxPlayEnd, PlayEnd, Players
    <2>. QED
      BY <1>5, <1>7, <1>11, <2>1, <2>2, <2>3, <2>4 DEF Rx, Ends, Players
  <1>8. CASE Wd
    <2>1. CASE WdNudge \/ WdMute
      BY <1>2, <2>1 DEF WdNudge, WdMute, playback
    <2>2. CASE WdPlay
      BY <1>3, <2>2 DEF WdPlay, Players
    <2>3. CASE WdPlayEnd
      BY <1>4, <2>3 DEF WdPlayEnd, PlayEnd, AfterNudge, Players
    <2>. QED
      BY <1>5, <1>8, <1>11, <2>1, <2>2, <2>3 DEF Wd, Ends, Players
  <1>9. CASE Main \/ MainStart
    <2>1. CASE MainStart \/ MainPersist \/ MainSendFails \/ MainStop \/ MainEnd
      BY <1>2, <2>1 DEF MainStart, MainPersist, MainSendFails, MainStop, MainEnd, playback
    <2>2. CASE MainConnect \/ MainUnlisten
      BY <1>4, <2>2 DEF MainConnect, MainUnlisten, CancelRx, EndTurn, Players
    <2>3. CASE MainReconnect
      BY <1>2, <1>4, <2>3 DEF MainReconnect, CancelRx, EndTurn, Players
    <2>4. CASE MainClose
      BY <1>1, <2>4 DEF MainClose, Goto, Typed, PlaybackOK, PlacesOK, Players
    <2>. QED
      BY <1>9, <2>1, <2>2, <2>3, <2>4 DEF Main
  <1>10. CASE HangUp \/ Agent \/ Drop \/ FallSilent \/ Forget \/ UNCHANGED vars
              \/ \E w \in Texts \cup {"partial"} : Hear(w)
    BY <1>2, <1>10 DEF HangUp, Agent, Drop, FallSilent, Forget, Hear, vars, playback
  <1>. QED
    BY <1>7, <1>8, <1>9, <1>10 DEF Next

-----------------------------------------------------------------------------
(* The theorems.                                                            *)

Inv == /\ Typed /\ Playing /\ Stopping /\ Beginning
       /\ Completing /\ Reconciling /\ Waiting /\ Briefing

\* The inductive invariant: the type, what the flag says of the players, what
\* is left of a call that is cleaned up, who may write what over the session,
\* and what a transfer has behind it.
THEOREM Invariance == Spec => []Inv
  <1>1. Init => Inv
    <2>. SUFFICES ASSUME Init PROVE Inv
      OBVIOUS
    <2>1. Stopping /\ Beginning
      BY DEF Init, Stopping, Beginning, TransferInit, Players
    <2>2. Completing /\ Reconciling
      BY DEF Init, Completing, Reconciling, Reviving, Adding, Players
    <2>3. Waiting /\ Briefing
      BY DEF Init, Waiting, Briefing, Handing, Adding, TransferInit, Players
    <2>. QED
      BY <2>1, <2>2, <2>3, TypeInit, PlayingInit DEF Inv
  <1>2. Inv /\ [Next]_vars => Inv'
    BY TypeStep, PlayingStep, StoppingStep, BeginningStep, CompletingStep, ReconcilingStep,
       WaitingStep, BriefingStep DEF Inv
  <1>. QED
    BY <1>1, <1>2, PTL DEF Spec

\* The watchdog never counts more nudges than it has, and the coroutines are
\* only at the awaits they have.
THEOREM TypeCorrect == Spec => []TypeOK
  BY Invariance, TypedIsType, PTL DEF Inv

\* The flag that decides over barge-in and nudges tells whether somebody
\* plays the wanted generation, for any overlap of the two players.
THEOREM SpeakingTrue == Spec => []SpeakingIsPlaying
  BY Invariance, PTL DEF Inv, Playing

\* No frame of a superseded or cleared utterance is sent after it was
\* superseded or cleared.
THEOREM FramesInOrder == Spec => NoStaleFrame
  <1>1. Inv /\ [Next]_vars =>
          [\A p \in Players : left'[p] + 1 = left[p] /\ pc'[p] = "play"
             => playGen[p] >= frame /\ playGen[p] > cleared]_vars
    <2>. SUFFICES ASSUME Inv, [Next]_vars, NEW p \in Players,
                         left'[p] + 1 = left[p], pc'[p] = "play"
                  PROVE  playGen[p] >= frame /\ playGen[p] > cleared
      OBVIOUS
    <2>1. left[p] \in Nat /\ left'[p] # left[p]
      BY DEF Inv, Typed, PlaybackOK
    <2>2. PlayFrame(p)
      BY <2>1, OnlyFrames DEF Inv
    <2>. QED
      BY <2>2 DEF PlayFrame, Inv, Typed, PlaybackOK, Playing, Generations
  <1>. QED
    BY <1>1, Invariance, PTL DEF Spec, NoStaleFrame

\* When handle returns, the receiver and the watchdog are gone, wherever each
\* was when the cleanup began, and the session is not active: not the cached
\* one, nor the row, unless an end was cut or start was re-sent.
THEOREM NothingIsLeft == Spec => []NothingLeft
  <1>1. Inv => NothingLeft
    BY DEF Inv, Stopping, NothingLeft
  <1>. QED
    BY <1>1, Invariance, PTL

\* A caller who is parked, and an agent who is called, belong to a session
\* that waits for a human and whose context is stored, however the turn's
\* reads and writes of the session overlap with the watchdog's and with the
\* cleanup's; only the watchdog, and a re-sent start, undo the wait.
THEOREM TransferWaits == Spec => []TransferredIsWaiting
  <1>1. Inv => TransferredIsWaiting
    BY DEF Inv, Waiting, Beginning, Briefing, TransferredIsWaiting
  <1>. QED
    BY <1>1, Invariance, PTL

\* Whatever becomes of the session, and however often Twilio re-sends start,
\* nobody is parked and no agent dialled before the context is stored, and no
\* agent picks up without hearing it (WarmTransferService.start stores first).
THEOREM AgentsAreBriefed ==
    Spec => [](agent # "blind" /\ (call = "parked" \/ agent # "none" => context))
  <1>1. Inv => agent # "blind" /\ (call = "parked" \/ agent # "none" => context)
    BY DEF Inv, Briefing
  <1>. QED
    BY <1>1, Invariance, PTL

\* Of a reply and a nudge that overlap at most one is still wanted: the caller
\* never hears the frames of two utterances mixed.
THEOREM OneVoice ==
    Spec => [](\A p, q \in Players :
                  /\ pc[p] = "play" /\ playGen[p] = gen
                  /\ pc[q] = "play" /\ playGen[q] = gen
                  => p = q)
  <1>1. Inv => \A p, q \in Players :
                  /\ pc[p] = "play" /\ playGen[p] = gen
                  /\ pc[q] = "play" /\ playGen[q] = gen
                  => p = q
    BY DEF Inv, Playing, Generations, Players
  <1>. QED
    BY <1>1, Invariance, PTL

\* Once handle has returned the call is over for the backend: no coroutine
\* moves, no frame is sent and the session is left as it was.
THEOREM ReturnedIsFinal ==
    Spec => [][main = "done" => UNCHANGED <<main, pc, playback, session, closed>>]_vars
  <1>1. ASSUME Inv, [Next]_vars, main = "done"
        PROVE  UNCHANGED <<main, pc, playback, session, closed>>
    <2>1. pc["rx"] \in {"none", "stopped"} /\ pc["wd"] = "stopped"
      BY <1>1 DEF Inv, Stopping
    <2>2. ~Rx
      BY <2>1 DEF Rx, RxIgnore, RxBargeIn, RxFinal, Read, RxGet, RxAdd, RxKeep, RxKept, RxRaise,
             RxStore, RxRedirect, RxRedirected, RxDial, RxTransferFails, RxPlay, PlayFrame,
             RxPlayEnd, PlayEnd, RxReconnect, End, Save, Commit, Delete
    <2>3. ~Wd
      BY <2>1 DEF Wd, WdNudge, WdPlay, WdMute, PlayFrame, WdPlayEnd, PlayEnd, End, Save, Commit,
             Delete
    <2>4. ~Main /\ ~MainStart
      BY <1>1 DEF Main, MainStart, MainPersist, MainConnect, MainSendFails, MainReconnect, MainStop,
             MainClose, MainUnlisten, MainEnd
    <2>5. CASE HangUp \/ Agent \/ Drop \/ FallSilent \/ Forget \/ UNCHANGED vars
               \/ \E w \in Texts \cup {"partial"} : Hear(w)
      BY <2>5 DEF HangUp, Agent, Drop, FallSilent, Forget, Hear, vars, locals
    <2>. QED
      BY <1>1, <2>2, <2>3, <2>4, <2>5 DEF Next
  <1>2. Inv /\ [Next]_vars =>
          [main = "done" => UNCHANGED <<main, pc, playback, session, closed>>]_vars
    BY <1>1
  <1>. QED
    BY <1>2, Invariance, PTL DEF Spec
==============================================================================
