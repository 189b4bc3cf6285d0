---------------------------- MODULE SocketProofs ----------------------------
(***************************************************************************)
(* What holds of VoiceSocket.  For any connections: each of their steps is *)
(* one of ConversationPipeline, so what is proved there holds here.  For a *)
(* session with one connection that talks, while any number of others only *)
(* interrupt: what the caller hears stays on record, although saves fail   *)
(* half-way and Redis loses its keys.                                      *)
(***************************************************************************)
EXTENDS VoiceSocket, PipelineProofs, SessionSoloProofs, FiniteSetTheorems

\* A connection that is not in its loop, or in its call of end, has no turn.
Between == \A k \in Clients : conn[k] # "open" => at[k] = "idle"

Queues == /\ inbox \in [Clients -> Seq(Messages)]
          /\ conn \in [Clients -> Conns]

Books == /\ Queues /\ gone \subseteq Clients /\ skipped \subseteq Clients
         /\ messages \in 0..MaxSent

Took(k) == \/ TakeText(k) \/ TakeBlank(k) \/ TakeAudio(k) \/ TakeBargeIn(k) \/ TakeEnd(k)
           \/ TakeDisconnect(k)

Returned(k) == EndReturns(k) \/ Read(k) \/ Finished(k)

-----------------------------------------------------------------------------
(* The connections' books.                                                  *)

LEMMA QueueStep ==
    ASSUME Queues, [SNext]_svars
    PROVE  Queues'
  <1>1. ASSUME UNCHANGED <<inbox, conn>>
        PROVE  Queues'
    BY <1>1 DEF Queues
  <1>2. ASSUME NEW k \in Clients, NEW l \in Conns, Become(k, l)
        PROVE  conn' \in [Clients -> Conns]
    BY <1>2 DEF Become, Queues
  <1>3. ASSUME NEW k \in Clients, NEW m \in Messages, Send(k, m)
        PROVE  Queues'
    <2>1. Append(inbox[k], m) \in Seq(Messages)
      BY DEF Queues
    <2>. QED
      BY <1>3, <2>1 DEF Send, Queues
  <1>4. ASSUME NEW k \in Clients, Took(k)
        PROVE  Queues'
    <2>1. \E m : Take(k, m)
      BY <1>4 DEF Took, TakeText, TakeBlank, TakeAudio, TakeBargeIn, TakeEnd, TakeDisconnect
    <2>2. inbox' \in [Clients -> Seq(Messages)]
      BY <2>1 DEF Take, Queues
    <2>3. conn' \in [Clients -> Conns]
      BY <1>2, <1>4 DEF Took, TakeText, TakeBlank, TakeAudio, TakeBargeIn, TakeEnd,
                        TakeDisconnect, Conns, Queues
    <2>. QED
      BY <2>2, <2>3 DEF Queues
  <1>5. ASSUME NEW k \in Clients,
               Returned(k) \/ EndRaises(k) \/ Leave(k) \/ Finish(k) \/ CleanupFails(k)
        PROVE  Queues'
    <2>1. inbox' = inbox
      BY <1>5 DEF Returned, EndReturns, Read, Finished, Back, EndRaises, Leave, Finish, CleanupFails
    <2>2. \E l \in Conns : Become(k, l)
      BY <1>5 DEF Returned, EndReturns, Read, Finished, EndRaises, Leave, Finish, CleanupFails, Conns
    <2>. QED
      BY <1>2, <2>1, <2>2 DEF Queues
  <1>. QED
    BY <1>1, <1>3, <1>4, <1>5 DEF SNext, Serve, Took, Returned, Inside, socket, svars

LEMMA BooksStep ==
    ASSUME Books, [SNext]_svars
    PROVE  Books'
  <1>1. Queues'
    BY QueueStep DEF Books
  <1>2. ASSUME NEW k \in Clients, NEW m \in Messages, Send(k, m)
        PROVE  gone' \subseteq Clients /\ skipped' \subseteq Clients /\ messages' \in 0..MaxSent
    BY <1>2, SocketAssumption DEF Send, Books
  <1>3. ASSUME NEW k \in Clients, Took(k) \/ Returned(k) \/ EndRaises(k) \/ Leave(k) \/ Finish(k)
                                  \/ CleanupFails(k)
        PROVE  UNCHANGED <<gone, messages>> /\ skipped' \subseteq Clients
    BY <1>3 DEF Took, Take, TakeText, TakeBlank, TakeAudio, TakeBargeIn, TakeEnd, TakeDisconnect,
                Returned, EndReturns, Read, Finished, Back, EndRaises, Leave, Finish,
                CleanupFails, Books
  <1>. QED
    BY <1>1, <1>2, <1>3 DEF SNext, Serve, Took, Returned, Inside, socket, svars, Books

-----------------------------------------------------------------------------
(* Each step is one of the pipeline, or leaves it alone.                    *)

LEMMA IdleTurns ==
    ASSUME NEW k \in Clients, at[k] = "idle"
    PROVE  ~TurnStep(k)
  BY RoleStages
     DEF TurnStep, Call, Await, HearGet, HearNothing, HearFinal, TurnGet, TurnUser, TurnAgent,
         TurnReply, TurnCheck, TurnTts, HandoffGet, HandoffTurn, HandoffEnd, HandoffFresh,
         HandoffGive, HandoffTts, Returns, Reads

\* Only its own turn moves a client's place, and only its own loop a connection.
LEMMA OthersStay ==
    ASSUME Placed, Queues, NEW k \in Clients, NEW q \in Clients \ {k}
    PROVE  /\ TurnStep(k) \/ Raise(k) => at'[q] = at[q]
           /\ Took(k) => at'[q] = at[q] /\ conn'[q] = conn[q]
           /\ Returned(k) \/ EndRaises(k) \/ Leave(k) \/ Finish(k) \/ CleanupFails(k)
                => at'[q] = at[q] /\ conn'[q] = conn[q]
  <1>1. ASSUME NEW l, Move(k, l) \/ Over(k) \/ at' = [at EXCEPT ![k] = l]
        PROVE  at'[q] = at[q]
    BY <1>1 DEF Move, Over, Placed
  <1>2. ASSUME NEW l, Become(k, l)
        PROVE  conn'[q] = conn[q]
    BY <1>2 DEF Become, Queues
  <1>3. ASSUME NEW hasText, Begin(k, hasText)
        PROVE  at'[q] = at[q]
    BY <1>1, <1>3 DEF Begin
  <1>4. TurnStep(k) \/ Raise(k) => at'[q] = at[q]
    BY <1>1, <1>3
       DEF TurnStep, Raise, Call, Await, HearGet, HearNothing, HearFinal, TurnGet, TurnUser,
           TurnAgent, TurnReply, TurnCheck, TurnTts, HandoffGet, HandoffTurn, HandoffEnd,
           HandoffFresh, HandoffGive, HandoffTts, Added, pvars
  <1>5. Took(k) => at'[q] = at[q] /\ conn'[q] = conn[q]
    BY <1>1, <1>2, <1>3
       DEF Took, TakeText, TakeBlank, TakeAudio, TakeBargeIn, TakeEnd, TakeDisconnect, BeginText,
           HearChunk, RequestBargeIn, pvars, allvars
  <1>6. Returned(k) \/ EndRaises(k) \/ Leave(k) \/ Finish(k) \/ CleanupFails(k)
                => at'[q] = at[q] /\ conn'[q] = conn[q]
    BY <1>2 DEF Returned, EndReturns, Read, Finished, Back, EndRaises, Leave, Finish,
                CleanupFails, pvars
  <1>. QED
    BY <1>4, <1>5, <1>6

LEMMA BetweenStep ==
    ASSUME Placed, Books, Between, [SNext]_svars
    PROVE  Between'
  <1>0. Queues
    BY DEF Books
  <1>1. ASSUME UNCHANGED <<at, conn>>
        PROVE  Between'
    BY <1>1 DEF Between
  <1>2. ASSUME NEW k \in Clients, Took(k)
        PROVE  Between'
    <2>1. at[k] = "idle"
      BY <1>2 DEF Took, Take, Free, TakeText, TakeBlank, TakeAudio, TakeBargeIn, TakeEnd,
                  TakeDisconnect
    <2>2. conn[k] = "open"
      BY <1>2 DEF Took, Take, TakeText, TakeBlank, TakeAudio, TakeBargeIn, TakeEnd, TakeDisconnect
    <2>3. conn' = conn \/ at' = at
      BY <1>2 DEF Took, TakeText, TakeBlank, TakeAudio, TakeBargeIn, TakeEnd, TakeDisconnect,
                  pvars, allvars
    <2>. QED
      BY <1>0, <1>2, <2>1, <2>2, <2>3, OthersStay DEF Between
  <1>3. ASSUME NEW k \in Clients,
               Returned(k) \/ EndRaises(k) \/ Leave(k) \/ Finish(k) \/ CleanupFails(k)
        PROVE  Between'
    <2>1. conn[k] # "open" /\ at' = at
      BY <1>3 DEF Returned, EndReturns, Read, Finished, Back, EndRaises, Leave, Finish,
                  CleanupFails, pvars
    <2>. QED
      BY <1>0, <1>3, <2>1, OthersStay DEF Between
  <1>4. ASSUME NEW k \in Clients, TurnStep(k) \/ (at[k] # "idle" /\ Raise(k)), UNCHANGED socket
        PROVE  Between'
    <2>1. at[k] # "idle"
      BY <1>4, IdleTurns
    <2>. QED
      BY <1>0, <1>4, <2>1, OthersStay DEF Between, socket
  <1>5. ASSUME NEW k \in Clients, NEW m, Send(k, m)
        PROVE  Between'
    BY <1>1, <1>5 DEF Send, allvars, pvars
  <1>6. CASE (Expire /\ UNCHANGED socket) \/ UNCHANGED svars \/ \E k \in Clients : Inside(k)
    BY <1>1, <1>6 DEF Expire, Inside, svars, allvars, pvars, socket
  <1>. QED
    BY <1>2, <1>3, <1>4, <1>5, <1>6 DEF SNext, Serve, Took, Returned

\* What client r does, or the environment.
Acts(r) == \/ HearChunk(r) \/ TurnStep(r) \/ Raise(r) \/ Outside(r)
           \/ \E hasText \in BOOLEAN : BeginText(r, hasText)
           \/ RequestBargeIn \/ Expire

Moved(k) == \/ Took(k) \/ Returned(k) \/ Inside(k) \/ EndRaises(k) \/ Leave(k) \/ Finish(k)
            \/ CleanupFails(k)
            \/ (TurnStep(k) \/ (at[k] # "idle" /\ Raise(k))) /\ UNCHANGED socket

LEMMA SocketSteps ==
    ASSUME [SNext]_svars
    PROVE  \/ \E k \in Clients : Moved(k) \/ \E m \in Messages : Send(k, m)
           \/ (Expire \/ UNCHANGED allvars) /\ UNCHANGED socket
  BY DEF SNext, Serve, Took, Returned, Moved, svars

LEMMA ConnectionActs ==
    ASSUME Placed, Numbered, Between, NEW k \in Clients, Moved(k)
    PROVE  [Acts(k)]_allvars
  <1>1. CASE Took(k)
    <2>1. at[k] = "idle"
      BY <1>1 DEF Took, Take, Free, TakeText, TakeBlank, TakeAudio, TakeBargeIn, TakeEnd,
                  TakeDisconnect
    <2>2. CASE TakeEnd(k)
      BY <2>1, <2>2 DEF TakeEnd, Outside, pvars, Acts
    <2>3. CASE TakeText(k) \/ TakeBlank(k) \/ TakeAudio(k) \/ TakeBargeIn(k) \/ TakeDisconnect(k)
      BY <2>3 DEF TakeText, TakeBlank, TakeAudio, TakeBargeIn, TakeDisconnect, Acts
    <2>. QED
      BY <1>1, <2>2, <2>3 DEF Took
  <1>2. CASE Returned(k) \/ Inside(k)
    <2>1. at[k] = "idle" /\ Step(k) /\ UNCHANGED pvars
      BY <1>2 DEF Returned, EndReturns, Read, Finished, Back, Inside, Between
    <2>. QED
      BY <2>1 DEF Acts, Outside, pvars
  <1>3. CASE Leave(k) \/ Finish(k)
    <2>1. at[k] = "idle"
      BY <1>3 DEF Leave, Finish, Between
    <2>. QED
      BY <1>3, <2>1 DEF Leave, Finish, Acts, Outside, pvars
  <1>4. CASE EndRaises(k) \/ CleanupFails(k)
    <2>1. at[k] = "idle" /\ Fail(k) /\ UNCHANGED pvars
      BY <1>4 DEF EndRaises, CleanupFails, Between
    <2>2. num[k] = 0
      BY <2>1 DEF Numbered, TurnFree
    <2>3. Over(k)
      BY <2>1, <2>2 DEF Over, Placed, pvars
    <2>. QED
      BY <2>1, <2>3 DEF Acts, Raise, pvars
  <1>5. CASE TurnStep(k) \/ Raise(k)
    BY <1>5 DEF Acts
  <1>. QED
    BY <1>1, <1>2, <1>3, <1>4, <1>5 DEF Moved

LEMMA PipelineStep ==
    ASSUME Placed, Numbered, Between, [SNext]_svars
    PROVE  [PNext]_allvars
  <1>1. ASSUME NEW k \in Clients, Moved(k)
        PROVE  [PNext]_allvars
    BY <1>1, ConnectionActs DEF Acts, PNext, Talk
  <1>2. ASSUME NEW k \in Clients, NEW m, Send(k, m)
        PROVE  UNCHANGED allvars
    BY <1>2 DEF Send
  <1>. QED
    BY <1>1, <1>2, SocketSteps DEF PNext, Talk

-----------------------------------------------------------------------------
(* Any connections.                                                         *)

SInv == PInv /\ Books /\ Between

LEMMA SocketStarts == SInit => SInv
  <1>. SUFFICES ASSUME SInit PROVE SInv
    OBVIOUS
  <1>1. PInit
    BY DEF SInit
  <1>2. Books
    BY SocketAssumption DEF SInit, Books, Queues, Conns
  <1>3. Between
    BY DEF SInit, Between
  <1>. QED
    BY <1>1, <1>2, <1>3, PipelineStarts DEF SInv

LEMMA SocketKeeps == SInv /\ [SNext]_svars => SInv'
  <1>. SUFFICES ASSUME SInv, [SNext]_svars PROVE SInv'
    OBVIOUS
  <1>1. [PNext]_allvars
    BY PipelineStep DEF SInv, PInv
  <1>. QED
    BY <1>1, PipelineKeeps, BooksStep, BetweenStep DEF SInv, PInv

\* What every step of every connection keeps.
LEMMA SocketInvariance == SSpec => []SInv
  BY SocketStarts, SocketKeeps, PTL DEF SSpec

\* The voice sockets use handle_user_text, handle_audio_chunk, the barge-in
\* flag and the session manager only as ConversationPipeline's clients do: its
\* theorems hold of any number of connections.
THEOREM SocketsArePipeline == SSpec => PSpec
  <1>1. SInit => PInit
    BY DEF SInit
  <1>2. SInv /\ [SNext]_svars => [PNext]_allvars
    BY PipelineStep DEF SInv, PInv
  <1>. QED
    BY <1>1, <1>2, SocketInvariance, PTL DEF SSpec, PSpec

\* Each connection is in one of the places voice_ws has, with messages before
\* it, whatever the clients send.
THEOREM SocketTypeCorrect == SSpec => []STypeOK
  <1>1. SInv => STypeOK
    BY DEF SInv, Books, Queues, STypeOK, PInv, Placed, Marked, PTypeOK
  <1>. QED
    BY <1>1, SocketInvariance, PTL

-----------------------------------------------------------------------------
(* One connection talks.                                                    *)

\* All others only ever interrupt.
Talks(t) == t \in Clients /\ \A k \in Clients \ {t} : Sends[k] \subseteq {"barge_in"}

\* So they never leave their loops.
OthersIdle(t) ==
    \A k \in Clients \ {t} :
        conn[k] = "open" /\ at[k] = "idle" /\ pc[k] = "idle" /\ inbox[k] \in Seq({"barge_in"})

LEMMA ActsApart ==
    ASSUME TypeOK, Placed, NEW r \in Clients, NEW q \in Clients \ {r}, [Acts(r)]_allvars
    PROVE  pc'[q] = pc[q] /\ at'[q] = at[q]
  <1>1. ASSUME Step(r) \/ Fail(r) \/ (\E kind : StartGet(r, kind)) \/ \E l : StartTurn(r, l)
        PROVE  pc'[q] = pc[q]
    BY <1>1, StepCalls, FailCalls, StartCalls
  <1>2. ASSUME NEW l, Move(r, l) \/ Over(r)
        PROVE  at'[q] = at[q]
    BY <1>2 DEF Move, Over, Placed
  <1>3. ASSUME NEW hasText, Begin(r, hasText)
        PROVE  pc'[q] = pc[q] /\ at'[q] = at[q]
    BY <1>2, <1>3 DEF Begin, vars, Placed
  <1>4. CASE Call(r) \/ Await(r) \/ Outside(r)
    BY <1>1, <1>4 DEF Call, Await, Outside, pvars
  <1>5. CASE \/ HearGet(r) \/ TurnGet(r) \/ TurnUser(r) \/ TurnReply(r) \/ HandoffGet(r)
             \/ HandoffTurn(r) \/ HandoffEnd(r) \/ HandoffFresh(r)
    <2>1. Step(r) /\ (Over(r) \/ \E l : Move(r, l))
      BY <1>5 DEF HearGet, TurnGet, TurnUser, TurnReply, HandoffGet, HandoffTurn, HandoffEnd,
                  HandoffFresh, Returns, Added
    <2>. QED
      BY <1>1, <1>2, <2>1
  <1>6. CASE \/ HearChunk(r) \/ HearNothing(r) \/ TurnAgent(r) \/ TurnCheck(r) \/ TurnTts(r)
             \/ HandoffGive(r) \/ HandoffTts(r)
    <2>1. UNCHANGED vars /\ (Over(r) \/ \E l : Move(r, l))
      BY <1>6 DEF HearChunk, HearNothing, TurnAgent, TurnCheck, TurnTts, HandoffGive, HandoffTts
    <2>. QED
      BY <1>2, <2>1 DEF vars
  <1>7. CASE Raise(r)
    BY <1>1, <1>2, <1>7 DEF Raise, vars
  <1>8. CASE RequestBargeIn \/ Expire \/ UNCHANGED allvars
    BY <1>8 DEF RequestBargeIn, Expire, ExpireSession, local, allvars, pvars, vars
  <1>. QED
    BY <1>3, <1>4, <1>5, <1>6, <1>7, <1>8 DEF Acts, TurnStep, BeginText, HearFinal

\* The others' connections stay where they are, and what is done is done by t
\* or is an interruption.
LEMMA TalkerActs ==
    ASSUME NEW t, Talks(t), TypeOK, Placed, Numbered, Books, Between, OthersIdle(t), [SNext]_svars
    PROVE  OthersIdle(t)' /\ [Acts(t)]_allvars
  <1>. t \in Clients /\ Queues
    BY DEF Talks, Books
  <1>1. ASSUME NEW k \in Clients \ {t}, Moved(k)
        PROVE  TakeBargeIn(k)
    <2>1. conn[k] = "open" /\ at[k] = "idle" /\ pc[k] = "idle" /\ inbox[k] \in Seq({"barge_in"})
      BY DEF OthersIdle
    <2>2. ~TurnStep(k)
      BY <2>1, IdleTurns
    <2>3. Took(k)
      BY <1>1, <2>1, <2>2 DEF Moved, Returned, EndReturns, Read, Finished, Back, Inside, EndRaises,
                              Leave, Finish, CleanupFails
    <2>4. inbox[k] # <<>> => Head(inbox[k]) = "barge_in"
      BY <2>1
    <2>. QED
      BY <2>3, <2>4 DEF Took, Take, TakeText, TakeBlank, TakeAudio, TakeEnd, TakeDisconnect
  <1>2. ASSUME NEW k \in Clients \ {t}, TakeBargeIn(k)
        PROVE  OthersIdle(t)' /\ Acts(t)
    <2>1. UNCHANGED <<conn, at, pc>> /\ inbox' = [inbox EXCEPT ![k] = Tail(@)] /\ inbox[k] # <<>>
      BY <1>2 DEF TakeBargeIn, Take, RequestBargeIn, vars
    <2>2. ASSUME NEW q \in Clients \ {t}
          PROVE  inbox'[q] \in Seq({"barge_in"})
      <3>1. inbox[q] \in Seq({"barge_in"})
        BY DEF OthersIdle
      <3>. QED
        BY <2>1, <3>1 DEF Queues
    <2>. QED
      BY <1>2, <2>1, <2>2 DEF OthersIdle, Acts, TakeBargeIn
  <1>3. ASSUME Moved(t)
        PROVE  OthersIdle(t)' /\ [Acts(t)]_allvars
    <2>1. [Acts(t)]_allvars
      BY <1>3, ConnectionActs
    <2>2. ASSUME NEW q \in Clients \ {t}
          PROVE  pc'[q] = pc[q] /\ at'[q] = at[q]
      BY <2>1, ActsApart
    <2>3. ASSUME NEW q \in Clients \ {t}
          PROVE  conn'[q] = conn[q]
      BY <1>3, OthersStay DEF Moved, Inside, socket
    <2>4. ASSUME NEW q \in Clients \ {t}
          PROVE  inbox'[q] = inbox[q]
      BY <1>3 DEF Moved, Inside, socket, Took, Take, TakeText, TakeBlank, TakeAudio, TakeBargeIn,
                  TakeEnd, TakeDisconnect, Returned, EndReturns, Read, Finished, Back, EndRaises,
                  Leave, Finish, CleanupFails, Queues
    <2>. QED
      BY <2>1, <2>2, <2>3, <2>4 DEF OthersIdle
  <1>4. ASSUME NEW k \in Clients, NEW m \in Messages, Send(k, m)
        PROVE  OthersIdle(t)' /\ UNCHANGED allvars
    <2>1. ASSUME NEW q \in Clients \ {t}
          PROVE  inbox'[q] \in Seq({"barge_in"})
      <3>1. inbox[q] \in Seq({"barge_in"}) /\ (q = k => m = "barge_in")
        BY <1>4 DEF OthersIdle, Talks, Send
      <3>. QED
        BY <1>4, <3>1 DEF Send, Queues
    <2>2. UNCHANGED <<conn, at, pc>>
      BY <1>4 DEF Send, allvars, pvars, vars
    <2>. QED
      BY <1>4, <2>1, <2>2 DEF OthersIdle, Send
  <1>5. ASSUME (Expire \/ UNCHANGED allvars) /\ UNCHANGED socket
        PROVE  OthersIdle(t)' /\ [Acts(t)]_allvars
    BY <1>5 DEF Expire, ExpireSession, local, allvars, pvars, vars, socket, OthersIdle, Acts
  <1>. QED
    BY <1>1, <1>2, <1>3, <1>4, <1>5, SocketSteps

TalkerInv(t) == SInv /\ OthersIdle(t)

LEMMA TalkerStarts ==
    ASSUME NEW t, Talks(t), SInit
    PROVE  OthersIdle(t)
  BY DEF SInit, PInit, OthersIdle

LEMMA TalkerKeeps ==
    ASSUME NEW t, Talks(t), TalkerInv(t), [SNext]_svars
    PROVE  TalkerInv(t)' /\ [Acts(t)]_allvars
  BY TalkerActs, SocketKeeps DEF TalkerInv, SInv, PInv

-----------------------------------------------------------------------------
(* A turn that was interrupted is silent.                                   *)

Heeds(t) == /\ num[t] # 0 /\ num[t] \in asked => flag
            /\ \A n \in asked : n <= begun
            /\ InterruptedIsSilent

LEMMA HeedsStep ==
    ASSUME NEW t \in Clients, Placed, Marked, Numbered, Heard, Heeds(t), Acts(t)
    PROVE  Heeds(t)'
  <1>. USE DEF Heeds, InterruptedIsSilent
  <1>0. /\ num[t] # 0 => (num[t] \notin spoken) /\ (num[t] \in handed <=> at[t] = "h_tts")
        /\ begun \in Nat /\ \A r \in Clients : num[r] \in Nat /\ num[r] <= begun
        /\ \A r \in Clients : num[r] # 0 => num[r] \notin spoken
    BY PipelineAssumption DEF Heard, OnRecord, Placed, Numbered
  <1>1. ASSUME NEW l, Move(t, l), UNCHANGED <<flag, begun, asked, spoken>>, handed \subseteq handed'
        PROVE  Heeds(t)'
    BY <1>1 DEF Move
  <1>2. ASSUME Over(t), UNCHANGED <<begun, asked>>, handed \subseteq handed',
               \/ spoken' = spoken
               \/ spoken' = spoken \cup {num[t]} /\ (num[t] \in asked => num[t] \in handed)
        PROVE  Heeds(t)'
    BY <1>2 DEF Over, Placed
  <1>3. ASSUME NEW hasText, Begin(t, hasText)
        PROVE  Heeds(t)'
    <2>1. CASE hasText
      <3>1. /\ num'[t] = begun + 1 /\ begun' = begun + 1
            /\ UNCHANGED <<asked, spoken, handed>>
        BY <1>3, <2>1 DEF Begin, heard, Placed
      <3>2. \A n \in asked : n \in Nat /\ n <= begun
        BY DEF Marked
      <3>3. \A n \in asked : n <= begun' /\ n # begun + 1
        BY <1>0, <3>1, <3>2
      <3>. QED
        BY <3>1, <3>3
    <2>2. CASE ~hasText
      BY <1>2, <1>3, <2>2 DEF Begin, heard
    <2>. QED
      BY <2>1, <2>2
  <1>4. CASE Call(t) \/ Await(t) \/ Outside(t)
    <2>1. UNCHANGED <<num, begun, heard>> /\ (at[t] = "idle" \/ flag' = flag)
      BY <1>4 DEF Call, Await, Outside, pvars
    <2>2. at[t] = "idle" => num[t] = 0
      BY DEF Numbered, TurnFree
    <2>. QED
      BY <2>1, <2>2 DEF heard
  <1>5. CASE \/ HearChunk(t) \/ HearGet(t) \/ HearNothing(t) \/ TurnGet(t) \/ TurnUser(t)
             \/ TurnAgent(t) \/ TurnReply(t) \/ HandoffGet(t) \/ HandoffTurn(t) \/ HandoffEnd(t)
             \/ HandoffFresh(t) \/ Raise(t)
    <2>1. (Over(t) \/ \E l : Move(t, l)) /\ UNCHANGED <<flag, begun, heard>>
      BY <1>5 DEF HearChunk, HearGet, HearNothing, TurnGet, TurnUser, TurnAgent, TurnReply,
                  HandoffGet, HandoffTurn, HandoffEnd, HandoffFresh, Raise, Added
    <2>. QED
      BY <1>1, <1>2, <2>1 DEF heard
  <1>6. CASE TurnCheck(t)
    <2>1. CASE flag
      BY <1>2, <1>6, <2>1 DEF TurnCheck
    <2>2. CASE ~flag
      BY <1>6, <2>2 DEF TurnCheck, Move
    <2>. QED
      BY <2>1, <2>2
  <1>7. CASE TurnTts(t)
    <2>1. num[t] # 0
      BY <1>7 DEF TurnTts, Numbered, TurnFree
    <2>. QED
      BY <1>2, <1>7, <2>1 DEF TurnTts
  <1>8. CASE HandoffGive(t)
    BY <1>1, <1>8 DEF HandoffGive
  <1>9. CASE HandoffTts(t)
    <2>1. num[t] # 0
      BY <1>9 DEF HandoffTts, Numbered, TurnFree
    <2>. QED
      BY <1>0, <1>2, <1>9, <2>1 DEF HandoffTts
  <1>10. CASE RequestBargeIn
    <2>1. /\ flag' = TRUE /\ UNCHANGED <<num, begun, spoken, handed>>
          /\ asked' = asked \cup {num[r] : r \in {q \in Clients : num[q] # 0}}
      BY <1>10 DEF RequestBargeIn
    <2>2. ASSUME NEW n \in asked'
          PROVE  n <= begun /\ (n \in spoken => n \in handed)
      BY <1>0, <2>1, <2>2
    <2>. QED
      BY <2>1, <2>2
  <1>11. CASE Expire
    BY <1>11 DEF Expire, pvars, heard
  <1>. QED
    BY <1>3, <1>4, <1>5, <1>6, <1>7, <1>8, <1>9, <1>10, <1>11 DEF Acts, TurnStep, BeginText, HearFinal

\* Of one talking connection, with any number of interrupting ones: a turn that
\* was interrupted before its audio was ready is spoken only if it is the
\* hand-off message.
THEOREM Interrupted ==
    ASSUME NEW t, Talks(t)
    PROVE  SSpec => []InterruptedIsSilent
  <1>1. SInit => TalkerInv(t) /\ Heeds(t)
    <2>1. SInit => Heeds(t)
      BY DEF SInit, PInit, Heeds, InterruptedIsSilent
    <2>. QED
      BY <2>1, SocketStarts, TalkerStarts DEF TalkerInv
  <1>2. TalkerInv(t) /\ Heeds(t) /\ [SNext]_svars => TalkerInv(t)' /\ Heeds(t)'
    <2>. SUFFICES ASSUME TalkerInv(t), Heeds(t), [SNext]_svars
                  PROVE  TalkerInv(t)' /\ Heeds(t)'
      OBVIOUS
    <2>1. TalkerInv(t)' /\ [Acts(t)]_allvars
      BY TalkerKeeps
    <2>2. CASE Acts(t)
      BY <2>1, <2>2, HeedsStep DEF Talks, TalkerInv, SInv, PInv
    <2>3. CASE UNCHANGED allvars
      BY <2>1, <2>3 DEF allvars, pvars, heard, vars, Heeds, InterruptedIsSilent
    <2>. QED
      BY <2>1, <2>2, <2>3
  <1>3. Heeds(t) => InterruptedIsSilent
    BY DEF Heeds
  <1>. QED
    BY <1>1, <1>2, <1>3, PTL DEF SSpec

-----------------------------------------------------------------------------
(* What the caller hears stays on record.                                   *)

\* In the session manager, t is the only one at work.
LEMMA TalkerStores ==
    ASSUME NEW t \in Clients, Placed, Numbered, [Acts(t)]_allvars
    PROVE  Start(t) \/ Step(t) \/ Fail(t) \/ ExpireSession \/ UNCHANGED vars
  <1>1. ASSUME NEW kind, StartGet(t, kind)
        PROVE  Start(t)
    BY <1>1, StoreAssumption DEF Start, StartGet
  <1>2. CASE Call(t)
    BY <1>1, <1>2, LinesAreTurns DEF Call, Start
  <1>3. CASE \/ Await(t) \/ HearGet(t) \/ TurnGet(t) \/ TurnUser(t) \/ TurnReply(t) \/ HandoffGet(t)
             \/ HandoffTurn(t) \/ HandoffEnd(t) \/ HandoffFresh(t)
    BY <1>3 DEF Await, HearGet, TurnGet, TurnUser, TurnReply, HandoffGet, HandoffTurn,
                HandoffEnd, HandoffFresh, Returns
  <1>4. CASE \/ HearChunk(t) \/ HearNothing(t) \/ TurnAgent(t) \/ TurnCheck(t) \/ TurnTts(t)
             \/ HandoffGive(t) \/ HandoffTts(t)
    BY <1>4 DEF HearChunk, HearNothing, TurnAgent, TurnCheck, TurnTts, HandoffGive, HandoffTts
  <1>5. ASSUME NEW hasText, Begin(t, hasText)
        PROVE  UNCHANGED vars
    BY <1>5 DEF Begin
  <1>6. CASE Outside(t) \/ Raise(t)
    BY <1>1, <1>6 DEF Outside, Raise
  <1>7. CASE RequestBargeIn \/ Expire \/ UNCHANGED allvars
    BY <1>7 DEF RequestBargeIn, Expire, allvars
  <1>. QED
    BY <1>2, <1>3, <1>4, <1>5, <1>6, <1>7 DEF Acts, TurnStep, BeginText, HearFinal

LEMMA SoloStarts ==
    ASSUME NEW t \in Clients, PInit
    PROVE  Solo(t)
  <1>1. Fresh \in Session /\ Leads(Fresh, Fresh)
    BY ValuesTyped, LeadsReflexive DEF Fresh, Known, Statuses
  <1>. QED
    BY <1>1, AbsentOrFresh DEF PInit, Solo, CacheLed, CopyLed, CopyFresh, TurnHeld, Committing,
       AckedIsDurable, Known, Fresh, Statuses, Exists

LEMMA TalkerSolo ==
    ASSUME NEW t, Talks(t), TalkerInv(t), Solo(t), [SNext]_svars
    PROVE  Solo(t)'
  BY TalkerKeeps, TalkerStores, AloneSolo DEF Talks, TalkerInv, SInv, PInv

\* Of one talking connection, with any number of interrupting ones: the words
\* and the reply, or the hand-off message, that were spoken are in the row for
\* good, although saves fail half-way and Redis loses its keys.
THEOREM SpokenStaysRecorded ==
    ASSUME NEW t, Talks(t)
    PROVE  SSpec => []SpokenIsRecorded
  <1>1. SInit => TalkerInv(t) /\ Solo(t)
    BY SocketStarts, TalkerStarts, SoloStarts DEF TalkerInv, SInit, Talks
  <1>2. TalkerInv(t) /\ Solo(t) /\ [SNext]_svars => TalkerInv(t)' /\ Solo(t)'
    BY TalkerKeeps, TalkerSolo
  <1>3. TalkerInv(t) /\ Solo(t) => SpokenIsRecorded
    <2>. SUFFICES ASSUME TalkerInv(t), Solo(t), NEW n \in spoken
                  PROVE  /\ "user" \in RolesOf(row.turns, n)
                         /\ RolesOf(row.turns, n) \cap {"assistant", "handoff"} # {}
      BY DEF SpokenIsRecorded
    <2>1. /\ "user" \in RolesOf(acked, n)
          /\ "assistant" \in RolesOf(acked, n) \/ "handoff" \in RolesOf(acked, n)
      BY DEF TalkerInv, SInv, PInv, Heard, HeardIsAcknowledged
    <2>2. RolesOf(acked, n) \subseteq RolesOf(row.turns, n)
      BY DEF Solo, AckedIsDurable, RolesOf
    <2>. QED
      BY <2>1, <2>2
  <1>. QED
    BY <1>1, <1>2, <1>3, PTL DEF SSpec

-----------------------------------------------------------------------------
(* A session is handed over once.                                           *)

Getting == {"g_cache", "g_row", "g_fill"}
Storing == {"s_cache", "p_load", "p_commit"}

\* The call that each stage of a turn makes, and how far it can have come.
Doing(t) ==
    /\ at[t] \in Reads /\ pc[t] # "idle" => op[t] = "get" /\ pc[t] \in Getting
    /\ at[t] \in DOMAIN RoleAt /\ pc[t] # "idle" => op[t] = "turn" /\ pc[t] \in Getting \cup Storing
    /\ at[t] = "h_end" /\ pc[t] # "idle" => /\ op[t] = "handoff"
                                           /\ pc[t] \in Getting \cup Storing \cup {"e_delete"}

\* Whatever t reads next, and the copy it holds, is active.
Lively(t) == /\ row.status = "active" /\ cache.status \in {"active", "absent"}
             /\ loc[t].status \in {"active", "absent"}

\* How far the end of a hand-off has come.
Ending(t) == IF pc[t] \in Storing THEN loc[t].status = "waiting_human"
             ELSE IF pc[t] = "e_delete" THEN row.status = "waiting_human" ELSE Lively(t)

Talking == {"t_user", "t_agent", "t_reply", "t_check", "t_tts", "h_get", "h_turn"}
Giving == {"h_fresh", "h_give", "h_tts"}

Hands(t) ==
    /\ \A m, n \in handed : m = n
    /\ handed # {} \/ at[t] \in Giving => row.status = "waiting_human"
    /\ at[t] \in {"h_end", "h_fresh", "h_give"} => handed = {}
    /\ at[t] \in Talking => Lively(t)
    /\ at[t] = "h_end" => Ending(t)

LEMMA CallPlaces ==
    ASSUME TypeOK, NEW c \in Clients, Step(c), op[c] \in {"get", "turn", "handoff"},
           pc[c] \in Getting \cup Storing \cup {"e_delete"}
    PROVE  /\ pc'[c] # "idle" => op'[c] = op[c] /\ pc'[c] \in Getting \cup Storing \cup {"e_delete"}
           /\ op[c] = "get" /\ pc[c] \in Getting => pc'[c] \in Getting \cup {"idle"}
           /\ op[c] = "turn" /\ pc[c] # "e_delete" => pc'[c] # "e_delete"
  <1>. USE DEF Getting, Storing
  <1>1. ASSUME NEW s, Decide(c, s)
        PROVE  \/ pc'[c] = "idle"
               \/ pc'[c] = "s_cache" /\ op'[c] = op[c] /\ op[c] # "get"
    BY <1>1, DoneAt, GotoAt DEF Decide, DecideGet, DecideTurn, DecideEnd, DecideCallback, TypeOK
  <1>2. CASE GetCache(c)
    BY <1>1, <1>2, GotoAt DEF GetCache
  <1>3. CASE GetFill(c)
    BY <1>1, <1>3 DEF GetFill
  <1>4. CASE GetRow(c) \/ SaveCache(c) \/ PersistLoad(c)
    BY <1>4, GotoAt DEF GetRow, SaveCache, PersistLoad
  <1>5. CASE PersistCommit(c)
    BY <1>5, GotoAt, DoneAt DEF PersistCommit
  <1>6. CASE EndDelete(c)
    BY <1>6, DoneAt DEF EndDelete
  <1>. QED
    BY <1>2, <1>3, <1>4, <1>5, <1>6
       DEF Step, CallLookup, CallSelect, CallBind, CreateCache, CreateBind

\* A get or an add_turn keeps an active session active.
LEMMA LivelyStep ==
    ASSUME TypeOK, NEW c \in Clients, Solo(c), Lively(c), Step(c), op[c] \in {"get", "turn"},
           pc[c] \in Getting \cup Storing
    PROVE  Lively(c)'
  <1>. USE DEF Lively, Getting, Storing
  <1>0. /\ Absent.status = "absent" /\ row \in Session /\ cache \in Session /\ loc[c] \in Session
        /\ \A t \in Turns : \A s \in Session : WithTurn(s, t).status = s.status
    BY DEF Absent, TypeOK, WithTurn, Session
  <1>1. ASSUME NEW s \in Session, s.status = "active", Decide(c, s)
        PROVE  loc'[c].status \in {"active", "absent"}
    <2>1. CASE Done(c)
      BY <1>0, <2>1 DEF Done, Goto, TypeOK
    <2>2. CASE \E t \in turn[c] : Goto(c, "s_cache", WithTurn(s, t))
      BY <1>0, <1>1, <2>2, GotoAt DEF TypeOK
    <2>. QED
      BY <1>1, <2>1, <2>2 DEF Decide, DecideGet, DecideTurn, DecideEnd, DecideCallback
  <1>2. CASE GetCache(c)
    BY <1>0, <1>1, <1>2, GotoAt DEF GetCache, Exists
  <1>3. CASE GetFill(c)
    <2>1. loc[c] = row
      BY <1>3 DEF GetFill, Solo, CopyFresh
    <2>. QED
      BY <1>0, <1>1, <1>3, <2>1 DEF GetFill
  <1>4. CASE GetRow(c) \/ SaveCache(c) \/ PersistLoad(c)
    BY <1>0, <1>4, GotoAt DEF GetRow, SaveCache, PersistLoad
  <1>5. CASE PersistCommit(c)
    <2>1. Merge(row, loaded[c], loc[c]) = loc[c] /\ Exists(loc[c])
      BY <1>5, CommitSolo DEF PersistCommit
    <2>2. loc'[c].status \in {"active", "absent"}
      BY <1>0, <1>5, GotoAt DEF PersistCommit, Done, Goto, TypeOK
    <2>. QED
      BY <1>5, <2>1, <2>2 DEF PersistCommit, Exists
  <1>. QED
    BY <1>2, <1>3, <1>4, <1>5
       DEF Step, CallLookup, CallSelect, CallBind, CreateCache, CreateBind, EndDelete

\* The end of a hand-off that began on an active session has it wait.
LEMMA EndingStep ==
    ASSUME TypeOK, NEW c \in Clients, Solo(c), Ending(c), Step(c), op[c] = "handoff",
           pc[c] \in Getting \cup Storing \cup {"e_delete"}
    PROVE  /\ pc'[c] # "idle" => Ending(c)'
           /\ pc'[c] = "idle" => row'.status = "waiting_human"
  <1>. USE DEF Ending, Lively, Getting, Storing
  <1>0. /\ Absent.status = "absent" /\ row \in Session /\ cache \in Session /\ loc[c] \in Session
        /\ \A s \in Session : Ended(s, "waiting_human").status = "waiting_human"
    BY DEF Absent, TypeOK, Ended, Session
  <1>1. ASSUME NEW s \in Session, s.status = "active", Decide(c, s)
        PROVE  pc'[c] = "s_cache" /\ loc'[c].status = "waiting_human"
    <2>1. Goto(c, "s_cache", Ended(s, "waiting_human"))
      BY <1>1 DEF Decide, DecideGet, DecideTurn, DecideEnd, DecideCallback, EndKept, Target, Terminal
    <2>. QED
      BY <1>0, <2>1, GotoAt
  <1>2. CASE GetCache(c)
    <2>1. CASE Exists(cache)
      BY <1>0, <1>1, <1>2, <2>1 DEF GetCache, Exists
    <2>2. CASE ~Exists(cache)
      BY <1>0, <1>2, <2>2, GotoAt DEF GetCache
    <2>. QED
      BY <2>1, <2>2
  <1>3. CASE GetFill(c)
    <2>1. loc[c] = row
      BY <1>3 DEF GetFill, Solo, CopyFresh
    <2>. QED
      BY <1>0, <1>1, <1>3, <2>1 DEF GetFill
  <1>4. CASE GetRow(c) \/ SaveCache(c) \/ PersistLoad(c)
    BY <1>0, <1>4, GotoAt DEF GetRow, SaveCache, PersistLoad
  <1>5. CASE PersistCommit(c)
    <2>1. Merge(row, loaded[c], loc[c]) = loc[c]
      BY <1>5, CommitSolo DEF PersistCommit
    <2>. QED
      BY <1>0, <1>5, <2>1, GotoAt DEF PersistCommit
  <1>6. CASE EndDelete(c)
    BY <1>6, DoneAt DEF EndDelete
  <1>. QED
    BY <1>2, <1>3, <1>4, <1>5, <1>6
       DEF Step, CallLookup, CallSelect, CallBind, CreateCache, CreateBind

\* With t alone at work, a row that waits for a human goes on waiting.
LEMMA WaitingStays ==
    ASSUME TypeOK, NEW c \in Clients, Solo(c), row.status = "waiting_human",
           Start(c) \/ Step(c) \/ Fail(c) \/ ExpireSession \/ UNCHANGED vars
    PROVE  row'.status = "waiting_human"
  <1>1. row' = row \/ (pc[c] = "p_commit" /\ row' = Merge(row, loaded[c], loc[c]))
    BY DEF Start, StartCreate, StartCallback, StartGet, StartTurn, Fail, Step, GetCache, GetRow,
       GetFill, CallLookup, CallSelect, CallBind, SaveCache, PersistLoad, PersistCommit, EndDelete,
       CreateCache, CreateBind, ExpireSession, vars
  <1>2. CASE pc[c] = "p_commit" /\ row' = Merge(row, loaded[c], loc[c])
    <2>1. row' = loc[c] /\ Leads(row, loc[c])
      BY <1>2, CommitSolo DEF Exists
    <2>. QED
      BY <2>1 DEF Leads, Lifecycle!Leads, Lifecycle!Terminal
  <1>. QED
    BY <1>1, <1>2

\* Where a step of t leaves its turn: at the same stage, at another one with
\* no call under way, or nowhere.
LEMMA TalkerStages ==
    ASSUME TypeOK, Placed, Calling, NEW t \in Clients, Acts(t)
    PROVE  \/ Call(t) \/ Await(t)
           \/ Outside(t) /\ at[t] = "idle" /\ at' = at
           \/ (RequestBargeIn \/ Expire) /\ UNCHANGED <<at, pc, op>>
           \/ pc'[t] = "idle" /\ \E l : at' = [at EXCEPT ![t] = l]
  <1>1. CASE \/ HearGet(t) \/ TurnGet(t) \/ TurnUser(t) \/ TurnReply(t) \/ HandoffGet(t)
             \/ HandoffTurn(t) \/ HandoffEnd(t) \/ HandoffFresh(t)
    BY <1>1 DEF HearGet, TurnGet, TurnUser, TurnReply, HandoffGet, HandoffTurn, HandoffEnd,
                HandoffFresh, Returns, Added, Over, Move
  <1>2. CASE \/ HearChunk(t) \/ HearNothing(t) \/ TurnAgent(t) \/ TurnCheck(t) \/ TurnTts(t)
             \/ HandoffGive(t) \/ HandoffTts(t)
    <2>1. UNCHANGED pc /\ pc[t] = "idle"
      BY <1>2 DEF HearChunk, HearNothing, TurnAgent, TurnCheck, TurnTts, HandoffGive, HandoffTts,
                  vars, Calling, Asks, Free
    <2>2. \E l : at' = [at EXCEPT ![t] = l]
      BY <1>2 DEF HearChunk, HearNothing, TurnAgent, TurnCheck, TurnTts, HandoffGive, HandoffTts,
                  Over, Move
    <2>. QED
      BY <2>1, <2>2
  <1>3. ASSUME NEW hasText, BeginText(t, hasText) \/ HearFinal(t, hasText)
        PROVE  pc'[t] = "idle" /\ \E l : at' = [at EXCEPT ![t] = l]
    <2>1. UNCHANGED pc /\ pc[t] = "idle"
      BY <1>3 DEF BeginText, HearFinal, Begin, vars, Calling, Asks, Free
    <2>. QED
      BY <1>3, <2>1 DEF BeginText, HearFinal, Begin, Over
  <1>4. CASE Raise(t)
    <2>1. pc'[t] = "idle"
      BY <1>4, FailCalls DEF Raise, vars, Calling
    <2>. QED
      BY <1>4, <2>1 DEF Raise, Over
  <1>5. CASE Outside(t) \/ RequestBargeIn \/ Expire
    BY <1>5 DEF Outside, RequestBargeIn, Expire, ExpireSession, local, vars, pvars
  <1>. QED
    BY <1>1, <1>2, <1>3, <1>4, <1>5 DEF Acts, TurnStep

\* A stage at which a call is under way.
LEMMA StagesCall ==
    ASSUME Placed, Calling, NEW t \in Clients, at[t] # "idle", pc[t] # "idle"
    PROVE  at[t] \in Reads \/ at[t] \in DOMAIN RoleAt \/ at[t] = "h_end"
  BY DEF Placed, Calling, Stages

LEMMA DoingStep ==
    ASSUME TypeOK, Placed, Calling, NEW t \in Clients, Doing(t), Acts(t)
    PROVE  Doing(t)'
  <1>. USE DEF Doing
  <1>1. CASE Call(t)
    <2>1. /\ pc'[t] = "g_cache" /\ at' = at /\ "g_cache" \in Getting
          /\ at[t] \in Reads => op'[t] = "get"
          /\ at[t] \in DOMAIN RoleAt => op'[t] = "turn"
          /\ at[t] = "h_end" => op'[t] = "handoff"
      BY <1>1, GotoAt, RoleStages DEF Call, StartGet, StartTurn, TypeOK, pvars, Getting, Reads
    <2>. QED
      BY <2>1, RoleStages DEF Reads
  <1>2. CASE Await(t)
    <2>1. at[t] # "idle" /\ pc[t] # "idle" /\ Step(t) /\ at' = at
      BY <1>2, StepCalls DEF Await, pvars
    <2>2. /\ op[t] \in {"get", "turn", "handoff"}
          /\ pc[t] \in Getting \cup Storing \cup {"e_delete"}
      BY <2>1, StagesCall
    <2>3. pc'[t] # "idle"
      BY <1>2 DEF Await
    <2>. QED
      BY <2>1, <2>2, <2>3, CallPlaces, RoleStages DEF Getting, Storing, Reads
  <1>3. CASE UNCHANGED <<at, pc, op>>
    BY <1>3
  <1>4. CASE at[t] = "idle" /\ at' = at
    BY <1>4, RoleStages DEF Reads
  <1>5. CASE pc'[t] = "idle"
    BY <1>5
  <1>. QED
    BY <1>1, <1>2, <1>3, <1>4, <1>5, TalkerStages

LEMMA HandsStep ==
    ASSUME TypeOK, Placed, Numbered, Calling, NEW t \in Clients, Solo(t), Doing(t), Hands(t), Acts(t)
    PROVE  Hands(t)'
  <1>. USE DEF Hands, Talking, Giving
  <1>0. row.status = "waiting_human" => row'.status = "waiting_human"
    <2>1. Start(t) \/ Step(t) \/ Fail(t) \/ ExpireSession \/ UNCHANGED vars
      BY TalkerStores DEF Acts
    <2>. QED
      BY <2>1, WaitingStays
  <1>1. /\ \A l : Move(t, l) => at'[t] = l
        /\ Over(t) => at'[t] = "idle"
    BY DEF Move, Over, Placed
  <1>2. Lively(t) => handed = {}
    BY DEF Lively
  <1>3. ASSUME Over(t), handed' = handed
        PROVE  Hands(t)'
    BY <1>0, <1>1, <1>3
  \* A call that returns at an active session.
  <1>4. ASSUME at[t] \in {"t_user", "t_reply", "h_get", "h_turn"}, Step(t)
        PROVE  Lively(t)'
    <2>1. /\ op[t] \in {"get", "turn"} /\ pc[t] \in Getting \cup Storing
      BY <1>4, StepCalls, RoleStages DEF Doing, Reads
    <2>. QED
      BY <1>4, <2>1, LivelyStep
  <1>5. ASSUME NEW l \in {"t_agent", "h_get", "t_check", "h_turn", "h_end"}, Move(t, l), pc'[t] = "idle",
               handed' = handed, at[t] \in {"t_user", "t_reply", "h_get", "h_turn"}, Step(t)
        PROVE  Hands(t)'
    <2>1. Lively(t)' /\ handed' = {} /\ at'[t] = l
      BY <1>1, <1>2, <1>4, <1>5
    <2>2. Ending(t)'
      BY <1>5, <2>1 DEF Ending, Storing
    <2>. QED
      BY <2>1, <2>2
  <1>6. CASE Call(t)
    <2>1. /\ UNCHANGED <<row, cache, at, handed>> /\ pc'[t] = "g_cache" /\ loc'[t] = Absent
          /\ pc[t] = "idle"
      BY <1>6, GotoAt DEF Call, StartGet, StartTurn, pvars, heard
    <2>. QED
      BY <2>1 DEF Lively, Ending, Storing, Absent
  <1>7. CASE Await(t)
    <2>1. /\ at[t] # "idle" /\ pc[t] # "idle" /\ pc'[t] # "idle" /\ Step(t) /\ at' = at
          /\ handed' = handed
      BY <1>7, StepCalls DEF Await, pvars, heard
    <2>2. at[t] \in Talking => Lively(t)'
      BY <1>4, <2>1, StagesCall, RoleStages DEF Reads
    <2>3. ASSUME at[t] = "h_end"
          PROVE  Ending(t)'
      BY <2>1, <2>3, EndingStep DEF Doing
    <2>. QED
      BY <1>0, <2>1, <2>2, <2>3
  <1>8. CASE Outside(t)
    BY <1>0, <1>8 DEF Outside, heard
  <1>9. CASE HearGet(t) \/ HearChunk(t) \/ HearNothing(t) \/ Raise(t) \/ TurnTts(t) \/ HandoffTts(t)
    <2>1. handed' = handed /\ (Over(t) \/ \E l \in {"a_get", "a_stt"} : Move(t, l))
      BY <1>9 DEF HearGet, HearChunk, HearNothing, Raise, TurnTts, HandoffTts, heard
    <2>. QED
      BY <1>0, <1>1, <1>3, <2>1
  <1>10. ASSUME NEW hasText, Begin(t, hasText)
         PROVE  Hands(t)'
    <2>1. handed' = handed /\ row' = row /\ at'[t] \in {"t_get", "idle"}
      BY <1>1, <1>10 DEF Begin, heard, vars, Placed
    <2>. QED
      BY <2>1
  <1>11. CASE TurnGet(t)
    <2>1. /\ at[t] = "t_get" /\ Step(t) /\ pc'[t] = "idle" /\ handed' = handed
          /\ op[t] = "get" /\ pc[t] \in Getting
      BY <1>11, StepCalls DEF TurnGet, Returns, heard, Doing, Reads
    <2>2. CASE Over(t)
      BY <1>3, <2>1, <2>2
    <2>3. CASE Given(t).status = "active" /\ Move(t, "t_user")
      <3>1. GetCache(t) \/ GetFill(t)
        BY <2>1, GotoAt DEF Step, GetRow, CallLookup, CallSelect, CallBind, CreateCache, CreateBind,
                            SaveCache, PersistLoad, PersistCommit, EndDelete, Getting
      <3>2. loc'[t].status = "absent" /\ row' = row
        <4>1. Done(t)
          BY <2>1, <3>1, GotoAt DEF GetCache, GetFill, Decide, DecideGet, DecideTurn, DecideEnd,
                                   DecideCallback
        <4>. QED
          BY <3>1, <4>1 DEF Done, Goto, TypeOK, Absent, GetCache, GetFill
      <3>3. row.status = "active" /\ cache'.status = "active"
        <4>1. CASE GetCache(t)
          <5>1. cache.status = "active" /\ cache' = cache
            BY <2>3, <4>1 DEF GetCache, Given
          <5>2. Leads(row, cache)
            BY <5>1 DEF Solo, CacheLed, Exists
          <5>. QED
            BY <5>1, <5>2 DEF Leads, Lifecycle!Leads, Lifecycle!Terminal
        <4>2. CASE GetFill(t)
          BY <2>3, <4>2 DEF GetFill, Given, Solo, CopyFresh
        <4>. QED
          BY <3>1, <4>1, <4>2
      <3>. QED
        BY <1>1, <2>1, <2>3, <3>2, <3>3 DEF Lively
    <2>. QED
      BY <1>11, <2>2, <2>3 DEF TurnGet
  <1>12. CASE TurnUser(t) \/ TurnReply(t) \/ HandoffTurn(t) \/ HandoffGet(t)
    <2>1. /\ at[t] \in {"t_user", "t_reply", "h_get", "h_turn"} /\ Step(t) /\ pc'[t] = "idle"
          /\ handed' = handed
      BY <1>12 DEF TurnUser, TurnReply, HandoffTurn, HandoffGet, Returns, heard
    <2>2. Over(t) \/ \E l \in {"t_agent", "h_get", "t_check", "h_turn", "h_end"} : Move(t, l)
      BY <1>12 DEF TurnUser, TurnReply, HandoffTurn, HandoffGet, Added
    <2>. QED
      BY <1>3, <1>5, <2>1, <2>2
  <1>13. CASE TurnAgent(t)
    <2>1. \E l \in {"h_get", "t_reply"} : Move(t, l)
      BY <1>13 DEF TurnAgent
    <2>. QED
      BY <1>1, <1>2, <1>13, <2>1 DEF TurnAgent, vars, heard, Lively
  <1>14. CASE TurnCheck(t)
    <2>1. CASE flag
      BY <1>3, <1>14, <2>1 DEF TurnCheck
    <2>2. CASE ~flag
      BY <1>1, <1>2, <1>14, <2>2 DEF TurnCheck, vars, Lively
    <2>. QED
      BY <2>1, <2>2
  <1>15. CASE HandoffEnd(t)
    <2>1. at[t] = "h_end" /\ Step(t) /\ pc'[t] = "idle" /\ handed' = handed
      BY <1>15 DEF HandoffEnd, Returns, heard
    <2>2. row'.status = "waiting_human"
      BY <2>1, EndingStep, StepCalls DEF Doing
    <2>3. at'[t] \in {"h_fresh", "h_give"}
      BY <1>1, <1>15 DEF HandoffEnd
    <2>. QED
      BY <2>1, <2>2, <2>3
  <1>16. CASE HandoffFresh(t)
    <2>1. at'[t] = "h_give" /\ at[t] = "h_fresh" /\ handed' = handed
      BY <1>1, <1>16 DEF HandoffFresh, Returns, heard
    <2>. QED
      BY <1>0, <2>1
  <1>17. CASE HandoffGive(t)
    <2>1. at'[t] = "h_tts" /\ at[t] = "h_give" /\ handed' = handed \cup {num[t]}
      BY <1>1, <1>17 DEF HandoffGive
    <2>. QED
      BY <1>0, <2>1
  <1>18. CASE RequestBargeIn
    BY <1>18 DEF RequestBargeIn, vars, Lively, Ending
  <1>19. CASE Expire
    BY <1>19 DEF Expire, ExpireSession, local, pvars, heard, Lively, Ending, Absent
  <1>. QED
    BY <1>6, <1>7, <1>8, <1>9, <1>10, <1>11, <1>12, <1>13, <1>14, <1>15, <1>16, <1>17, <1>18, <1>19
       DEF Acts, TurnStep, BeginText, HearFinal

HandInv(t) == Solo(t) /\ Doing(t) /\ Hands(t)

LEMMA HandStarts ==
    ASSUME NEW t \in Clients, PInit
    PROVE  HandInv(t)
  <1>1. Doing(t) /\ Hands(t)
    BY RoleStages DEF PInit, Doing, Hands, Talking, Giving, Reads
  <1>. QED
    BY <1>1, SoloStarts DEF HandInv

LEMMA HandKeeps ==
    ASSUME NEW t, Talks(t), TalkerInv(t), HandInv(t), [SNext]_svars
    PROVE  HandInv(t)'
  <1>0. /\ t \in Clients /\ TypeOK /\ Placed /\ Numbered /\ Calling
        /\ Solo(t) /\ Doing(t) /\ Hands(t)
    BY DEF Talks, TalkerInv, SInv, PInv, HandInv
  <1>1. Solo(t)' /\ [Acts(t)]_allvars
    BY <1>0, TalkerSolo, TalkerKeeps
  <1>2. CASE Acts(t)
    BY <1>0, <1>1, <1>2, DoingStep, HandsStep DEF HandInv
  <1>3. CASE UNCHANGED allvars
    <2>1. Doing(t)' /\ Hands(t)'
      BY <1>0, <1>3 DEF allvars, vars, pvars, heard, Doing, Hands, Lively, Ending
    <2>. QED
      BY <1>1, <2>1 DEF HandInv
  <1>. QED
    BY <1>1, <1>2, <1>3

\* Of one talking connection, with any number of interrupting ones: whichever
\* awaits of a hand-off fail, and however often it is tried again, a human is
\* called in once, and from then on the row, and any copy in Redis, waits.
THEOREM OneHandoff ==
    ASSUME NEW t, Talks(t)
    PROVE  SSpec => []HandedOnce
  <1>1. SInit => TalkerInv(t) /\ HandInv(t)
    BY SocketStarts, TalkerStarts, HandStarts DEF TalkerInv, SInit, Talks
  <1>2. TalkerInv(t) /\ HandInv(t) /\ [SNext]_svars => TalkerInv(t)' /\ HandInv(t)'
    BY TalkerKeeps, HandKeeps
  <1>3. HandInv(t) => HandedOnce
    <2>. SUFFICES ASSUME HandInv(t) PROVE HandedOnce
      OBVIOUS
    <2>1. Cardinality(handed) <= 1
      <3>1. CASE handed = {}
        BY <3>1, FS_EmptySet
      <3>2. CASE handed # {}
        <4>1. PICK n \in handed : handed = {n}
          BY <3>2 DEF HandInv, Hands
        <4>2. Cardinality({n}) = 1
          BY FS_Singleton
        <4>. QED
          BY <4>1, <4>2
      <3>. QED
        BY <3>1, <3>2
    <2>2. handed # {} => row.status = "waiting_human"
      BY DEF HandInv, Hands
    <2>3. handed # {} /\ Exists(cache) => cache.status = "waiting_human"
      BY <2>2 DEF HandInv, Solo, CacheLed, Leads, Lifecycle!Leads, Lifecycle!Terminal
    <2>. QED
      BY <2>1, <2>2, <2>3 DEF HandedOnce
  <1>. QED
    BY <1>1, <1>2, <1>3, PTL DEF SSpec

-----------------------------------------------------------------------------
(* What the copies of the transcript hold.                                  *)

\* A line of the turn that c is to append joins a copy that has all the row has.
Appends(c) == /\ pc[c] \in Getting /\ pc'[c] = "s_cache"
              /\ \E s \in {row, cache} : \E x \in turn[c] :
                    /\ Exists(s) /\ row.turns \subseteq s.turns
                    /\ loc'[c].turns = s.turns \cup {x}

\* A step otherwise only moves transcripts about, between row, Redis and copy.
LEMMA TurnsStep ==
    ASSUME TypeOK, NEW c \in Clients, Solo(c),
           Start(c) \/ Step(c) \/ Fail(c) \/ ExpireSession \/ UNCHANGED vars
    PROVE  /\ row'.turns \in {row.turns, loc[c].turns}
           /\ cache'.turns \in {{}, cache.turns, loc[c].turns}
           /\ loc'[c].turns \in {{}, row.turns, cache.turns, loc[c].turns} \/ Appends(c)
  <1>0. /\ Absent.turns = {} /\ Fresh.turns = {}
        /\ row \in Session /\ cache \in Session /\ loc[c] \in Session
        /\ \A s \in Session : \A x : WithTurn(s, x).turns = s.turns \cup {x}
        /\ \A s \in Session : \A k : Ended(s, k).turns = s.turns
    BY DEF Absent, Fresh, TypeOK, WithTurn, Ended, Session
  <1>1. Done(c) => loc'[c] = Absent
    BY DEF Done, Goto, TypeOK
  <1>2. ASSUME NEW s \in {row, cache}, Exists(s), row.turns \subseteq s.turns, pc[c] \in Getting,
               Decide(c, s)
        PROVE  loc'[c].turns \in {{}, s.turns} \/ Appends(c)
    <2>1. CASE Done(c)
      BY <1>0, <1>1, <2>1
    <2>2. CASE \E x \in turn[c] : Goto(c, "s_cache", WithTurn(s, x))
      <3>1. PICK x \in turn[c] : Goto(c, "s_cache", WithTurn(s, x))
        BY <2>2
      <3>2. loc'[c].turns = s.turns \cup {x} /\ pc'[c] = "s_cache"
        BY <1>0, <3>1, GotoAt
      <3>. QED
        BY <1>2, <3>2 DEF Appends
    <2>3. CASE \E k : Goto(c, "s_cache", Ended(s, k))
      BY <1>0, <2>3, GotoAt
    <2>4. CASE Goto(c, "g_cache", Absent)
      BY <1>0, <2>4, GotoAt
    <2>. QED
      BY <1>2, <2>1, <2>2, <2>3, <2>4 DEF Decide, DecideGet, DecideTurn, DecideEnd, DecideCallback
  <1>3. CASE Start(c)
    <2>1. UNCHANGED <<row, cache>> /\ loc'[c] \in {Absent, Fresh}
      BY <1>3, GotoAt DEF Start, StartCreate, StartCallback, StartGet, StartTurn
    <2>. QED
      BY <1>0, <2>1
  <1>4. CASE Fail(c)
    <2>1. row' = row \/ row' = loc[c]
      BY <1>4, CommitSolo DEF Fail
    <2>. QED
      BY <1>0, <1>1, <1>4, <2>1 DEF Fail
  <1>5. CASE ExpireSession \/ UNCHANGED vars
    BY <1>0, <1>5 DEF ExpireSession, local, vars
  <1>6. CASE GetCache(c)
    <2>1. CASE ~Exists(cache)
      BY <1>0, <1>6, <2>1, GotoAt DEF GetCache
    <2>2. CASE Exists(cache) /\ Decide(c, cache)
      <3>1. Leads(row, cache)
        BY <2>2 DEF Solo, CacheLed
      <3>2. row.turns \subseteq cache.turns
        BY <3>1 DEF Leads, Lifecycle!Leads
      <3>3. pc[c] \in Getting /\ UNCHANGED <<row, cache>>
        BY <1>6 DEF GetCache, Getting
      <3>4. loc'[c].turns \in {{}, cache.turns} \/ Appends(c)
        BY <1>2, <2>2, <3>2, <3>3
      <3>. QED
        BY <3>3, <3>4
    <2>. QED
      BY <1>6, <2>1, <2>2 DEF GetCache
  <1>7. CASE GetFill(c)
    <2>1. /\ loc[c] = row /\ Exists(row) /\ pc[c] \in Getting /\ row' = row /\ cache' = row
          /\ Decide(c, row)
      BY <1>7 DEF GetFill, Solo, CopyFresh, Getting
    <2>2. loc'[c].turns \in {{}, row.turns} \/ Appends(c)
      BY <1>2, <2>1
    <2>. QED
      BY <2>1, <2>2
  <1>8. CASE CallBind(c)
    <2>1. UNCHANGED <<row, cache>> /\ loc'[c] = Absent
      BY <1>1, <1>8, GotoAt DEF CallBind, DecideCallback
    <2>. QED
      BY <1>0, <2>1
  <1>9. CASE GetRow(c) \/ CallLookup(c) \/ CallSelect(c)
    <2>1. UNCHANGED <<row, cache>> /\ loc'[c] \in {Absent, row}
      BY <1>1, <1>9, GotoAt DEF GetRow, CallLookup, CallSelect
    <2>. QED
      BY <1>0, <2>1
  <1>10. CASE SaveCache(c) \/ PersistLoad(c) \/ CreateCache(c)
    <2>1. row' = row /\ cache' \in {cache, loc[c]} /\ loc'[c] = loc[c]
      BY <1>10, GotoAt DEF SaveCache, PersistLoad, CreateCache
    <2>. QED
      BY <2>1
  <1>11. CASE PersistCommit(c)
    <2>1. row' = loc[c] /\ cache' = cache
      BY <1>11, CommitSolo DEF PersistCommit
    <2>2. loc'[c] \in {Absent, loc[c]}
      BY <1>1, <1>11, GotoAt DEF PersistCommit
    <2>. QED
      BY <1>0, <2>1, <2>2
  <1>12. CASE EndDelete(c) \/ CreateBind(c)
    <2>1. row' = row /\ cache' \in {cache, Absent} /\ loc'[c] = Absent
      BY <1>1, <1>12 DEF EndDelete, CreateBind
    <2>. QED
      BY <1>0, <2>1
  <1>. QED
    BY <1>3, <1>4, <1>5, <1>6, <1>7, <1>8, <1>9, <1>10, <1>11, <1>12 DEF Step

-----------------------------------------------------------------------------
(* Replies are kept together with the words they answer.                    *)

\* A transcript with the words of each turn it has lines of.
Whole(lines) == \A l \in lines : "user" \in RolesOf(lines, l.turn)

Wholes(t) == Whole(row.turns) /\ Whole(cache.turns) /\ Whole(loc[t].turns)

\* A reply, or a hand-off message, is only added to words that are in the row.
LEMMA WordsFirst ==
    ASSUME Placed, Calling, Heard, Numbered, NEW t \in Clients, Solo(t), NEW x \in turn[t]
    PROVE  /\ at[t] \in DOMAIN RoleAt /\ x = Line(t, RoleAt[at[t]])
           /\ x.role = "user" \/ "user" \in RolesOf(row.turns, x.turn)
  <1>1. at[t] \in DOMAIN RoleAt /\ x = Line(t, RoleAt[at[t]])
    BY DEF Calling
  <1>2. num[t] # 0
    BY <1>1, RoleStages DEF Numbered, TurnFree
  <1>3. ASSUME at[t] \in {"t_reply", "h_turn"}
        PROVE  "user" \in RolesOf(row.turns, num[t])
    <2>1. RolesOf(acked, num[t]) = {"user"}
      BY <1>2, <1>3 DEF Heard, OnRecord, RolesBy
    <2>2. RolesOf(acked, num[t]) \subseteq RolesOf(row.turns, num[t])
      BY DEF Solo, AckedIsDurable, RolesOf
    <2>. QED
      BY <2>1, <2>2
  <1>. QED
    BY <1>1, <1>3, RoleStages DEF Line

LEMMA WholesStep ==
    ASSUME TypeOK, Placed, Calling, Heard, Numbered, NEW t \in Clients, Solo(t), Wholes(t),
           Start(t) \/ Step(t) \/ Fail(t) \/ ExpireSession \/ UNCHANGED vars
    PROVE  Wholes(t)'
  <1>1. Whole({})
    BY DEF Whole
  <1>2. ASSUME Appends(t)
        PROVE  Whole(loc'[t].turns)
    <2>1. PICK s \in {row, cache}, x \in turn[t] :
             row.turns \subseteq s.turns /\ loc'[t].turns = s.turns \cup {x}
      BY <1>2 DEF Appends
    <2>2. x.role = "user" \/ "user" \in RolesOf(row.turns, x.turn)
      BY WordsFirst
    <2>3. Whole(s.turns)
      BY DEF Wholes
    <2>. QED
      BY <2>1, <2>2, <2>3 DEF Whole, RolesOf
  <1>. QED
    BY <1>1, <1>2, TurnsStep DEF Wholes

\* Of one talking connection, with any number of interrupting ones: each reply
\* and each hand-off message is in the row, and in Redis, only with the words
\* it answers.
THEOREM Answered ==
    ASSUME NEW t, Talks(t)
    PROVE  SSpec => []RepliesFollow
  <1>1. SInit => TalkerInv(t) /\ Solo(t) /\ Wholes(t)
    <2>1. SInit => Wholes(t)
      BY DEF SInit, PInit, Wholes, Whole, Fresh, Absent, Talks
    <2>. QED
      BY <2>1, SocketStarts, TalkerStarts, SoloStarts DEF TalkerInv, SInit, Talks
  <1>2. TalkerInv(t) /\ Solo(t) /\ Wholes(t) /\ [SNext]_svars => TalkerInv(t)' /\ Solo(t)' /\ Wholes(t)'
    <2>. SUFFICES ASSUME TalkerInv(t), Solo(t), Wholes(t), [SNext]_svars
                  PROVE  TalkerInv(t)' /\ Solo(t)' /\ Wholes(t)'
      OBVIOUS
    <2>1. TalkerInv(t)' /\ Solo(t)' /\ [Acts(t)]_allvars
      BY TalkerKeeps, TalkerSolo
    <2>. QED
      BY <2>1, TalkerStores, WholesStep DEF Talks, TalkerInv, SInv, PInv
  <1>3. Wholes(t) => RepliesFollow
    BY DEF Wholes, Whole, RepliesFollow
  <1>. QED
    BY <1>1, <1>2, <1>3, PTL DEF SSpec

-----------------------------------------------------------------------------
(* No answer in a transcript of the length that forces a hand-off.          *)

UpTo(lines, n) == {k \in lines : k.turn <= n}

\* A transcript whose answers were all given within that length.
Short(lines) ==
    /\ IsFiniteSet(lines)
    /\ \A l \in lines : /\ l.turn \in Nat /\ l.turn <= begun
                        /\ l.role = "assistant" => Cardinality(UpTo(lines, l.turn)) <= MaxTurns

\* The running turn has no answer yet.
Unanswered(lines, n) == \A l \in lines : l.role = "assistant" => l.turn < n

Copies(t) == {row.turns, cache.turns, loc[t].turns}

\* Before its answer is on its way; after the policy has let the agent answer.
Asking(t) == \/ at[t] \in {"t_get", "t_user", "t_agent", "h_get", "h_turn"}
             \/ at[t] = "t_reply" /\ pc[t] \notin Storing
Answering(t) == at[t] = "t_agent" \/ (at[t] = "t_reply" /\ pc[t] \notin Storing)

Fits(t) ==
    /\ \A lines \in Copies(t) : Short(lines)
    /\ Asking(t) => \A lines \in Copies(t) : Unanswered(lines, num[t])
    /\ Answering(t) => /\ Cardinality(row.turns) < MaxTurns
                       /\ Exists(cache) => cache.turns = row.turns

\* One line more: an answer in a shorter transcript, or something else in a
\* transcript with no answer of the same turn.
LEMMA OneLineMore ==
    ASSUME NEW lines, NEW x, Short(lines), x.turn \in Nat, x.turn <= begun,
           \/ Cardinality(lines) < MaxTurns
           \/ x.role # "assistant" /\ Unanswered(lines, x.turn)
    PROVE  Short(lines \cup {x})
  <1>. DEFINE more == lines \cup {x}
  <1>1. IsFiniteSet(more) /\ Cardinality(more) <= Cardinality(lines) + 1 /\ Cardinality(lines) \in Nat
        /\ Cardinality(more) \in Nat
    BY FS_AddElement, FS_CardinalityType DEF Short
  <1>2. ASSUME NEW l \in more, l.role = "assistant"
        PROVE  Cardinality(UpTo(more, l.turn)) <= MaxTurns
    <2>1. CASE Cardinality(lines) < MaxTurns
      <3>1. UpTo(more, l.turn) \subseteq more
        BY DEF UpTo
      <3>2. Cardinality(UpTo(more, l.turn)) <= Cardinality(more) /\ IsFiniteSet(UpTo(more, l.turn))
        BY <1>1, <3>1, FS_Subset
      <3>3. Cardinality(UpTo(more, l.turn)) \in Nat
        BY <3>2, FS_CardinalityType
      <3>. QED
        BY <1>1, <2>1, <3>2, <3>3, PipelineAssumption
    <2>2. CASE x.role # "assistant" /\ Unanswered(lines, x.turn)
      <3>1. l \in lines /\ l.turn < x.turn /\ l.turn \in Nat
        BY <1>2, <2>2 DEF Unanswered, Short
      <3>2. UpTo(more, l.turn) = UpTo(lines, l.turn)
        BY <3>1 DEF UpTo
      <3>. QED
        BY <1>2, <3>1, <3>2 DEF Short
    <2>. QED
      BY <2>1, <2>2
  <1>3. \A l \in more : l.turn \in Nat /\ l.turn <= begun
    BY DEF Short
  <1>. QED
    BY <1>1, <1>2, <1>3 DEF Short

\* While t reads, and decides nothing, row and Redis stay as they are.
LEMMA ReadsAlone ==
    ASSUME NEW c \in Clients, TypeOK, Step(c), pc[c] \in Getting, pc'[c] \in Getting
    PROVE  (UNCHANGED <<row, cache>>) \/ (row' = row /\ op[c] \notin {"get", "turn", "handoff"})
  <1>1. CASE GetCache(c) \/ GetRow(c)
    BY <1>1 DEF GetCache, GetRow
  <1>2. CASE GetFill(c)
    <2>1. Decide(c, loc[c]) /\ row' = row
      BY <1>2 DEF GetFill
    <2>. QED
      BY <2>1, GotoAt, DoneAt DEF Decide, DecideGet, DecideTurn, DecideEnd, DecideCallback, Getting
  <1>. QED
    BY <1>1, <1>2 DEF Getting, Step, CallLookup, CallSelect, CallBind, SaveCache, PersistLoad,
                      PersistCommit, EndDelete, CreateCache, CreateBind

\* What a step writes: nothing new, or the line of t's stage.
LEMMA CopiesStep ==
    ASSUME TypeOK, Placed, Calling, Heard, Numbered, NEW t \in Clients, Solo(t), Doing(t), Fits(t),
           Start(t) \/ Step(t) \/ Fail(t) \/ ExpireSession \/ UNCHANGED vars
    PROVE  /\ \A lines \in Copies(t)' : Short(lines)
           /\ \/ Copies(t)' \subseteq Copies(t) \cup {{}}
              \/ /\ at[t] \in DOMAIN RoleAt /\ pc[t] \in Getting /\ pc'[t] = "s_cache"
                 /\ \A lines \in Copies(t)' \ {loc'[t].turns} : lines \in Copies(t) \cup {{}}
                 /\ \E s \in {row, cache} : loc'[t].turns = s.turns \cup {Line(t, RoleAt[at[t]])}
  <1>1. Short({})
    BY FS_EmptySet DEF Short
  <1>2. row'.turns \in Copies(t) /\ cache'.turns \in Copies(t) \cup {{}}
    BY TurnsStep DEF Copies
  <1>3. CASE ~Appends(t)
    <2>1. Copies(t)' \subseteq Copies(t) \cup {{}}
      BY <1>2, <1>3, TurnsStep DEF Copies
    <2>. QED
      BY <1>1, <2>1 DEF Fits
  <1>4. CASE Appends(t)
    <2>1. PICK s \in {row, cache}, x \in turn[t] :
             Exists(s) /\ row.turns \subseteq s.turns /\ loc'[t].turns = s.turns \cup {x}
      BY <1>4 DEF Appends
    <2>2. /\ at[t] \in DOMAIN RoleAt /\ pc[t] \in Getting /\ pc'[t] = "s_cache" /\ x = Line(t, RoleAt[at[t]])
          /\ num[t] \in Nat /\ num[t] <= begun
      BY <1>4, WordsFirst, PipelineAssumption DEF Appends, Placed, Numbered
    <2>3. x.turn = num[t] /\ x.role = RoleAt[at[t]]
      BY <2>2 DEF Line
    <2>4. Short(s.turns)
      BY <2>1 DEF Fits, Copies
    <2>5. ASSUME at[t] = "t_reply"
          PROVE  Short(s.turns \cup {x})
      <3>1. Cardinality(s.turns) < MaxTurns
        BY <2>1, <2>2, <2>5 DEF Fits, Answering, Getting, Storing
      <3>. QED
        BY <2>2, <2>3, <2>4, <3>1, OneLineMore
    <2>6. ASSUME at[t] # "t_reply"
          PROVE  Short(s.turns \cup {x})
      <3>1. Asking(t) /\ x.role # "assistant"
        BY <2>2, <2>3, <2>6, RoleStages DEF Asking
      <3>2. Unanswered(s.turns, x.turn)
        BY <2>1, <2>3, <3>1 DEF Fits, Copies
      <3>. QED
        BY <2>2, <2>3, <2>4, <3>1, <3>2, OneLineMore
    <2>7. Short(loc'[t].turns)
      BY <2>1, <2>5, <2>6
    <2>8. \A lines \in Copies(t) \cup {{}} : Short(lines)
      BY <1>1 DEF Fits
    <2>. QED
      BY <1>2, <2>1, <2>2, <2>7, <2>8 DEF Copies
  <1>. QED
    BY <1>3, <1>4

LEMMA StoringStays ==
    ASSUME NEW c \in Clients, TypeOK, Step(c), pc[c] \in Storing, op[c] = "turn"
    PROVE  pc'[c] \in Storing \cup {"idle"}
  BY GotoAt, DoneAt DEF Storing, Step, GetCache, GetRow, GetFill, CallLookup, CallSelect, CallBind,
     SaveCache, PersistLoad, PersistCommit, EndDelete, CreateCache, CreateBind

LEMMA BegunGrows ==
    ASSUME Placed, NEW t \in Clients, Acts(t)
    PROVE  begun' \in Nat /\ begun <= begun'
  <1>1. begun \in Nat
    BY PipelineAssumption DEF Placed
  <1>2. begun' = begun \/ begun' = begun + 1
    BY DEF Acts, TurnStep, HearChunk, Call, Await, HearGet, HearNothing, HearFinal, TurnGet,
       TurnUser, TurnAgent, TurnReply, TurnCheck, TurnTts, HandoffGet, HandoffTurn, HandoffEnd,
       HandoffFresh, HandoffGive, HandoffTts, Raise, Outside, BeginText, Begin, RequestBargeIn,
       Expire, pvars
  <1>. QED
    BY <1>1, <1>2

LEMMA FitsStep ==
    ASSUME TypeOK, Placed, Calling, Heard, Numbered, NEW t \in Clients, Solo(t), Doing(t), Fits(t),
           Acts(t)
    PROVE  Fits(t)'
  <1>0. Start(t) \/ Step(t) \/ Fail(t) \/ ExpireSession \/ UNCHANGED vars
    BY TalkerStores
  <1>1. \A lines \in Copies(t)' : Short(lines)'
    <2>1. \A lines \in Copies(t)' : Short(lines)
      BY <1>0, CopiesStep
    <2>2. begun' \in Nat /\ begun <= begun' /\ begun \in Nat
      BY BegunGrows, PipelineAssumption DEF Placed
    <2>. QED
      BY <2>1, <2>2 DEF Short
  <1>2. /\ \A l : Move(t, l) => at'[t] = l /\ num'[t] = num[t]
        /\ Over(t) => at'[t] = "idle"
    BY DEF Move, Over, Placed
  <1>3. ASSUME ~Asking(t)'
        PROVE  Fits(t)'
    BY <1>1, <1>3 DEF Fits, Answering, Asking
  \* The turn goes on, its answer not yet on its way.
  <1>4. ASSUME Asking(t), num'[t] = num[t], pc'[t] = "s_cache" => at[t] # "t_reply"
        PROVE  \A lines \in Copies(t)' : Unanswered(lines, num'[t])
    <2>1. \A lines \in Copies(t) \cup {{}} : Unanswered(lines, num[t])
      BY <1>4 DEF Fits, Unanswered
    <2>2. CASE Copies(t)' \subseteq Copies(t) \cup {{}}
      BY <1>4, <2>1, <2>2
    <2>3. CASE /\ at[t] \in DOMAIN RoleAt /\ pc'[t] = "s_cache"
               /\ \A lines \in Copies(t)' \ {loc'[t].turns} : lines \in Copies(t) \cup {{}}
               /\ \E s \in {row, cache} : loc'[t].turns = s.turns \cup {Line(t, RoleAt[at[t]])}
      <3>1. PICK s \in {row, cache} : loc'[t].turns = s.turns \cup {Line(t, RoleAt[at[t]])}
        BY <2>3
      <3>2. Unanswered(s.turns, num[t])
        BY <2>1, <3>1 DEF Copies
      <3>3. Line(t, RoleAt[at[t]]).role # "assistant"
        BY <1>4, <2>3, RoleStages DEF Line
      <3>4. Unanswered(loc'[t].turns, num[t])
        BY <3>1, <3>2, <3>3 DEF Unanswered
      <3>. QED
        BY <1>4, <2>1, <2>3, <3>4
    <2>. QED
      BY <1>0, <2>2, <2>3, CopiesStep
  \* A call of the turn that returns.
  <1>5. ASSUME NEW l, at[t] \in {"t_get", "h_get"}, l \in {"t_user", "h_turn"}, Move(t, l), pc'[t] = "idle"
        PROVE  Fits(t)'
    <2>1. Asking(t)
      BY <1>5 DEF Asking
    <2>2. \A lines \in Copies(t)' : Unanswered(lines, num'[t])
      BY <1>2, <1>4, <1>5, <2>1
    <2>. QED
      BY <1>1, <1>2, <1>5, <2>2 DEF Fits, Answering
  <1>6. CASE Call(t)
    <2>1. /\ UNCHANGED <<row, cache, at, num>> /\ pc'[t] = "g_cache" /\ pc[t] = "idle"
      BY <1>6, GotoAt DEF Call, StartGet, StartTurn, pvars
    <2>2. (Asking(t)' <=> Asking(t)) /\ (Answering(t)' <=> Answering(t))
      BY <2>1 DEF Asking, Answering, Storing
    <2>3. Asking(t) => \A lines \in Copies(t)' : Unanswered(lines, num'[t])
      BY <1>4, <2>1
    <2>. QED
      BY <1>1, <2>1, <2>2, <2>3 DEF Fits
  <1>7. CASE Await(t)
    <2>1. /\ at[t] # "idle" /\ pc[t] # "idle" /\ pc'[t] # "idle" /\ Step(t)
          /\ at' = at /\ num' = num
      BY <1>7, StepCalls DEF Await, pvars
    <2>2. ASSUME at[t] = "t_reply", pc'[t] \notin Storing
          PROVE  pc[t] \in Getting /\ pc'[t] \in Getting /\ op[t] = "turn"
      <3>1. op[t] = "turn" /\ pc[t] \in Getting \cup Storing
        BY <2>1, <2>2, RoleStages DEF Doing
      <3>2. pc[t] \in Getting
        BY <2>1, <2>2, <3>1, StoringStays
      <3>3. pc'[t] \in Getting \cup Storing
        BY <2>1, <3>1, <3>2, CallPlaces DEF Getting
      <3>. QED
        BY <2>2, <3>1, <3>2, <3>3
    <2>3. Asking(t)' => Asking(t)
      BY <2>1, <2>2 DEF Asking, Getting, Storing
    <2>4. Asking(t)' => \A lines \in Copies(t)' : Unanswered(lines, num'[t])
      BY <1>4, <2>1, <2>3 DEF Asking, Storing
    <2>5. ASSUME Answering(t)'
          PROVE  Answering(t) /\ UNCHANGED <<row, cache>>
      <3>1. at[t] # "t_agent"
        BY <2>1 DEF Calling, Asks
      <3>2. at[t] = "t_reply" /\ pc'[t] \notin Storing
        BY <2>1, <2>5, <3>1 DEF Answering
      <3>. QED
        BY <2>1, <2>2, <3>2, ReadsAlone DEF Answering, Getting, Storing
    <2>. QED
      BY <1>1, <2>4, <2>5 DEF Fits
  <1>8. CASE Outside(t)
    BY <1>3, <1>8 DEF Outside, Asking
  <1>9. CASE \/ HearGet(t) \/ HearChunk(t) \/ HearNothing(t) \/ Raise(t) \/ TurnReply(t) \/ TurnCheck(t)
             \/ TurnTts(t) \/ HandoffTurn(t) \/ HandoffEnd(t) \/ HandoffFresh(t) \/ HandoffGive(t)
             \/ HandoffTts(t)
    <2>1. \/ Over(t)
          \/ \E l \in {"a_get", "a_stt", "t_check", "t_tts", "h_end", "h_fresh", "h_give", "h_tts"} : Move(t, l)
      BY <1>9 DEF HearGet, HearChunk, HearNothing, Raise, TurnReply, TurnCheck, TurnTts,
         HandoffTurn, HandoffEnd, HandoffFresh, HandoffGive, HandoffTts, Added
    <2>. QED
      BY <1>2, <1>3, <2>1 DEF Asking
  <1>10. ASSUME NEW hasText, Begin(t, hasText)
         PROVE  Fits(t)'
    <2>1. CASE hasText
      <3>1. at'[t] = "t_get" /\ num'[t] = begun + 1 /\ UNCHANGED vars /\ begun \in Nat
        BY <1>10, <2>1, PipelineAssumption DEF Begin, Placed
      <3>2. Copies(t)' = Copies(t)
        BY <3>1 DEF vars, Copies
      <3>3. \A lines \in Copies(t) : \A l \in lines : l.turn < begun + 1
        BY <3>1 DEF Fits, Short
      <3>4. \A lines \in Copies(t)' : Unanswered(lines, num'[t])
        BY <3>1, <3>2, <3>3 DEF Unanswered
      <3>. QED
        BY <1>1, <3>1, <3>4 DEF Fits, Answering
    <2>2. CASE ~hasText
      BY <1>2, <1>3, <1>10, <2>2 DEF Begin, Asking
    <2>. QED
      BY <2>1, <2>2
  <1>11. CASE TurnGet(t)
    BY <1>2, <1>3, <1>5, <1>11 DEF TurnGet, Returns, Asking
  <1>12. CASE HandoffGet(t)
    BY <1>5, <1>12 DEF HandoffGet, Returns
  <1>13. CASE TurnUser(t)
    <2>1. /\ at[t] = "t_user" /\ Step(t) /\ pc'[t] = "idle" /\ Asking(t)
      BY <1>13 DEF TurnUser, Returns, Asking
    <2>2. PICK e \in Escalates(Cardinality(loc[t].turns)) : Added(t, IF e THEN "h_get" ELSE "t_agent")
      BY <1>13 DEF TurnUser
    <2>3. CASE Over(t)
      BY <1>2, <1>3, <2>3 DEF Asking
    <2>4. CASE Appended(t) /\ Move(t, IF e THEN "h_get" ELSE "t_agent")
      <3>1. \A lines \in Copies(t)' : Unanswered(lines, num'[t])
        BY <1>2, <1>4, <2>1, <2>4
      <3>2. /\ row' = loc[t] /\ cache' = cache /\ (Exists(cache) => cache = loc[t])
        <4>1. PersistCommit(t)
          BY <2>1, <2>4 DEF Appended, Step, GetCache, GetRow, GetFill, CallLookup, CallSelect,
             CallBind, SaveCache, PersistLoad, EndDelete, CreateCache, CreateBind
        <4>. QED
          BY <4>1, CommitSolo DEF PersistCommit
      <3>3. ~e => Cardinality(loc[t].turns) < MaxTurns
        <4>1. Cardinality(loc[t].turns) \in Nat
          BY FS_CardinalityType DEF Fits, Short, Copies
        <4>2. ASSUME Cardinality(loc[t].turns) >= MaxTurns
              PROVE  e = TRUE
          <5>1. Escalates(Cardinality(loc[t].turns)) = {TRUE}
            BY <4>2 DEF Escalates
          <5>. QED
            BY <2>2, <5>1
        <4>3. Cardinality(loc[t].turns) >= MaxTurns \/ Cardinality(loc[t].turns) < MaxTurns
          BY <4>1, PipelineAssumption
        <4>. QED
          BY <4>2, <4>3
      <3>4. at'[t] = IF e THEN "h_get" ELSE "t_agent"
        BY <1>2, <2>4
      <3>. QED
        BY <1>1, <3>1, <3>2, <3>3, <3>4 DEF Fits, Answering, Exists
    <2>. QED
      BY <2>2, <2>3, <2>4 DEF Added
  <1>14. CASE TurnAgent(t)
    <2>1. at[t] = "t_agent" /\ UNCHANGED vars /\ \E l \in {"h_get", "t_reply"} : Move(t, l)
      BY <1>14 DEF TurnAgent
    <2>2. Copies(t)' = Copies(t) /\ num'[t] = num[t] /\ UNCHANGED <<row, cache>>
      BY <1>2, <2>1 DEF vars, Copies
    <2>. QED
      BY <1>1, <2>1, <2>2 DEF Fits, Asking, Answering
  <1>15. CASE RequestBargeIn
    <2>1. UNCHANGED <<at, pc, num, row, cache, loc>>
      BY <1>15 DEF RequestBargeIn, vars
    <2>. QED
      BY <1>1, <2>1 DEF Fits, Asking, Answering, Copies
  <1>16. CASE Expire
    <2>1. UNCHANGED <<at, pc, num, row, loc>> /\ cache' = Absent /\ Absent.turns = {} /\ ~Exists(Absent)
      BY <1>16, AbsentOrFresh DEF Expire, ExpireSession, local, pvars, Absent
    <2>2. ASSUME Asking(t)'
          PROVE  \A lines \in Copies(t)' : Unanswered(lines, num'[t])
      BY <2>1, <2>2 DEF Fits, Asking, Copies, Unanswered
    <2>. QED
      BY <1>1, <2>1, <2>2 DEF Fits, Answering
  <1>. QED
    BY <1>6, <1>7, <1>8, <1>9, <1>10, <1>11, <1>12, <1>13, <1>14, <1>15, <1>16
       DEF Acts, TurnStep, BeginText, HearFinal

\* Of one talking connection, with any number of interrupting ones, and any
\* length that forces a hand-off: the agent answers nobody in a transcript of
\* that length, although the words of turns whose save failed half-way lengthen
\* it without the policy having looked.
THEOREM AnswersStayBounded ==
    ASSUME NEW t, Talks(t)
    PROVE  SSpec => []AnswersBounded
  <1>1. SInit => TalkerInv(t) /\ HandInv(t) /\ Fits(t)
    <2>1. SInit => Fits(t)
      <3>. SUFFICES ASSUME SInit PROVE Fits(t)
        OBVIOUS
      <3>1. Copies(t) = {{}}
        BY DEF SInit, PInit, Copies, Fresh, Absent, Talks
      <3>2. Short({})
        BY FS_EmptySet DEF Short
      <3>3. at[t] = "idle"
        BY DEF SInit, PInit, Talks
      <3>. QED
        BY <3>1, <3>2, <3>3 DEF Fits, Asking, Answering
    <2>. QED
      BY <2>1, SocketStarts, TalkerStarts, HandStarts DEF TalkerInv, SInit, Talks
  <1>2. TalkerInv(t) /\ HandInv(t) /\ Fits(t) /\ [SNext]_svars => TalkerInv(t)' /\ HandInv(t)' /\ Fits(t)'
    <2>. SUFFICES ASSUME TalkerInv(t), HandInv(t), Fits(t), [SNext]_svars
                  PROVE  TalkerInv(t)' /\ HandInv(t)' /\ Fits(t)'
      OBVIOUS
    <2>1. TalkerInv(t)' /\ HandInv(t)' /\ [Acts(t)]_allvars
      BY TalkerKeeps, HandKeeps
    <2>2. CASE Acts(t)
      BY <2>1, <2>2, FitsStep DEF Talks, TalkerInv, SInv, PInv, HandInv
    <2>3. CASE UNCHANGED allvars
      BY <2>1, <2>3 DEF allvars, vars, pvars, Fits, Copies, Short, Asking, Answering
    <2>. QED
      BY <2>1, <2>2, <2>3
  <1>3. Fits(t) => AnswersBounded
    BY DEF Fits, Copies, Short, UpTo, AnswersBounded
  <1>. QED
    BY <1>1, <1>2, <1>3, PTL DEF SSpec
=============================================================================
