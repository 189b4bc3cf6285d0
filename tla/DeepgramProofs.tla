--------------------------- MODULE DeepgramProofs ---------------------------
(***************************************************************************)
(* What holds of DeepgramLive for any number of attempts, connections and  *)
(* segments: one receiver and one connection at a time, quiet after close, *)
(* and, all in all, a LiveLink.                                            *)
(***************************************************************************)
EXTENDS DeepgramLive, TLAPS

OwnerAt == {"connect", "idle", "send", "sleep", "drop", "join", "over"}
ReceiverAt == {"none", "connect", "sleep", "swallow", "drop", "listen", "handle", "done"}

\* The types, by who is where: a receiver exists once its connection does.
Typed ==
    /\ ws \in Procs /\ task \in Procs /\ aim \in Procs
    /\ closed \in BOOLEAN /\ attempts \in 0..MaxAttempts
    /\ pc \in [Procs -> OwnerAt \cup ReceiverAt]
    /\ conn \in [Conns -> {"none", "open", "lost", "closed"}]
    /\ pc[0] \in OwnerAt
    /\ task # 0 => conn[task] # "none"
    /\ \A r \in Conns : pc[r] \in ReceiverAt /\ (pc[r] = "none" <=> conn[r] = "none")

SpeechTyped == heard \in Nat /\ parts \in Seq(Nat) /\ told \in Seq(Nat)

\* Who is alive is the receiver task, until close has forgotten it; while the
\* owner drops and connects, nobody is.
Owned ==
    /\ pc[0] # "over" => \A r \in Conns : Alive(r) => r = task
    /\ pc[0] \in {"drop", "connect"} => \A r \in Conns : ~Alive(r)
    /\ OneReceiver

\* A closed session never sleeps over a reconnection, and one that is over
\* does not connect any more.
Ending ==
    /\ closed <=> pc[0] \in {"join", "over"}
    /\ closed => \A r \in Conns : pc[r] # "sleep"
    /\ pc[0] = "over" => /\ ws = 0 /\ task = 0
                         /\ \A r \in Conns : pc[r] \notin {"swallow", "drop", "connect"}

\* Whoever connects has seen the old connection closed.
Dark ==
    /\ NoOrphan
    /\ \A p \in Procs : pc[p] = "connect" => \A c \in Conns : conn[c] # "open"

Inv == Typed /\ Owned /\ Ending /\ Dark

-----------------------------------------------------------------------------
(* Sequences and cancellation.                                              *)

\* Cancelling a receiver changes where it is, to "done", and nobody else.
LEMMA CancelledTyped ==
    ASSUME NEW f \in [Procs -> OwnerAt \cup ReceiverAt], NEW t \in Procs
    PROVE  /\ Cancelled(f, t) \in [Procs -> OwnerAt \cup ReceiverAt]
           /\ \A p \in Procs :
                Cancelled(f, t)[p] = IF p = t /\ t # 0 /\ f[t] # "swallow" THEN "done" ELSE f[p]
  BY DEF Cancelled, OwnerAt, ReceiverAt

-----------------------------------------------------------------------------
(* One receiver, one connection.                                            *)

LEMMA InitSafe == ASSUME Init PROVE Inv
<1>1. /\ pc[0] = "connect" /\ \A r \in Conns : pc[r] = "none" /\ conn[r] = "none"
      /\ pc \in [Procs -> OwnerAt \cup ReceiverAt]
      /\ conn \in [Conns -> {"none", "open", "lost", "closed"}]
      /\ 0 \in Procs /\ 0 \in 0..MaxAttempts
  BY LiveAssumption DEF Init, Procs, Conns, OwnerAt, ReceiverAt
<1>2. Typed
  <2>1. "connect" \in OwnerAt /\ "none" \in ReceiverAt BY DEF OwnerAt, ReceiverAt
  <2>2. QED BY <1>1, <2>1 DEF Init, Typed
<1>3. Owned /\ Ending /\ Dark
  BY <1>1 DEF Init, Owned, Ending, Dark, OneReceiver, NoOrphan, Alive
<1>4. QED BY <1>2, <1>3 DEF Inv

\* _connect: whoever connects was the only one at work, and the old
\* connection is closed.
LEMMA ConnectedSafe == ASSUME Inv, NEW p \in Procs, Connected(p) PROVE Inv'
<1> USE DEF Inv, Typed, Procs, Conns, OwnerAt, ReceiverAt
<1>1. PICK c \in Conns :
        /\ conn[c] = "none" /\ ws' = c /\ task' = c
        /\ conn' = [conn EXCEPT ![c] = "open"]
        /\ pc' = [pc EXCEPT ![p] = Return(p), ![c] = "listen"]
  BY DEF Connected, Unused
<1>2. c # p /\ pc[p] = "connect" /\ closed' = closed /\ attempts' = 0 /\ aim' = aim
  BY <1>1 DEF Connected
<1>3. Typed'
  BY <1>1, <1>2, LiveAssumption DEF Return
<1>4. /\ pc'[c] = "listen" /\ pc'[p] = Return(p)
      /\ \A q \in Procs \ {c, p} : pc'[q] = pc[q]
      /\ pc[0] # "over" /\ (p = 0 \/ p = task)
  BY <1>1, <1>2 DEF Owned, Alive, Ending
<1>5. \A r \in Conns : Alive(r)' => r = c
  BY <1>2, <1>4 DEF Owned, Alive, Return
<1>6. Owned'
  BY <1>1, <1>2, <1>4, <1>5, LiveAssumption DEF Owned, OneReceiver, Alive, Return
<1>7. Ending'
  BY <1>1, <1>2, <1>4, LiveAssumption DEF Ending, Return
<1>8. Dark'
  BY <1>1, <1>2, <1>4, <1>5, LiveAssumption DEF Dark, NoOrphan, Alive, Return, Owned
<1>9. QED BY <1>3, <1>6, <1>7, <1>8

\* After its sleep the owner cancels the receiver there is, and a receiver
\* only itself, which it survives.
LEMMA WakeSafe == ASSUME Inv, NEW p \in Procs, Wake(p) PROVE Inv'
<1> USE DEF Inv, Procs, Conns, OwnerAt, ReceiverAt
<1>1. /\ pc[p] = "sleep" /\ \A q \in Procs : pc[q] # "swallow"
      /\ UNCHANGED <<ws, task, closed, attempts, conn, aim>>
  BY DEF Wake
<1>2. CASE p = 0
  <2>1. /\ pc' \in [Procs -> OwnerAt \cup ReceiverAt] /\ pc'[0] = "drop"
        /\ \A r \in Conns : pc'[r] = IF r = task THEN "done" ELSE pc[r]
    BY <1>1, <1>2, CancelledTyped, LiveAssumption DEF Wake, Typed
  <2>2. \A r \in Conns : ~Alive(r)'
    BY <1>1, <1>2, <2>1 DEF Owned, Alive
  <2>3. Typed' /\ Owned'
    BY <1>1, <1>2, <2>1, <2>2 DEF Typed, Owned, OneReceiver, Alive, Dark
  <2>4. Ending' /\ Dark'
    BY <1>1, <1>2, <2>1 DEF Typed, Ending, Dark, NoOrphan
  <2>5. QED BY <2>3, <2>4
<1>3. CASE p # 0
  <2>1. p = task /\ pc' = [pc EXCEPT ![p] = "swallow"]
    BY <1>1, <1>3 DEF Wake, Typed, Owned, Ending, Alive
  <2>2. QED
    BY <1>1, <1>3, <2>1 DEF Typed, Owned, OneReceiver, Alive, Ending, Dark, NoOrphan
<1>4. QED BY <1>2, <1>3

\* close spares only the receiver that has just cancelled itself.
LEMMA CloseSafe == ASSUME Inv, Close PROVE Inv'
<1> USE DEF Inv, Procs, Conns, OwnerAt, ReceiverAt
<1>1. /\ pc[0] = "idle" /\ closed' = TRUE
      /\ UNCHANGED <<ws, task, attempts, conn, aim>>
  BY DEF Close
<1>2. /\ pc' \in [Procs -> OwnerAt \cup ReceiverAt] /\ pc'[0] = "join"
      /\ \A r \in Conns : pc'[r] = IF r = task /\ pc[r] # "swallow" THEN "done" ELSE pc[r]
  BY <1>1, CancelledTyped, LiveAssumption DEF Close, Typed
<1>3. Typed'
  BY <1>1, <1>2 DEF Typed, Owned, Alive
<1>4. Owned' /\ Ending'
  BY <1>1, <1>2 DEF Typed, Owned, OneReceiver, Alive, Ending
<1>5. Dark'
  BY <1>1, <1>2 DEF Typed, Dark, NoOrphan
<1>6. QED BY <1>3, <1>4, <1>5

LEMMA NextSafe == ASSUME Inv, [Next]_vars PROVE Inv'
<1> USE LiveAssumption DEF Inv, Typed, Owned, Ending, Dark, NoOrphan, OneReceiver, Alive, Procs, Conns,
        OwnerAt, ReceiverAt
<1>1. ASSUME NEW p \in Procs, Reconnect(p) PROVE Inv'
  <2>1. CASE Connected(p) BY <2>1, ConnectedSafe
  <2>2. CASE ConnectFails(p) BY <2>2 DEF ConnectFails, Return
  <2>3. CASE Wake(p) BY <2>3, WakeSafe
  <2>4. CASE Swallow(p) BY <2>4 DEF Swallow
  <2>5. CASE DropOld(p) BY <2>5 DEF DropOld, Shut
  <2>6. QED BY <1>1, <2>1, <2>2, <2>3, <2>4, <2>5 DEF Reconnect
<1>2. ASSUME NEW r \in Conns, Receive(r) PROVE Inv'
  <2>1. CASE Break(r) BY <2>1 DEF Break, Reading
  <2>2. CASE Interim(r) BY <2>2 DEF Interim, Reading, Tell
  <2>3. CASE Segment(r) BY <2>3 DEF Segment, Reading, Tell
  <2>4. CASE SpeechFinal(r) BY <2>4 DEF SpeechFinal, Reading, Tell
  <2>5. QED BY <1>2, <2>1, <2>2, <2>3, <2>4 DEF Receive
<1>3. ASSUME NEW r \in Conns, Receiver(r) PROVE Inv'
  <2>1. CASE Reconnect(r) BY <1>1, <2>1
  <2>2. CASE Handled(r) BY <2>2 DEF Handled
  <2>3. CASE Lost(r) BY <2>3 DEF Lost, Reading, TryReconnect, Return
  <2>4. CASE Exhausted(r) BY <2>4 DEF Exhausted, Reading
  <2>5. QED BY <1>3, <2>1, <2>2, <2>3, <2>4 DEF Receiver
<1>4. ASSUME NEW c \in Conns, Drop(c) PROVE Inv'
  BY <1>4 DEF Drop
<1>5. CASE Send BY <1>5 DEF Send
<1>6. CASE SendOk BY <1>6 DEF SendOk
<1>7. CASE SendFails BY <1>7 DEF SendFails, TryReconnect, Return
<1>8. CASE Close BY <1>8, CloseSafe
<1>9. CASE Join BY <1>9 DEF Join, Shut
<1>10. CASE UNCHANGED vars BY <1>10 DEF vars
<1>11. QED
  <2> SUFFICES ASSUME Next PROVE Inv'
    BY <1>10
  <2>1. CASE Owner
    BY <2>1, <1>1, <1>6, <1>7, <1>9 DEF Owner
  <2>2. CASE Send \/ Close
    BY <2>2, <1>5, <1>8
  <2>3. CASE \E c \in Conns : Receive(c) \/ Receiver(c) \/ Drop(c)
    BY <2>3, <1>2, <1>3, <1>4
  <2>4. QED BY <2>1, <2>2, <2>3 DEF Next

\* Whoever reconnects, owner, receiver or both, at most one receiver is ever
\* at work (_try_reconnect cancels the receiver task before it connects).
THEOREM NeverTwoReceivers == Spec => []OneReceiver
<1>1. Inv => OneReceiver
  BY DEF Inv, Owned
<1>2. QED BY InitSafe, NextSafe, <1>1, PTL DEF Spec

\* No connection to Deepgram is left open behind its owner's back, and none
\* once close has returned.
THEOREM NeverAnOrphan == Spec => []NoOrphan
<1>1. Inv => NoOrphan
  BY DEF Inv, Dark
<1>2. QED BY InitSafe, NextSafe, <1>1, PTL DEF Spec

-----------------------------------------------------------------------------
(* What was said.                                                           *)

\* The numbers after k, in order.
Counts(s, k) == \A i \in 1..Len(s) : s[i] = k + i

\* What was told and what waits are numbered through.
SpeechInv ==
    /\ SpeechTyped
    /\ heard = Len(told) + Len(parts)
    /\ Counts(told, 0) /\ Counts(parts, Len(told))

LEMMA Counting ==
    ASSUME NEW s \in Seq(Nat), Counts(s, 0)
    PROVE  s = [i \in 1..Len(s) |-> i]
<1>1. s = [i \in 1..Len(s) |-> s[i]]
  OBVIOUS
<1>2. QED BY <1>1 DEF Counts

\* Counting on where the first sequence ends.
LEMMA CountOn ==
    ASSUME NEW a \in Seq(Nat), NEW b \in Seq(Nat), NEW k \in Nat, Counts(a, k), Counts(b, k + Len(a))
    PROVE  a \o b \in Seq(Nat) /\ Len(a \o b) = Len(a) + Len(b) /\ Counts(a \o b, k)
<1>1. /\ a \o b \in Seq(Nat) /\ Len(a \o b) = Len(a) + Len(b)
      /\ Len(a) \in Nat /\ Len(b) \in Nat
  OBVIOUS
<1>2. ASSUME NEW i \in 1..Len(a \o b) PROVE (a \o b)[i] = k + i
  <2>1. CASE i <= Len(a)
    BY <1>1, <2>1 DEF Counts
  <2>2. CASE ~(i <= Len(a))
    <3>1. (a \o b)[i] = b[i - Len(a)]
      BY <1>1, <2>2
    <3>2. i - Len(a) \in 1..Len(b)
      BY <1>1, <2>2
    <3>3. b[i - Len(a)] = k + Len(a) + (i - Len(a))
      BY <3>2 DEF Counts
    <3>4. QED BY <1>1, <3>1, <3>3
  <2>3. QED BY <2>1, <2>2
<1>3. QED BY <1>1, <1>2 DEF Counts

LEMMA SegmentsCount ==
    ASSUME SpeechTyped, NEW s \in Segments
    PROVE  s \in Seq(Nat) /\ Len(s) \in Nat /\ Counts(s, heard)
<1>1. CASE s = <<>>
  BY <1>1 DEF Counts
<1>2. CASE s = <<heard + 1>>
  BY <1>2 DEF Counts, SpeechTyped
<1>3. QED BY <1>1, <1>2 DEF Segments

LEMMA SpeechSafe == ASSUME SpeechInv, [Next]_vars PROVE SpeechInv'
<1>0. /\ told \in Seq(Nat) /\ parts \in Seq(Nat) /\ Len(told) \in Nat /\ Len(parts) \in Nat
      /\ heard = Len(told) + Len(parts) /\ heard \in Nat
  BY DEF SpeechInv, SpeechTyped
<1>1. ASSUME NEW r \in Conns, Segment(r) PROVE SpeechInv'
  <2>1. PICK s \in Segments : heard' = heard + Len(s) /\ parts' = parts \o s /\ told' = told
    BY <1>1 DEF Segment
  <2>2. s \in Seq(Nat) /\ Len(s) \in Nat /\ Counts(s, heard)
    BY SegmentsCount DEF SpeechInv
  <2>3. parts' \in Seq(Nat) /\ Len(parts') = Len(parts) + Len(s) /\ Counts(parts', Len(told))
    BY <1>0, <2>1, <2>2, CountOn DEF SpeechInv
  <2>4. QED BY <1>0, <2>1, <2>2, <2>3 DEF SpeechInv, SpeechTyped
<1>2. ASSUME NEW r \in Conns, SpeechFinal(r) PROVE SpeechInv'
  <2>1. PICK s \in Segments :
          heard' = heard + Len(s) /\ told' = told \o parts \o s /\ parts' = <<>>
    BY <1>2 DEF SpeechFinal
  <2>2. s \in Seq(Nat) /\ Len(s) \in Nat /\ Counts(s, heard)
    BY SegmentsCount DEF SpeechInv
  <2>3. /\ told \o parts \in Seq(Nat) /\ Len(told \o parts) = heard
        /\ Counts(told \o parts, 0)
    BY <1>0, CountOn DEF SpeechInv
  <2> DEFINE f == told \o parts
  <2> HIDE DEF f
  <2>4. f \in Seq(Nat) /\ Len(f) = heard /\ Counts(f, 0) /\ told' = f \o s
    BY <2>1, <2>3 DEF f
  <2>5. told' \in Seq(Nat) /\ Len(told') = heard + Len(s) /\ Counts(told', 0)
    <3>1. 0 + Len(f) = heard /\ Counts(s, 0 + Len(f))
      BY <1>0, <2>2, <2>4
    <3>2. f \o s \in Seq(Nat) /\ Len(f \o s) = Len(f) + Len(s) /\ Counts(f \o s, 0)
      BY <2>2, <2>4, <3>1, CountOn
    <3>3. QED BY <2>4, <3>2
  <2>6. parts' \in Seq(Nat) /\ Len(parts') = 0 /\ Counts(parts', Len(told'))
    BY <2>1 DEF Counts
  <2>7. QED BY <1>0, <2>1, <2>2, <2>5, <2>6 DEF SpeechInv, SpeechTyped
<1>3. ASSUME UNCHANGED speech PROVE SpeechInv'
  BY <1>3 DEF SpeechInv, SpeechTyped, Counts, speech
<1>4. \A p \in Procs : Reconnect(p) => UNCHANGED speech
  BY DEF Reconnect, Connected, ConnectFails, Wake, Swallow, DropOld
<1>5. \A r \in Conns : Break(r) \/ Interim(r) \/ Handled(r) \/ Lost(r) \/ Exhausted(r) \/ Drop(r)
        => UNCHANGED speech
  BY DEF Break, Interim, Handled, Lost, TryReconnect, Exhausted, Drop
<1>6. Send \/ SendOk \/ SendFails \/ Close \/ Join \/ UNCHANGED vars => UNCHANGED speech
  BY DEF Send, SendOk, SendFails, TryReconnect, Close, Join, vars, speech
<1>7. 0 \in Procs /\ Conns \subseteq Procs
  BY LiveAssumption DEF Procs, Conns
<1>8. QED
  BY <1>1, <1>2, <1>3, <1>4, <1>5, <1>6, <1>7 DEF Next, Owner, Receive, Receiver

\* Every finalized segment becomes part of one turn, in order, or is still
\* in the utterance buffer, for any number of reconnections.
THEOREM ToldOnce == Spec => []SegmentsOnce
<1>1. Init => SpeechInv
  BY DEF Init, SpeechInv, SpeechTyped, Counts
<1>2. SpeechInv => SegmentsOnce
  <2> SUFFICES ASSUME SpeechInv PROVE SegmentsOnce
    OBVIOUS
  <2>1. told \o parts \in Seq(Nat) /\ Len(told \o parts) = heard /\ Counts(told \o parts, 0)
    BY CountOn DEF SpeechInv, SpeechTyped
  <2>2. QED BY <2>1, Counting DEF SegmentsOnce
<1>3. QED BY <1>1, SpeechSafe, <1>2, PTL DEF Spec

\* Every variable holds what it may hold (DeepgramLive's TypeOK): the
\* attempts of owner and receivers never pass max_reconnect_attempts together.
THEOREM LiveTypeCorrect == Spec => []TypeOK
<1>1. Init => SpeechInv
  BY DEF Init, SpeechInv, SpeechTyped, Counts
<1>2. Inv /\ SpeechInv => TypeOK
  BY DEF Inv, Typed, OwnerAt, ReceiverAt, SpeechInv, SpeechTyped, TypeOK
<1>3. QED BY InitSafe, NextSafe, <1>1, SpeechSafe, <1>2, PTL DEF Spec

\* After close no transcript is handed over: a receiver that outlived its
\* cancellation leaves its loop at the next message instead.
THEOREM ClosedIsQuiet == Spec => QuietAfterClose
<1>1. ASSUME Inv, [Next]_vars, closed, NEW r \in Conns, pc'[r] = "handle"
      PROVE  pc[r] = "handle"
  <2> USE LiveAssumption DEF Inv, Typed, Procs, Conns
  <2>1. ASSUME NEW p \in Procs, Reconnect(p) PROVE pc[r] = "handle"
    <3>1. CASE Connected(p) BY <1>1, <3>1 DEF Connected, Return
    <3>2. CASE ConnectFails(p) BY <1>1, <3>2 DEF ConnectFails, Return
    <3>3. CASE Wake(p) BY <1>1, <3>3 DEF Wake, Cancelled
    <3>4. CASE Swallow(p) BY <1>1, <3>4 DEF Swallow
    <3>5. CASE DropOld(p) BY <1>1, <3>5 DEF DropOld
    <3>6. QED BY <2>1, <3>1, <3>2, <3>3, <3>4, <3>5 DEF Reconnect
  <2>2. CASE \E c \in Conns : Receive(c) \/ Receiver(c) \/ Drop(c)
    <3>1. PICK c \in Conns : Receive(c) \/ Receiver(c) \/ Drop(c)
      BY <2>2
    <3>2. ~Interim(c) /\ ~Segment(c) /\ ~SpeechFinal(c)
      BY <1>1 DEF Interim, Segment, SpeechFinal
    <3>3. CASE Reconnect(c) BY <2>1, <3>3
    <3>4. CASE Break(c) BY <1>1, <3>4 DEF Break
    <3>5. CASE Handled(c) BY <1>1, <3>5 DEF Handled
    <3>6. CASE Lost(c) BY <1>1, <3>6 DEF Lost, TryReconnect, Return
    <3>7. CASE Exhausted(c) BY <1>1, <3>7 DEF Exhausted
    <3>8. CASE Drop(c) BY <1>1, <3>8 DEF Drop
    <3>9. QED BY <3>1, <3>2, <3>3, <3>4, <3>5, <3>6, <3>7, <3>8 DEF Receive, Receiver
  <2>3. CASE Send \/ SendOk \/ SendFails
    <3>1. \A l : r # 0 /\ [pc EXCEPT ![0] = l][r] = pc[r]
      BY DEF Conns
    <3>2. pc' = pc \/ \E l : pc' = [pc EXCEPT ![0] = l]
      BY <2>3 DEF Send, SendOk, SendFails, TryReconnect
    <3>3. QED BY <1>1, <3>1, <3>2
  <2>4. CASE Close BY <1>1, <2>4 DEF Close, Cancelled
  <2>5. CASE Join BY <1>1, <2>5 DEF Join
  <2>6. CASE UNCHANGED vars BY <1>1, <2>6 DEF vars
  <2>7. QED BY <1>1, <2>1, <2>2, <2>3, <2>4, <2>5, <2>6 DEF Next, Owner
<1>2. Inv /\ [Next]_vars =>
        [closed => \A r \in Conns : pc'[r] = "handle" => pc[r] = "handle"]_vars
  BY <1>1
<1>3. QED BY InitSafe, NextSafe, <1>2, PTL DEF Spec, QuietAfterClose

-----------------------------------------------------------------------------
(* After close.                                                             *)

\* Close finds no receiver in a turn, and when it has returned the only one
\* that may be left reads from a connection that is shut.
Settled ==
    /\ closed => \A r \in Conns : pc[r] # "handle"
    /\ pc[0] = "over" => \A r \in Conns : Alive(r) => pc[r] = "listen" /\ conn[r] # "open"

LEMMA SettledStep == ASSUME Inv, Settled, [Next]_vars PROVE Settled'
<1> USE LiveAssumption DEF Inv, Typed, Procs, Conns, OwnerAt, ReceiverAt, Alive
<1>1. CASE ~closed
  <2>1. CASE Close
    <3>1. /\ pc'[0] = "join"
          /\ \A r \in Conns : pc'[r] = IF r = task /\ pc[r] # "swallow" THEN "done" ELSE pc[r]
      BY <2>1, CancelledTyped DEF Close
    <3>2. \A r \in Conns : pc'[r] # "handle"
      BY <2>1, <3>1 DEF Owned, Close
    <3>3. QED BY <3>1, <3>2 DEF Settled
  <2>2. CASE ~Close
    <3>1. pc[0] \notin {"join", "over"}
      BY <1>1 DEF Ending
    <3>2. closed' = closed
      BY <2>2, <3>1 DEF Next, Owner, Reconnect, Connected, ConnectFails, Wake, Swallow, DropOld,
             Send, SendOk, SendFails, TryReconnect, Join, Receive, Break, Interim, Segment,
             SpeechFinal, Receiver, Handled, Lost, Exhausted, Drop, vars
    <3>3. Ending'
      BY NextSafe
    <3>4. QED BY <1>1, <3>2, <3>3 DEF Settled, Ending
  <2>3. QED BY <2>1, <2>2
<1>2. CASE closed
  <2>1. /\ pc[0] \in {"join", "over"} /\ \A r \in Conns : pc[r] \notin {"sleep", "handle"}
    BY <1>2 DEF Ending, Settled
  <2>2. ASSUME NEW r \in Conns, Receive(r) \/ Receiver(r) \/ Drop(r)
        PROVE  Settled'
    <3>1. CASE Connected(r)
      BY <1>2, <2>1, <3>1 DEF Connected, Unused, Return, Settled, Ending
    <3>2. CASE ConnectFails(r) \/ Swallow(r) \/ DropOld(r)
      <4>1. pc[0] = "join" /\ closed'
        BY <1>2, <2>1, <3>2 DEF ConnectFails, Swallow, DropOld, Ending
      <4>2. PICK l \in {"done", "drop", "connect"} : pc' = [pc EXCEPT ![r] = l]
        BY <3>2 DEF ConnectFails, Return, Swallow, DropOld
      <4>3. pc'[0] = "join" /\ \A q \in Conns : pc'[q] # "handle"
        BY <2>1, <4>1, <4>2
      <4>4. QED BY <4>3 DEF Settled
    <3>3. CASE Break(r) \/ Exhausted(r) \/ Lost(r)
      <4>0. r # 0 /\ Return(r) = "done"
        BY DEF Return
      <4>1. pc' = [pc EXCEPT ![r] = "done"]
        <5>1. Break(r) \/ Exhausted(r) => pc' = [pc EXCEPT ![r] = "done"]
          BY DEF Break, Exhausted
        <5>2. Lost(r) => pc' = [pc EXCEPT ![r] = "done"]
          BY <1>2, <4>0 DEF Lost, TryReconnect
        <5>3. QED BY <3>3, <5>1, <5>2
      <4>2. UNCHANGED conn
        BY <3>3 DEF Break, Exhausted, Lost, TryReconnect
      <4>3. pc'[0] = pc[0] /\ \A q \in Conns : pc'[q] \in {pc[q], "done"}
        BY <4>1
      <4>4. QED BY <2>1, <4>2, <4>3 DEF Settled
    <3>4. CASE Drop(r)
      BY <1>2, <2>1, <3>4 DEF Drop, Settled
    <3>5. ~Wake(r) /\ ~Interim(r) /\ ~Segment(r) /\ ~SpeechFinal(r) /\ ~Handled(r)
      BY <1>2, <2>1 DEF Wake, Interim, Segment, SpeechFinal, Handled
    <3>6. QED BY <2>2, <3>1, <3>2, <3>3, <3>4, <3>5 DEF Receive, Receiver, Reconnect
  <2>3. CASE Join
    <3>1. task' = 0 /\ ws' = 0 /\ pc' = [pc EXCEPT ![0] = "over"] /\ closed' = closed
          /\ (task # 0 => pc[task] \notin {"swallow", "drop", "connect"})
      BY <2>3 DEF Join
    <3>2. \A c \in Conns : conn'[c] # "open"
      BY <2>3 DEF Join, Shut, Dark, NoOrphan
    <3>3. \A r \in Conns : Alive(r) => r = task
      BY <2>3 DEF Join, Owned
    <3>4. QED BY <2>1, <3>1, <3>2, <3>3 DEF Settled
  <2>4. CASE UNCHANGED vars
    BY <2>4 DEF vars, Settled
  <2>5. ~Reconnect(0) /\ ~SendOk /\ ~SendFails /\ ~Send /\ ~Close
    BY <2>1 DEF Reconnect, Connected, ConnectFails, Wake, Swallow, DropOld, SendOk, SendFails,
           Send, Close
  <2>6. QED BY <2>2, <2>3, <2>4, <2>5 DEF Next, Owner
<1>3. QED BY <1>1, <1>2

\* What close promises, short of its coming to its end: it never leaves a turn
\* running, nor a receiver that could still hear anything or reconnect; the one
\* that outlived its cancellation has its connection shut and only to leave.
THEOREM CloseLeavesNothing ==
  Spec => [](/\ closed => \A r \in Conns : pc[r] # "handle"
             /\ pc[0] = "over" =>
                   \A r \in Conns : Alive(r) => pc[r] = "listen" /\ conn[r] # "open")
<1>1. Init => Settled
  BY LiveAssumption DEF Init, Settled, Procs, Conns
<1>2. QED BY <1>1, InitSafe, NextSafe, SettledStep, PTL DEF Spec, Settled

-----------------------------------------------------------------------------
(* One link, one listener: the session is a LiveLink.                       *)

\* The listener, as a function of where the receivers are, and what a receiver
\* at w is as the only one alive.
ListenerOf(f) ==
    IF \E r \in Conns : f[r] = "handle" THEN "tells"
    ELSE IF \E r \in Conns : f[r] \notin {"none", "done"} THEN "reads" ELSE "none"

As(w) == IF w = "handle" THEN "tells" ELSE IF w \in {"none", "done"} THEN "none" ELSE "reads"

LEMMA ListenerAlone ==
    ASSUME NEW f, NEW r \in Conns, \A q \in Conns : f[q] \notin {"none", "done"} => q = r
    PROVE  ListenerOf(f) = As(f[r])
  BY DEF ListenerOf, As

\* The listener follows the one receiver alive ...
LEMMA ReceiverMoves ==
    ASSUME Inv, NEW r \in Conns, Alive(r), NEW l, pc' = [pc EXCEPT ![r] = l]
    PROVE  Listener = As(pc[r]) /\ Listener' = As(l) /\ pc'[0] = pc[0]
<1>1. pc'[r] = l /\ \A q \in Procs \ {r} : pc'[q] = pc[q]
  BY DEF Inv, Typed, Procs, Conns
<1>2. \A q \in Conns : pc[q] \notin {"none", "done"} => q = r
  BY DEF Inv, Owned, OneReceiver, Alive
<1>3. \A q \in Conns : pc'[q] \notin {"none", "done"} => q = r
  BY <1>1, <1>2 DEF Procs, Conns
<1>4. Listener = ListenerOf(pc) /\ Listener' = ListenerOf(pc')
  BY DEF Listener, ListenerOf, Alive
<1>5. r # 0 /\ 0 \in Procs
  BY LiveAssumption DEF Procs, Conns
<1>6. QED BY <1>1, <1>2, <1>3, <1>4, <1>5, ListenerAlone

\* ... and nothing that the owner does by itself.
LEMMA OwnerMoves ==
    ASSUME Inv, NEW l, pc' = [pc EXCEPT ![0] = l]
    PROVE  Listener' = Listener /\ pc'[0] = l
<1>1. pc'[0] = l /\ \A q \in Conns : pc'[q] = pc[q]
  BY LiveAssumption DEF Inv, Typed, Procs, Conns
<1>2. QED BY <1>1 DEF Listener, Alive

LinkStutters == UNCHANGED <<Linked, Listener, Phase, heard, told>>

\* The link and the phase stay what they are.
LEMMA SameLink == ASSUME UNCHANGED conn PROVE UNCHANGED Linked
  BY DEF Linked

LEMMA SamePhase ==
    ASSUME UNCHANGED closed, pc[0] # "over", pc'[0] # "over" PROVE UNCHANGED Phase
  BY DEF Phase

\* Closing the old connection closes the link, for there is no other.
LEMMA ShutUnlinks ==
    ASSUME Inv, Shut(ws) PROVE Linked' = FALSE
<1>1. \A c \in Conns : conn[c] = "open" => c = ws
  BY DEF Inv, Dark, NoOrphan
<1>2. conn \in [Conns -> {"none", "open", "lost", "closed"}]
  BY DEF Inv, Typed
<1>3. \A c \in Conns : conn'[c] # "open"
  <2>1. CASE ws # 0 /\ conn[ws] = "open"
    BY <1>1, <1>2, <2>1 DEF Shut
  <2>2. CASE ~(ws # 0 /\ conn[ws] = "open")
    BY <1>1, <1>2, <2>2 DEF Shut, Conns
  <2>3. QED BY <2>1, <2>2
<1>4. QED BY <1>3 DEF Linked

LEMMA ConnectedLinks ==
    ASSUME Inv, NEW p \in Procs, Connected(p) PROVE Link!Restore
<1>1. PICK c \in Conns :
        /\ conn[c] = "none"
        /\ conn' = [conn EXCEPT ![c] = "open"]
        /\ pc' = [pc EXCEPT ![p] = Return(p), ![c] = "listen"]
  BY DEF Connected, Unused
<1>2. pc[p] = "connect" /\ UNCHANGED <<closed, speech>> /\ pc[c] = "none" /\ p # c
  BY <1>1 DEF Connected, Inv, Typed
<1>3. pc[0] # "over" /\ pc'[0] # "over"
  BY <1>1, <1>2, LiveAssumption DEF Inv, Typed, Ending, Return, Procs, Conns
<1>4. Linked = FALSE /\ Linked' = TRUE
  BY <1>1, <1>2 DEF Linked, Inv, Typed, Dark
<1>5. Listener \in {"none", "reads"}
  <2>1. \A r \in Conns : pc[r] # "handle"
    BY <1>2 DEF Inv, Owned, OneReceiver, Alive, Procs, Conns
  <2>2. QED BY <2>1 DEF Listener
<1>6. Listener' = "reads"
  <2>1. pc'[c] = "listen" /\ \A q \in Procs \ {c, p} : pc'[q] = pc[q]
    BY <1>1, <1>2 DEF Inv, Typed, Procs, Conns
  <2>2. p # 0 => pc'[p] = "done"
    BY <1>1, <1>2 DEF Return, Inv, Typed
  <2>3. \A q \in Conns : pc'[q] \notin {"none", "done"} => q = c
    BY <1>2, <2>1, <2>2 DEF Inv, Owned, OneReceiver, Alive, Procs, Conns
  <2>4. Listener' = ListenerOf(pc')
    BY DEF Listener, ListenerOf, Alive
  <2>5. QED BY <2>1, <2>3, <2>4, ListenerAlone DEF As
<1>7. UNCHANGED Phase /\ Phase # "over"
  BY <1>2, <1>3 DEF Phase
<1>8. QED BY <1>2, <1>4, <1>5, <1>6, <1>7 DEF Link!Restore, speech

\* What the owner's own reconnection does but for connecting: it silences the
\* receiver, and takes the old link down.
LEMMA OwnerReconnectLinks ==
    ASSUME Inv, ConnectFails(0) \/ Wake(0) \/ Swallow(0) \/ DropOld(0)
    PROVE  Link!Leave \/ Link!Fall \/ LinkStutters
<1> USE DEF Return
<1>0. 0 \in Procs /\ UNCHANGED <<closed, speech>>
  BY LiveAssumption DEF Procs, Conns, ConnectFails, Wake, Swallow, DropOld
<1>1. CASE ConnectFails(0)
  <2>1. UNCHANGED Listener /\ pc'[0] = "idle"
    BY <1>1, OwnerMoves DEF ConnectFails
  <2>2. UNCHANGED <<Linked, Phase>>
    BY <1>0, <1>1, <2>1, SameLink, SamePhase DEF ConnectFails
  <2>3. QED BY <1>0, <2>1, <2>2 DEF LinkStutters, speech
<1>2. CASE Wake(0)
  <2>1. /\ pc'[0] = "drop"
        /\ \A r \in Conns : pc'[r] = IF r = task THEN "done" ELSE pc[r]
    BY <1>2, CancelledTyped, LiveAssumption DEF Wake, Inv, Typed, Procs, Conns
  <2>2. \A r \in Conns : pc'[r] \in {"none", "done"}
    BY <1>2, <2>1 DEF Inv, Owned, Alive, Wake
  <2>3. Listener' = "none"
    BY <2>2 DEF Listener, Alive
  <2>4. UNCHANGED <<Linked, Phase>>
    BY <1>0, <1>2, <2>1, SameLink, SamePhase DEF Wake
  <2>5. CASE Listener = "none"
    BY <1>0, <2>3, <2>4, <2>5 DEF LinkStutters, speech
  <2>6. CASE Listener # "none"
    BY <1>0, <2>3, <2>4, <2>6 DEF Link!Leave, speech
  <2>7. QED BY <2>5, <2>6
<1>3. CASE Swallow(0)
  BY <1>3 DEF Swallow, Inv, Typed, OwnerAt
<1>4. CASE DropOld(0)
  <2>1. UNCHANGED Listener /\ pc'[0] = "connect"
    BY <1>4, OwnerMoves DEF DropOld
  <2>2. UNCHANGED Phase
    BY <1>0, <1>4, <2>1, SamePhase DEF DropOld
  <2>3. Linked' = FALSE
    BY <1>4, ShutUnlinks DEF DropOld
  <2>4. CASE Linked
    BY <1>0, <2>1, <2>2, <2>3, <2>4 DEF Link!Fall, speech
  <2>5. CASE ~Linked
    <3>1. Linked = FALSE
      BY <2>5 DEF Linked
    <3>2. QED BY <1>0, <2>1, <2>2, <2>3, <3>1 DEF LinkStutters, speech
  <2>6. QED BY <2>4, <2>5
<1>5. QED BY <1>1, <1>2, <1>3, <1>4

\* A receiver that moves from one place of the reconnection to the next, or
\* ends, without a word of speech.
LEMMA ReceiverReconnectLinks ==
    ASSUME Inv, NEW r \in Conns, ConnectFails(r) \/ Wake(r) \/ Swallow(r) \/ DropOld(r) \/ Lost(r)
           \/ Break(r) \/ Exhausted(r)
    PROVE  Link!Leave \/ Link!Fall \/ LinkStutters
<1>0. UNCHANGED <<closed, speech>> /\ r # 0 /\ Return(r) = "done" /\ Alive(r)
  BY DEF ConnectFails, Wake, Swallow, DropOld, Lost, TryReconnect, Break, Exhausted, Reading,
         Conns, Return, Alive
<1>1. PICK l \in {"sleep", "swallow", "drop", "connect", "done"} : pc' = [pc EXCEPT ![r] = l]
  <2>1. Wake(r) => task = r /\ pc' = [pc EXCEPT ![r] = "swallow"]
    BY <1>0 DEF Wake, Inv, Typed, Owned, Ending
  <2>2. QED
    BY <1>0, <2>1 DEF ConnectFails, Swallow, DropOld, Lost, TryReconnect, Break, Exhausted
<1>2. pc[r] \in {"connect", "sleep", "swallow", "drop", "listen"}
  BY DEF ConnectFails, Wake, Swallow, DropOld, Lost, Break, Exhausted, Reading
<1>3. Listener = "reads" /\ Listener' = As(l) /\ pc'[0] = pc[0]
  BY <1>0, <1>1, <1>2, ReceiverMoves DEF As
<1>4. UNCHANGED Phase
  BY <1>0, <1>3 DEF Phase
<1>5. CASE l = "done"
  <2>1. Listener' = "none"
    BY <1>3, <1>5 DEF As
  <2>2. UNCHANGED Linked
    <3>1. UNCHANGED conn
      <4>1. DropOld(r) => pc' = [pc EXCEPT ![r] = "connect"]
        BY DEF DropOld
      <4>2. ~DropOld(r)
        BY <1>0, <1>1, <1>5, <4>1 DEF Inv, Typed, Procs, Conns
      <4>3. QED
        BY <4>2 DEF ConnectFails, Wake, Swallow, Lost, TryReconnect, Break, Exhausted
    <3>2. QED BY <3>1, SameLink
  <2>3. QED BY <1>0, <1>3, <1>4, <2>1, <2>2 DEF Link!Leave, speech
<1>6. CASE l # "done"
  <2>1. UNCHANGED Listener
    BY <1>1, <1>3, <1>6 DEF As
  <2>2. CASE DropOld(r)
    <3>1. Linked' = FALSE
      BY <2>2, ShutUnlinks DEF DropOld
    <3>2. CASE Linked
      BY <1>0, <1>4, <2>1, <3>1, <3>2 DEF Link!Fall, speech
    <3>3. CASE ~Linked
      <4>1. Linked = FALSE
        BY <3>3 DEF Linked
      <4>2. QED BY <1>0, <1>4, <2>1, <3>1, <4>1 DEF LinkStutters, speech
    <3>4. QED BY <3>2, <3>3
  <2>3. CASE ~DropOld(r)
    <3>1. UNCHANGED conn
      BY <2>3 DEF ConnectFails, Wake, Swallow, Lost, TryReconnect, Break, Exhausted
    <3>2. QED BY <1>0, <1>4, <2>1, <3>1, SameLink DEF LinkStutters, speech
  <2>4. QED BY <2>2, <2>3
<1>7. QED BY <1>5, <1>6

\* A message is heard and told, in the order of the segments.
LEMMA HearingLinks ==
    ASSUME Inv, SpeechInv, SpeechInv', NEW r \in Conns, Interim(r) \/ Segment(r) \/ SpeechFinal(r)
    PROVE  Link!Listen
<1>1. PICK something \in BOOLEAN : Tell(r, something) /\ (told' # told => something)
  <2>1. CASE Interim(r)
    <3>1. PICK text \in BOOLEAN : Tell(r, text \/ parts # <<>>)
      BY <2>1 DEF Interim
    <3>2. QED BY <2>1, <3>1 DEF Interim, speech
  <2>2. CASE Segment(r)
    BY <2>2 DEF Segment
  <2>3. CASE SpeechFinal(r)
    <3>1. PICK s \in Segments : told' = told \o parts \o s /\ Tell(r, parts \o s # <<>>)
      BY <2>3 DEF SpeechFinal
    <3>2. s \in Seq(Nat) /\ told \in Seq(Nat) /\ parts \in Seq(Nat)
      BY SegmentsCount DEF SpeechInv, SpeechTyped
    <3>3. parts \o s = <<>> => told' = told
      BY <3>1, <3>2
    <3>4. QED BY <3>1, <3>3
  <2>4. QED BY <2>1, <2>2, <2>3
<1>2. pc[r] = "listen" /\ ~closed /\ UNCHANGED <<closed, conn>>
  BY DEF Interim, Segment, SpeechFinal, Reading
<1>3. PICK l \in {"listen", "handle"} : /\ pc' = [pc EXCEPT ![r] = l]
                                        /\ told' # told => l = "handle"
  <2>1. pc = [pc EXCEPT ![r] = "listen"]
    BY <1>2 DEF Inv, Typed
  <2>2. QED BY <1>1, <2>1 DEF Tell
<1>4. Listener = "reads" /\ Listener' = As(l) /\ pc'[0] = pc[0]
  <2>1. Alive(r) /\ As("listen") = "reads"
    BY <1>2 DEF Alive, As
  <2>2. QED BY <1>2, <1>3, <2>1, ReceiverMoves
<1>5. Phase = "open" /\ UNCHANGED <<Phase, Linked>>
  <2>1. pc[0] # "over"
    BY <1>2 DEF Inv, Ending
  <2>2. QED BY <1>2, <1>4, <2>1, SameLink DEF Phase
<1>6. heard' \in {heard, heard + 1}
  <2>1. \A s \in Segments : Len(s) \in {0, 1}
    BY DEF Segments
  <2>2. heard \in Nat
    BY DEF SpeechInv, SpeechTyped
  <2>3. Interim(r) => heard' = heard
    BY DEF Interim, speech
  <2>4. Segment(r) \/ SpeechFinal(r) => \E s \in Segments : heard' = heard + Len(s)
    BY DEF Segment, SpeechFinal
  <2>5. CASE \E s \in Segments : heard' = heard + Len(s)
    <3>1. PICK s \in Segments : heard' = heard + Len(s)
      BY <2>5
    <3>2. CASE Len(s) = 0
      BY <2>2, <3>1, <3>2
    <3>3. CASE Len(s) = 1
      BY <3>1, <3>3
    <3>4. QED BY <2>1, <3>2, <3>3
  <2>6. QED BY <2>3, <2>4, <2>5
<1>7. told' \in {told, [i \in 1..heard' |-> i]}
  <2>1. CASE SpeechFinal(r)
    <3>1. parts' = <<>>
      BY <2>1 DEF SpeechFinal
    <3>2. told' \in Seq(Nat) /\ Counts(told', 0) /\ Len(told') = heard'
      BY <3>1 DEF SpeechInv, SpeechTyped, Counts
    <3>3. \A t \in Seq(Nat) : Counts(t, 0) => t = [i \in 1..Len(t) |-> i]
      BY Counting
    <3>4. QED BY <3>2, <3>3
  <2>2. CASE ~SpeechFinal(r)
    BY <2>2 DEF Interim, Segment, speech
  <2>3. QED BY <2>1, <2>2
<1>8. Listener' \in {"reads", "tells"} /\ (told' # told => Listener' = "tells")
  BY <1>3, <1>4 DEF As
<1>9. QED BY <1>4, <1>5, <1>6, <1>7, <1>8 DEF Link!Listen

\* on_transcript returns, or raises.
LEMMA HandledLinks == ASSUME Inv, NEW r \in Conns, Handled(r) PROVE Link!Return \/ Link!Leave
<1>1. PICK l \in {"listen", "done"} : pc' = [pc EXCEPT ![r] = l]
  BY DEF Handled
<1>2. pc[r] = "handle" /\ Alive(r) /\ UNCHANGED <<closed, conn, speech>>
  BY DEF Handled, Alive
<1>3. Listener = "tells" /\ Listener' = As(l) /\ pc'[0] = pc[0]
  BY <1>1, <1>2, ReceiverMoves DEF As
<1>4. UNCHANGED <<Phase, Linked>>
  BY <1>2, <1>3, SameLink DEF Phase
<1>5. Listener' \in {"reads", "none"}
  BY <1>3 DEF As
<1>6. QED BY <1>2, <1>3, <1>4, <1>5 DEF Link!Return, Link!Leave, speech

\* The only connection there is ends.
LEMMA DropLinks == ASSUME Inv, NEW c \in Conns, Drop(c) PROVE Link!Fall
<1>1. UNCHANGED <<pc, closed, speech>> /\ Linked
  BY DEF Drop, Linked
<1>2. Linked' = FALSE
  <2>1. PICK how \in {"lost", "closed"} : conn' = [conn EXCEPT ![c] = how]
    BY DEF Drop
  <2>2. \A d \in Conns : conn[d] = "open" => d = c
    BY DEF Drop, Inv, Dark, NoOrphan
  <2>3. \A d \in Conns : conn'[d] # "open"
    BY <2>1, <2>2 DEF Inv, Typed
  <2>4. QED BY <2>3 DEF Linked
<1>3. UNCHANGED <<Listener, Phase>>
  BY <1>1 DEF Listener, Alive, Phase
<1>4. QED BY <1>1, <1>2, <1>3 DEF Link!Fall, speech

\* Sending audio shows nothing of itself, and neither does the decision to
\* reconnect.
LEMMA SendLinks == ASSUME Inv, Send \/ SendOk \/ SendFails PROVE LinkStutters
<1>1. UNCHANGED <<closed, conn, speech>> /\ pc[0] \in {"idle", "send"}
  BY DEF Send, SendOk, SendFails, TryReconnect
<1>2. PICK l \in {"send", "idle", "sleep"} : pc' = [pc EXCEPT ![0] = l]
  BY DEF Send, SendOk, SendFails, TryReconnect, Return
<1>3. UNCHANGED Listener /\ pc'[0] = l
  BY <1>2, OwnerMoves
<1>4. UNCHANGED <<Phase, Linked>>
  BY <1>1, <1>3, SameLink, SamePhase
<1>5. QED BY <1>1, <1>3, <1>4 DEF LinkStutters, speech

\* close ends a turn, if there is one, and spares only who swallows.
LEMMA CloseLinks == ASSUME Inv, Close PROVE Link!Close
<1>1. /\ pc[0] = "idle" /\ closed' = TRUE /\ ~closed
      /\ UNCHANGED <<conn, speech>>
  BY DEF Close, Inv, Ending
<1>2. /\ pc'[0] = "join"
      /\ \A r \in Conns : pc'[r] = IF r = task /\ pc[r] # "swallow" THEN "done" ELSE pc[r]
  BY CancelledTyped, LiveAssumption DEF Close, Inv, Typed, Procs, Conns
<1>3. Phase = "open" /\ Phase' = "closing" /\ UNCHANGED Linked
  BY <1>1, <1>2, SameLink DEF Phase
<1>4. CASE \E r \in Conns : pc[r] = "swallow"
  <2>1. PICK r \in Conns : pc[r] = "swallow"
    BY <1>4
  <2>2. \A q \in Conns : pc[q] \notin {"none", "done"} => q = r
    BY <2>1 DEF Inv, Owned, OneReceiver, Alive
  <2>3. pc'[r] = "swallow" /\ \A q \in Conns : pc'[q] \notin {"none", "done"} => q = r
    BY <1>2, <2>1, <2>2
  <2>4. Listener = ListenerOf(pc) /\ Listener' = ListenerOf(pc')
    BY DEF Listener, ListenerOf, Alive
  <2>5. Listener = "reads" /\ Listener' = "reads"
    BY <2>1, <2>2, <2>3, <2>4, ListenerAlone DEF As
  <2>6. QED BY <1>1, <1>3, <2>5 DEF Link!Close, speech
<1>5. CASE \A r \in Conns : pc[r] # "swallow"
  <2>1. \A r \in Conns : pc'[r] \in {"none", "done"}
    BY <1>1, <1>2, <1>5 DEF Inv, Owned, Alive
  <2>2. Listener' = "none"
    BY <2>1 DEF Listener, Alive
  <2>3. QED BY <1>1, <1>3, <2>2 DEF Link!Close, speech
<1>6. QED BY <1>4, <1>5

\* ... and returns when the link is down.
LEMMA JoinLinks == ASSUME Inv, Join PROVE Link!Finish
<1>1. /\ pc[0] = "join" /\ pc' = [pc EXCEPT ![0] = "over"] /\ Shut(ws)
      /\ UNCHANGED <<closed, speech>> /\ closed
  BY DEF Join, Inv, Ending
<1>2. UNCHANGED Listener /\ pc'[0] = "over"
  BY <1>1, OwnerMoves
<1>3. Phase = "closing" /\ Phase' = "over"
  BY <1>1, <1>2 DEF Phase
<1>4. QED BY <1>1, <1>2, <1>3, ShutUnlinks DEF Link!Finish, speech

LEMMA LinkStep ==
    ASSUME Inv, SpeechInv, SpeechInv', [Next]_vars PROVE Link!Next \/ LinkStutters
<1>1. ASSUME NEW r \in Conns, Receive(r) \/ Receiver(r) \/ Drop(r)
      PROVE  Link!Next \/ LinkStutters
  <2>1. CASE Connected(r)
    <3>1. r \in Procs
      BY DEF Procs, Conns
    <3>2. QED BY <2>1, <3>1, ConnectedLinks DEF Link!Next
  <2>2. CASE ConnectFails(r) \/ Wake(r) \/ Swallow(r) \/ DropOld(r) \/ Lost(r) \/ Break(r)
             \/ Exhausted(r)
    BY <2>2, ReceiverReconnectLinks DEF Link!Next
  <2>3. CASE Interim(r) \/ Segment(r) \/ SpeechFinal(r)
    BY <2>3, HearingLinks DEF Link!Next
  <2>4. CASE Handled(r)
    BY <2>4, HandledLinks DEF Link!Next
  <2>5. CASE Drop(r)
    BY <2>5, DropLinks DEF Link!Next
  <2>6. QED BY <1>1, <2>1, <2>2, <2>3, <2>4, <2>5 DEF Receive, Receiver, Reconnect
<1>2. CASE Reconnect(0)
  <2>1. 0 \in Procs
    BY LiveAssumption DEF Procs
  <2>2. QED BY <1>2, <2>1, ConnectedLinks, OwnerReconnectLinks DEF Reconnect, Link!Next
<1>3. CASE Send \/ SendOk \/ SendFails
  BY <1>3, SendLinks
<1>4. CASE Close
  BY <1>4, CloseLinks DEF Link!Next
<1>5. CASE Join
  BY <1>5, JoinLinks DEF Link!Next
<1>6. CASE UNCHANGED vars
  BY <1>6 DEF vars, LinkStutters, Linked, Listener, Alive, Phase
<1>7. QED BY <1>1, <1>2, <1>3, <1>4, <1>5, <1>6 DEF Next, Owner

\* However owner and receivers reconnect over each other, what the owner sees
\* is LiveLink: one link that falls and is restored, but not in the middle of a
\* turn, one listener, every segment told in order, and nothing told after
\* close.
THEOREM LiveImplementsLink == Spec => ImplementsLink
<1>1. Init => Link!Init
  BY LiveAssumption
     DEF Init, Link!Init, Linked, Listener, Alive, Phase, Procs, Conns
<1>2. Init => SpeechInv
  BY DEF Init, SpeechInv, SpeechTyped, Counts
<1>3. Inv /\ SpeechInv /\ SpeechInv' /\ [Next]_vars => [Link!Next]_(Link!vars)
  BY LinkStep DEF LinkStutters, Link!vars
<1>4. QED
  BY <1>1, <1>2, <1>3, InitSafe, NextSafe, SpeechSafe, PTL DEF Spec, ImplementsLink, Link!Spec
=============================================================================
