-------------------------- MODULE StreamTokenProofs --------------------------
(***************************************************************************)
(* What holds of StreamToken for any number of connections, any TTL and    *)
(* any resolution of the clock.                                            *)
(***************************************************************************)
EXTENDS StreamToken, TLAPS

Verifying == {"look", "take", "peek", "remove", "bind"}

\* A key that is live has a TTL, and that reaches the token's last second.
Reaching(e) == e.ttl # Endless /\ (Live(e) => now + e.ttl >= expires * Second)

\* So does the TTL computed by a connection that is being verified, and the
\* nonce that the webhook is about to set; nobody connects before the webhook
\* has answered.
Timely ==
    /\ webhook = "sign" => nonce = Absent /\ bound = Absent
    /\ webhook # "sign" =>
          expires <= Clock + Ttl /\ now + Ttl * Second >= expires * Second
    /\ webhook # "answered" => \A c \in Conns : pc[c] = "idle"
    /\ Reaching(nonce) /\ Reaching(bound)
    /\ \A c \in Conns : pc[c] \in Verifying =>
          remaining[c] >= 1 /\ now + remaining[c] * Second >= expires * Second

Inv == TypeOK /\ Timely /\ TokenUsable

-----------------------------------------------------------------------------
(* The clock and the keys.                                                  *)

\* The full seconds in n ticks.
LEMMA Seconds ==
    ASSUME NEW n \in Nat
    PROVE  /\ n \div Second \in Nat
           /\ (n \div Second) * Second <= n
           /\ n \div Second <= (n + 1) \div Second
  BY SecondAssumption

\* A TTL computed from the full second covers what is left of the expiry.
LEMMA Reaches ==
    ASSUME NEW n \in Nat, NEW e \in Nat, NEW r \in Nat, r >= e - (n \div Second)
    PROVE  n + r * Second >= e * Second
  BY Seconds, SecondAssumption

\* What SET leaves is an entry with the TTL it was given.
LEMMA PutFacts ==
    ASSUME NEW r \in Nat, r >= 1
    PROVE  /\ Put(1, r) \in Entry
           /\ Live(Put(1, r))
           /\ Put(1, r).ttl = r * Second
           /\ Put(1, r).ttl \in Nat \ {0}
  <1>1. r * Second \in Nat \ {0}
    BY SecondAssumption
  <1>. QED
    BY <1>1 DEF Put, Entry, Live

LEMMA TtlFacts == \A e \in Entry : e.ttl \in Int /\ (Live(e) => e.ttl = Endless \/ e.ttl >= 1)
  BY DEF Entry, Absent, Endless, Live

\* A tick takes no more than a tick from the TTL of an entry.
LEMMA AgedFacts ==
    ASSUME NEW e \in Entry, e.ttl # Endless
    PROVE  /\ Aged(e) \in Entry
           /\ Aged(e).ttl # Endless
           /\ Live(Aged(e)) => Live(e) /\ Aged(e).ttl = e.ttl - 1
           /\ Live(e) /\ e.ttl > 1 => Live(Aged(e))
  <1>1. CASE e = Absent
    BY <1>1 DEF Aged, Absent, Live, Entry, Endless
  <1>2. CASE e \in [val : Nat \ {0}, ttl : (Nat \ {0}) \cup {Endless}]
    <2>1. CASE e.ttl = 1
      BY <1>2, <2>1 DEF Aged, Absent, Live, Entry, Endless
    <2>2. CASE e.ttl > 1
      <3>1. Aged(e) = [e EXCEPT !.ttl = @ - 1]
        BY <1>2, <2>2 DEF Aged
      <3>2. Aged(e).ttl = e.ttl - 1 /\ Aged(e).val = e.val /\ e.ttl - 1 \in Nat \ {0}
        BY <1>2, <2>2, <3>1 DEF Endless
      <3>3. Aged(e) \in [val : Nat \ {0}, ttl : (Nat \ {0}) \cup {Endless}]
        BY <1>2, <3>1, <3>2
      <3>. QED
        BY <3>2, <3>3 DEF Live, Entry, Endless
    <2>. QED
      BY <1>2, <2>1, <2>2 DEF Endless
  <1>. QED
    BY <1>1, <1>2 DEF Entry

-----------------------------------------------------------------------------
(* The type.                                                                *)

LEMMA TypeInit == Init => TypeOK
  <1>. SUFFICES ASSUME Init
                PROVE  TypeOK
    OBVIOUS
  <1>1. now \in Nat /\ expires \in Nat
    BY SecondAssumption DEF Init
  <1>2. pc \in [Conns -> PCs] /\ remaining \in [Conns -> 0 .. Ttl]
    BY StreamAssumption DEF Init, PCs
  <1>3. nonce \in Entry /\ bound \in Entry
    BY DEF Init, Entry
  <1>. QED
    BY <1>1, <1>2, <1>3 DEF Init, TypeOK, Statuses

LEMMA TypeStep ==
    ASSUME TypeOK, Timely, [Next]_vars
    PROVE  TypeOK'
  <1>1. CASE Sign
    <2>1. expires' \in Nat
      BY <1>1, Seconds, StreamAssumption DEF TypeOK, Sign, Clock
    <2>. QED
      BY <1>1, <2>1 DEF TypeOK, Sign, keys, twilio
  <1>2. CASE SetNew
    BY <1>2, PutFacts, StreamAssumption DEF TypeOK, SetNew, PutNew, twilio
  <1>3. CASE SetAgain
    BY <1>3, PutFacts, StreamAssumption DEF TypeOK, SetAgain, twilio
  <1>4. CASE Tick
    BY <1>4, AgedFacts DEF TypeOK, Timely, Reaching, Tick, token, twilio
  <1>5. CASE HangUp
    BY <1>5 DEF TypeOK, HangUp, token, keys
  <1>6. CASE Callback
    BY <1>6 DEF TypeOK, Callback, token, keys, twilio, Statuses
  <1>7. ASSUME NEW c \in Conns, Verify(c)
        PROVE  TypeOK'
    <2>1. CASE Connect(c)
      <3>1. remaining' \in [Conns -> 0 .. Ttl]
        <4>1. CASE Expired
          BY <2>1, <4>1 DEF Connect, TypeOK
        <4>2. CASE ~Expired
          <5>1. Clock \in Nat /\ webhook # "sign"
            BY <2>1, Seconds DEF TypeOK, Clock, Connect
          <5>2. (IF expires - Clock < 1 THEN 1 ELSE expires - Clock) \in 0 .. Ttl
            BY <5>1, StreamAssumption DEF TypeOK, Timely
          <5>. QED
            BY <2>1, <4>2, <5>2 DEF Connect, TypeOK
        <4>. QED
          BY <4>1, <4>2
      <3>. QED
        BY <2>1, <3>1 DEF Connect, TypeOK, Goto, PCs, token, keys
    <2>2. CASE Look(c)
      BY <2>2 DEF Look, TypeOK, Goto, PCs, token, keys, twilio
    <2>3. CASE Take(c)
      BY <2>3 DEF Take, TypeOK, Goto, PCs, Refuse, token, Entry
    <2>4. CASE TakeRaises(c)
      BY <2>4 DEF TakeRaises, TypeOK, Goto, PCs, token, twilio, Entry
    <2>5. CASE Peek(c)
      BY <2>5 DEF Peek, TypeOK, Goto, PCs, Refuse, token, keys
    <2>6. CASE Remove(c)
      BY <2>6 DEF Remove, TypeOK, Goto, PCs, token, twilio, Entry
    <2>7. CASE Bind(c)
      <3>1. Put(1, remaining[c]) \in Entry
        BY <2>7, PutFacts, StreamAssumption DEF Bind, TypeOK, Timely, Verifying
      <3>. QED
        BY <2>7, <3>1 DEF Bind, TypeOK, Goto, PCs, token, twilio
    <2>8. CASE VerifyRaises(c)
      <3>1. pc[c] = "bind" => Put(1, remaining[c]) \in Entry
        BY PutFacts, StreamAssumption DEF TypeOK, Timely, Verifying
      <3>2. nonce' \in Entry /\ bound' \in Entry
        BY <2>8, <3>1 DEF VerifyRaises, TypeOK, keys, Entry
      <3>3. pc' \in [Conns -> PCs] /\ wired' \subseteq Conns
        BY <2>8 DEF VerifyRaises, TypeOK, Goto, PCs, Refuse
      <3>4. cut' \in BOOLEAN
        BY <2>8 DEF VerifyRaises, TypeOK
      <3>. QED
        BY <2>8, <3>2, <3>3, <3>4 DEF VerifyRaises, TypeOK, token
    <2>. QED
      BY <1>7, <2>1, <2>2, <2>3, <2>4, <2>5, <2>6, <2>7, <2>8 DEF Verify
  <1>8. ASSUME NEW c \in Conns, Handle(c)
        PROVE  TypeOK'
    BY <1>8 DEF Handle, Open, Started, HandOver, Leave, Finish, End, CleanupRaises, TypeOK, Goto, PCs,
                Statuses, token, keys, twilio
  <1>9. ASSUME NEW c \in Conns, Blip(c)
        PROVE  TypeOK'
    BY <1>9 DEF Blip, TypeOK, token, keys
  <1>10. CASE UNCHANGED vars
    BY <1>10 DEF vars, TypeOK, token, keys, twilio
  <1>. QED
    BY <1>1, <1>2, <1>3, <1>4, <1>5, <1>6, <1>7, <1>8, <1>9, <1>10 DEF Next

-----------------------------------------------------------------------------
(* The times.                                                               *)

\* A key that nobody sets keeps reaching the token's last second.
LEMMA Kept ==
    ASSUME UNCHANGED <<now, expires>>, Reaching(nonce), Reaching(bound)
    PROVE  /\ nonce' \in {nonce, bound, Absent} => Reaching(nonce)'
           /\ bound' \in {nonce, bound, Absent} => Reaching(bound)'
  <1>1. Absent.ttl # Endless /\ ~Live(Absent)
    BY DEF Absent, Live, Endless
  <1>. QED
    BY <1>1 DEF Reaching

\* A step that leaves the clock, the token and the TTLs alone, sets no key
\* and has nobody start verifying.
LEMMA Elsewhere ==
    ASSUME TypeOK, Timely,
           UNCHANGED <<now, expires, webhook, remaining>>,
           nonce' \in {nonce, Absent}, bound' \in {bound, Absent},
           webhook # "answered" => pc' = pc,
           \A c \in Conns : pc'[c] \in Verifying => pc[c] \in Verifying
    PROVE  Timely'
  <1>1. Reaching(nonce)' /\ Reaching(bound)'
    BY Kept DEF Timely
  <1>2. Clock' = Clock
    BY DEF Clock
  <1>. QED
    BY <1>1, <1>2 DEF Timely

LEMMA TimelyInit == Init => Timely
  BY DEF Init, Timely, Reaching, Absent, Live, Endless, Verifying

LEMMA TimelyStep ==
    ASSUME TypeOK, Timely, [Next]_vars
    PROVE  Timely'
  <1>1. CASE Sign
    <2>1. Clock \in Nat /\ Clock * Second <= now
      BY Seconds DEF TypeOK, Clock
    <2>2. Clock' = Clock
      BY <1>1 DEF Sign, Clock
    <2>3. expires' <= Clock' + Ttl /\ now' + Ttl * Second >= expires' * Second
      BY <1>1, <2>1, <2>2, StreamAssumption, SecondAssumption DEF Sign, TypeOK
    <2>4. Reaching(nonce)' /\ Reaching(bound)'
      BY <1>1 DEF Sign, Timely, Reaching, keys, Absent, Live, Endless
    <2>. QED
      BY <1>1, <2>3, <2>4 DEF Sign, Timely, Verifying
  <1>2. CASE SetNew
    <2>1. Reaching(nonce)'
      BY <1>2, PutFacts, StreamAssumption
         DEF SetNew, Timely, Reaching, PutNew, Endless
    <2>2. Reaching(bound)' /\ Clock' = Clock
      BY <1>2 DEF SetNew, Timely, Reaching, Clock
    <2>. QED
      BY <1>2, <2>1, <2>2 DEF SetNew, Timely, Verifying
  <1>3. CASE SetAgain
    <2>1. Reaching(nonce)'
      BY <1>3, PutFacts, StreamAssumption
         DEF SetAgain, Timely, Reaching, PutNew, Endless
    <2>2. Reaching(bound)' /\ Clock' = Clock
      BY <1>3 DEF SetAgain, Timely, Reaching, Clock
    <2>. QED
      BY <1>3, <2>1, <2>2 DEF SetAgain, Timely, Verifying
  <1>4. CASE Tick
    <2>1. Clock \in Nat /\ Clock' \in Nat /\ Clock <= Clock'
      BY <1>4, Seconds DEF Tick, TypeOK, Clock
    <2>2. Reaching(nonce)' /\ Reaching(bound)'
      <3>1. ASSUME NEW e \in {nonce, bound}, Live(Aged(e))
            PROVE  now + 1 + Aged(e).ttl >= expires * Second
        <4>1. e \in Entry /\ e.ttl # Endless /\ (Live(e) => now + e.ttl >= expires * Second)
          BY DEF TypeOK, Timely, Reaching
        <4>2. Live(e) /\ Aged(e).ttl = e.ttl - 1
          BY <3>1, <4>1, AgedFacts
        <4>3. e.ttl \in Int
          BY <4>1, TtlFacts
        <4>. QED
          BY <4>1, <4>2, <4>3, SecondAssumption DEF TypeOK
      <3>2. \A e \in {nonce, bound} : Aged(e).ttl # Endless
        BY AgedFacts DEF TypeOK, Timely, Reaching
      <3>. QED
        BY <1>4, <3>1, <3>2 DEF Tick, Reaching, token
    <2>3. expires' <= Clock' + Ttl /\ now' + Ttl * Second >= expires' * Second
      <3>1. /\ webhook # "sign" /\ UNCHANGED <<expires, webhook>>
            /\ now' = now + 1 /\ now \in Nat /\ expires \in Nat
        BY <1>4 DEF Tick, TypeOK, token
      <3>2. Ttl * Second \in Nat /\ expires * Second \in Nat
        BY <3>1, StreamAssumption, SecondAssumption
      <3>3. expires <= Clock + Ttl /\ now + Ttl * Second >= expires * Second
        BY <3>1 DEF Timely
      <3>4. expires' <= Clock' + Ttl
        BY <2>1, <3>1, <3>3, StreamAssumption DEF Clock
      <3>. QED
        BY <3>1, <3>2, <3>3, <3>4
    <2>4. ASSUME NEW c \in Conns, pc'[c] \in Verifying
          PROVE  remaining'[c] >= 1 /\ now' + remaining'[c] * Second >= expires' * Second
      BY <1>4, <2>4, StreamAssumption, SecondAssumption
         DEF Tick, TypeOK, Timely, token
    <2>. QED
      BY <1>4, <2>2, <2>3, <2>4 DEF Tick, Timely, token
  <1>5. CASE HangUp
    BY <1>5, Elsewhere DEF HangUp, token, keys
  <1>6. CASE Callback
    BY <1>6, Elsewhere DEF Callback, token, keys
  <1>7. ASSUME NEW c \in Conns, Verify(c)
        PROVE  Timely'
    <2>1. CASE Connect(c) /\ Expired
      BY <2>1, Elsewhere DEF Connect, Goto, TypeOK, token, keys, Verifying
    <2>2. CASE Connect(c) /\ ~Expired
      <3>1. Clock \in Nat /\ Clock' = Clock
        BY <2>2, Seconds DEF TypeOK, Clock, Connect
      <3>2. Reaching(nonce)' /\ Reaching(bound)'
        BY <2>2 DEF Connect, Timely, Reaching, token, keys
      <3>3. /\ remaining'[c] \in Nat
            /\ remaining'[c] >= 1
            /\ remaining'[c] >= expires - Clock
        BY <2>2, <3>1 DEF Connect, TypeOK
      <3>4. now + remaining'[c] * Second >= expires * Second
        BY <3>3, Reaches DEF Clock, TypeOK
      <3>5. \A d \in Conns \ {c} : pc'[d] = pc[d] /\ remaining'[d] = remaining[d]
        BY <2>2 DEF Connect, Goto, TypeOK
      <3>. QED
        BY <2>2, <3>1, <3>2, <3>3, <3>4, <3>5 DEF Connect, Timely, token, keys
    <2>3. CASE Look(c)
      BY <2>3, Elsewhere DEF Look, Goto, TypeOK, Timely, token, keys, Verifying
    <2>4. CASE Take(c)
      BY <2>4, Elsewhere DEF Take, Goto, Refuse, TypeOK, Timely, token, Verifying
    <2>5. CASE TakeRaises(c)
      BY <2>5, Elsewhere DEF TakeRaises, Goto, TypeOK, Timely, token, Verifying
    <2>6. CASE Peek(c)
      BY <2>6, Elsewhere DEF Peek, Goto, Refuse, TypeOK, Timely, token, keys, Verifying
    <2>7. CASE Remove(c)
      BY <2>7, Elsewhere DEF Remove, Goto, TypeOK, Timely, token, Verifying
    <2>8. CASE Bind(c) \/ VerifyRaises(c)
      <3>1. pc[c] = "bind" => Reaching(Put(1, remaining[c]))
        BY PutFacts, StreamAssumption DEF TypeOK, Timely, Verifying, Reaching, Endless
      <3>2. nonce' \in {nonce, bound, Absent}
        BY <2>8 DEF Bind, VerifyRaises, keys
      <3>3. bound' = bound \/ (pc[c] = "bind" /\ bound' = Put(1, remaining[c]))
        BY <2>8 DEF Bind, VerifyRaises, keys
      <3>4. UNCHANGED <<now, expires, webhook, remaining>> /\ Clock' = Clock
        BY <2>8 DEF Bind, VerifyRaises, token, Clock
      <3>5. Reaching(nonce)' /\ Reaching(bound)'
        <4>1. Reaching(nonce)' /\ (bound' = bound => Reaching(bound)')
          BY <3>2, <3>4, Kept DEF Timely
        <4>2. CASE pc[c] = "bind" /\ bound' = Put(1, remaining[c])
          BY <3>1, <3>4, <4>1, <4>2 DEF Reaching
        <4>. QED
          BY <3>3, <4>1, <4>2
      <3>6. pc[c] # "idle" /\ (pc' = [pc EXCEPT ![c] = "open"] \/ pc' = [pc EXCEPT ![c] = "refused"])
        BY <2>8 DEF Bind, VerifyRaises, Goto, Refuse
      <3>7. webhook = "answered"
        BY <3>6 DEF Timely
      <3>8. \A d \in Conns : pc'[d] \in Verifying => pc[d] \in Verifying
        BY <3>6 DEF TypeOK, Verifying
      <3>. QED
        BY <3>4, <3>5, <3>7, <3>8 DEF Timely
    <2>. QED
      BY <1>7, <2>1, <2>2, <2>3, <2>4, <2>5, <2>6, <2>7, <2>8 DEF Verify
  <1>8. ASSUME NEW c \in Conns, Handle(c)
        PROVE  Timely'
    <2>1. /\ UNCHANGED <<now, expires, webhook, remaining, nonce, bound>>
          /\ pc[c] # "idle"
          /\ \/ pc' = pc
             \/ \E l \in {"live", "started", "finish", "end", "closed"} :
                   pc' = [pc EXCEPT ![c] = l]
      BY <1>8 DEF Handle, Open, Started, HandOver, Leave, Finish, End, CleanupRaises, Goto, token, keys
    <2>2. webhook = "answered"
      BY <2>1 DEF Timely
    <2>3. \A d \in Conns : pc'[d] \in Verifying => pc[d] \in Verifying
      BY <2>1 DEF TypeOK, Verifying
    <2>. QED
      BY <2>1, <2>2, <2>3, Elsewhere
  <1>9. ASSUME NEW c \in Conns, Blip(c)
        PROVE  Timely'
    BY <1>9, Elsewhere DEF Blip, token, keys
  <1>10. CASE UNCHANGED vars
    BY <1>10, Elsewhere DEF vars, token, keys
  <1>. QED
    BY <1>1, <1>2, <1>3, <1>4, <1>5, <1>6, <1>7, <1>8, <1>9, <1>10 DEF Next

-----------------------------------------------------------------------------
(* The token.                                                               *)

LEMMA UsableInit == Init => TokenUsable
  BY DEF Init, TokenUsable

\* Verifying and handling are steps of one connection, which the keys, and
\* the token, outlive; time takes a key away only with the token.
LEMMA UsableStep ==
    ASSUME TypeOK, Timely, TokenUsable, [Next]_vars
    PROVE  TokenUsable'
  <1>1. CASE Sign \/ SetNew
    BY <1>1 DEF Sign, SetNew, TokenUsable
  <1>2. CASE SetAgain
    BY <1>2, PutFacts, StreamAssumption DEF SetAgain, TokenUsable
  <1>3. CASE Tick
    <2>. SUFFICES ASSUME webhook = "answered", now + 1 < expires * Second
                  PROVE  \/ Live(nonce') \/ Live(bound')
                         \/ \E c \in Conns : pc[c] = "bind"
                         \/ cut
      BY <1>3 DEF Tick, TokenUsable, token
    <2>1. expires * Second \in Nat /\ now \in Nat
      BY SecondAssumption DEF TypeOK
    <2>2. now < expires * Second
      BY <2>1
    <2>3. ASSUME NEW e \in {nonce, bound}, Live(e)
          PROVE  Live(Aged(e))
      <3>1. e \in Entry /\ e.ttl # Endless /\ now + e.ttl >= expires * Second
        BY <2>3 DEF TypeOK, Timely, Reaching
      <3>2. e.ttl > 1
        BY <2>1, <3>1, TtlFacts
      <3>. QED
        BY <2>3, <3>1, <3>2, AgedFacts
    <2>4. CASE Live(nonce) \/ Live(bound)
      BY <1>3, <2>3, <2>4 DEF Tick
    <2>. QED
      BY <2>2, <2>4 DEF TokenUsable
  <1>4. CASE HangUp
    BY <1>4 DEF HangUp, TokenUsable, token, keys
  <1>5. CASE Callback
    BY <1>5 DEF Callback, TokenUsable, token, keys
  <1>6. ASSUME NEW c \in Conns, Verify(c)
        PROVE  TokenUsable'
    <2>1. CASE Connect(c)
      BY <2>1 DEF Connect, Goto, TypeOK, TokenUsable, token, keys
    <2>2. CASE Look(c)
      BY <2>2 DEF Look, Goto, TypeOK, TokenUsable, token, keys
    <2>3. CASE Take(c)
      BY <2>3 DEF Take, Goto, Refuse, TypeOK, TokenUsable, token
    <2>4. CASE TakeRaises(c)
      BY <2>4 DEF TakeRaises, Goto, TypeOK, TokenUsable, token
    <2>5. CASE Peek(c)
      BY <2>5 DEF Peek, Goto, Refuse, TypeOK, TokenUsable, token, keys
    <2>6. CASE Remove(c)
      BY <2>6 DEF Remove, Goto, TypeOK, TokenUsable, token
    <2>7. CASE Bind(c)
      <3>1. Live(Put(1, remaining[c]))
        BY <2>7, PutFacts, StreamAssumption DEF Bind, TypeOK, Timely, Verifying
      <3>. QED
        BY <2>7, <3>1 DEF Bind, TokenUsable
    <2>8. CASE VerifyRaises(c)
      <3>1. CASE pc[c] \in {"remove", "bind"}
        BY <2>8, <3>1 DEF VerifyRaises, TokenUsable
      <3>2. CASE pc[c] \notin {"remove", "bind"}
        BY <2>8, <3>2 DEF VerifyRaises, Goto, Refuse, TypeOK, TokenUsable, token, keys
      <3>. QED
        BY <3>1, <3>2
    <2>. QED
      BY <1>6, <2>1, <2>2, <2>3, <2>4, <2>5, <2>6, <2>7, <2>8 DEF Verify
  <1>7. ASSUME NEW c \in Conns, Handle(c)
        PROVE  TokenUsable'
    BY <1>7 DEF Handle, Open, Started, HandOver, Leave, Finish, End, CleanupRaises, Goto, TypeOK,
                TokenUsable, token, keys
  <1>8. ASSUME NEW c \in Conns, Blip(c)
        PROVE  TokenUsable'
    BY <1>8 DEF Blip, TokenUsable, token, keys
  <1>9. CASE UNCHANGED vars
    BY <1>9 DEF vars, TokenUsable, token, keys
  <1>. QED
    BY <1>1, <1>2, <1>3, <1>4, <1>5, <1>6, <1>7, <1>8, <1>9 DEF Next

-----------------------------------------------------------------------------
(* The theorems.                                                            *)

\* The inductive invariant: the type, when each entry was written and ends,
\* and which tokens are still good.
THEOREM Invariance == Spec => []Inv
  <1>1. Init => Inv
    BY TypeInit, TimelyInit, UsableInit DEF Inv
  <1>2. Inv /\ [Next]_vars => Inv'
    BY TypeStep, TimelyStep, UsableStep DEF Inv
  <1>. QED
    BY <1>1, <1>2, PTL DEF Spec

\* The TTLs computed stay between one second and the setting, the keys hold
\* entries, and every connection is at one of the awaits of its handler.
THEOREM TypeCorrect == Spec => []TypeOK
  BY Invariance, PTL DEF Inv

\* Until its last second a token that Twilio was given is good for a
\* connection, whichever connections overlap and wherever the clock stands
\* within the second, unless Redis failed during its first use.
THEOREM Usable == Spec => []TokenUsable
  BY Invariance, PTL DEF Inv

\* When the last connection has been cleaned up the session is no longer
\* active, for any number of connections saving copies over one another, or a
\* cleanup that Redis or the database broke off has logged that it skipped it.
THEOREM Settled == Spec => []SettledWhenGone
  <1>1. Init => SettledWhenGone
    BY DEF Init, SettledWhenGone
  <1>2. TypeOK /\ SettledWhenGone /\ [Next]_vars => SettledWhenGone'
    <2>. SUFFICES ASSUME TypeOK, SettledWhenGone, [Next]_vars
                  PROVE  SettledWhenGone'
      OBVIOUS
    <2>1. CASE Sign \/ SetNew \/ SetAgain \/ Tick \/ HangUp \/ Callback
      BY <2>1 DEF Sign, SetNew, SetAgain, Tick, HangUp, Callback, SettledWhenGone
    <2>2. ASSUME NEW c \in Conns, Verify(c)
          PROVE  SettledWhenGone'
      <3>1. status' = status /\ skipped' = skipped /\ pc[c] \notin {"live", "started", "finish", "end", "closed"}
        BY <2>2 DEF Verify, Connect, Look, Take, TakeRaises, Peek, Remove, Bind, VerifyRaises,
                    twilio
      <3>2. \E l \in {"look", "take", "peek", "remove", "bind", "open", "refused"} :
               pc' = [pc EXCEPT ![c] = l]
        BY <2>2 DEF Verify, Connect, Look, Take, TakeRaises, Peek, Remove, Bind, VerifyRaises,
                    Goto, Refuse
      <3>. QED
        BY <3>1, <3>2 DEF TypeOK, SettledWhenGone
    <2>3. ASSUME NEW c \in Conns, Handle(c)
          PROVE  SettledWhenGone'
      <3>1. CASE Open(c)
        BY <3>1 DEF Open, Goto, TypeOK, SettledWhenGone
      <3>2. CASE Started(c)
        BY <3>2 DEF Started, Goto, TypeOK, SettledWhenGone
      <3>3. CASE HandOver(c)
        BY <3>3 DEF HandOver, TypeOK, SettledWhenGone
      <3>4. CASE Leave(c)
        BY <3>4 DEF Leave, Goto, TypeOK, SettledWhenGone
      <3>5. CASE Finish(c)
        BY <3>5 DEF Finish, Goto, TypeOK, SettledWhenGone
      <3>6. CASE End(c) \/ CleanupRaises(c)
        BY <3>6 DEF End, CleanupRaises, Goto, TypeOK, SettledWhenGone
      <3>. QED
        BY <2>3, <3>1, <3>2, <3>3, <3>4, <3>5, <3>6 DEF Handle
    <2>4. ASSUME NEW c \in Conns, Blip(c)
          PROVE  SettledWhenGone'
      BY <2>4 DEF Blip, SettledWhenGone
    <2>5. CASE UNCHANGED vars
      BY <2>5 DEF vars, SettledWhenGone, twilio
    <2>. QED
      BY <2>1, <2>2, <2>3, <2>4, <2>5 DEF Next
  <1>. QED
    BY <1>1, <1>2, TypeCorrect, PTL DEF Spec

-----------------------------------------------------------------------------
(* The first use.                                                           *)

Admitted == {"bind", "open", "live", "started", "finish", "end", "closed"}

\* A connection was let past the nonce, or has bound the token.
Used == Live(bound) \/ \E c \in Conns : pc[c] \in Admitted

\* Then the nonce is gone; before Twilio has the token nobody has used it.
NonceSpent == Used => ~Live(nonce)
SpentInv == NonceSpent /\ (webhook # "answered" => bound = Absent)

\* Nobody gives a key back its life but who sets it.
LEMMA NonceGone ==
    ASSUME TypeOK, Timely, [Next]_vars, webhook = "answered", ~Live(nonce)
    PROVE  ~Live(nonce')
  <1>1. ~Live(Absent) /\ ~Live(Aged(nonce))
    BY AgedFacts DEF TypeOK, Timely, Reaching, Absent, Live
  <1>2. CASE Tick
    BY <1>1, <1>2 DEF Tick
  <1>3. CASE ~Tick
    <2>1. nonce' \in {nonce, Absent}
      BY <1>3 DEF Next, Sign, SetNew, SetAgain, HangUp, Callback, Verify, Connect, Look, Take,
                  TakeRaises, Peek, Remove, Bind, VerifyRaises, Handle, Open, Started, HandOver,
                  Leave, Finish, End, CleanupRaises, Blip, vars, keys
    <2>. QED
      BY <1>1, <2>1
  <1>. QED
    BY <1>2, <1>3

\* Where a step of a connection may take it.
LEMMA Admission ==
    ASSUME TypeOK, NEW c \in Conns, Verify(c) \/ Handle(c), pc'[c] \in Admitted
    PROVE  Used \/ ~Live(nonce')
  <1>1. ~Live(Absent)
    BY DEF Absent, Live
  <1>2. CASE Handle(c)
    BY <1>2 DEF Handle, Open, Started, HandOver, Leave, Finish, End, CleanupRaises, Used, Admitted
  <1>3. CASE Connect(c)
    BY <1>3 DEF Connect, Goto, TypeOK, Admitted
  <1>4. CASE Look(c)
    BY <1>4 DEF Look, Goto, TypeOK, Admitted, Used
  <1>5. CASE Take(c) \/ Remove(c)
    BY <1>1, <1>5 DEF Take, Remove
  <1>6. CASE TakeRaises(c) \/ Peek(c)
    BY <1>6 DEF TakeRaises, Peek, Goto, Refuse, TypeOK, Admitted
  <1>7. CASE Bind(c)
    BY <1>7 DEF Bind, Used, Admitted
  <1>8. CASE VerifyRaises(c)
    BY <1>8 DEF VerifyRaises, Goto, Refuse, TypeOK, Admitted
  <1>. QED
    BY <1>2, <1>3, <1>4, <1>5, <1>6, <1>7, <1>8 DEF Verify

\* A step of a connection moves that connection alone, and binds the token
\* only where it was let past the nonce.
LEMMA Moving ==
    ASSUME TypeOK, NEW c \in Conns, Verify(c) \/ Handle(c)
    PROVE  /\ \A d \in Conns \ {c} : pc'[d] = pc[d]
           /\ bound' = bound \/ Used
           /\ UNCHANGED webhook
  <1>1. \A d \in Conns \ {c} : pc'[d] = pc[d]
    BY DEF Verify, Connect, Look, Take, TakeRaises, Peek, Remove, Bind, VerifyRaises, Handle,
           Open, Started, HandOver, Leave, Finish, End, CleanupRaises, Refuse, Goto, TypeOK
  <1>2. bound' = bound \/ pc[c] = "bind"
    BY DEF Verify, Connect, Look, Take, TakeRaises, Peek, Remove, Bind, VerifyRaises, Handle,
           Open, Started, HandOver, Leave, Finish, End, CleanupRaises, keys
  <1>3. UNCHANGED webhook
    BY DEF Verify, Connect, Look, Take, TakeRaises, Peek, Remove, Bind, VerifyRaises, Handle,
           Open, Started, HandOver, Leave, Finish, End, CleanupRaises, token
  <1>. QED
    BY <1>1, <1>2, <1>3 DEF Used, Admitted

LEMMA SpentStep ==
    ASSUME TypeOK, Timely, SpentInv, [Next]_vars
    PROVE  SpentInv'
  <1>1. ~Live(Absent) /\ Aged(Absent) = Absent
    BY DEF Absent, Live, Aged
  <1>2. CASE webhook = "answered" /\ (Used' => Used \/ ~Live(nonce'))
    <2>1. webhook' = "answered"
      BY <1>2 DEF Next, Sign, SetNew, SetAgain, Tick, HangUp, Callback, Verify, Connect, Look,
                  Take, TakeRaises, Peek, Remove, Bind, VerifyRaises, Handle, Open, Started,
                  HandOver, Leave, Finish, End, CleanupRaises, Blip, vars, token
    <2>. QED
      BY <1>2, <2>1, NonceGone DEF SpentInv, NonceSpent
  <1>3. ASSUME NEW c \in Conns, Verify(c) \/ Handle(c)
        PROVE  webhook = "answered" /\ (Used' => Used \/ ~Live(nonce'))
    <2>1. webhook = "answered"
      <3>1. pc[c] # "idle" \/ webhook = "answered"
        BY <1>3 DEF Verify, Connect, Look, Take, TakeRaises, Peek, Remove, Bind, VerifyRaises,
                    Handle, Open, Started, HandOver, Leave, Finish, End, CleanupRaises
      <3>. QED
        BY <3>1 DEF Timely
    <2>2. ASSUME Used', ~Used
          PROVE  ~Live(nonce')
      <3>1. \E d \in Conns : pc'[d] \in Admitted
        BY <1>3, <2>2, Moving DEF Used
      <3>2. pc'[c] \in Admitted
        BY <1>3, <2>2, <3>1, Moving DEF Used
      <3>. QED
        BY <1>3, <2>2, <3>2, Admission
    <2>. QED
      BY <2>1, <2>2
  <1>4. ASSUME UNCHANGED pc, UNCHANGED bound \/ bound' = Aged(bound)
        PROVE  SpentInv' \/ (webhook = "answered" /\ (Used' => Used))
    <2>1. CASE webhook = "answered"
      <3>1. Live(Aged(bound)) => Live(bound)
        BY AgedFacts DEF TypeOK, Timely, Reaching
      <3>. QED
        BY <1>4, <2>1, <3>1 DEF Used
    <2>2. CASE webhook # "answered"
      <3>1. bound' = Absent
        BY <1>1, <1>4, <2>2 DEF SpentInv
      <3>2. \A c \in Conns : pc'[c] \notin Admitted
        BY <1>4, <2>2 DEF Timely, Admitted
      <3>. QED
        BY <1>1, <3>1, <3>2 DEF SpentInv, NonceSpent, Used
    <2>. QED
      BY <2>1, <2>2
  <1>5. CASE SetAgain
    <2>1. bound' = Absent /\ \A c \in Conns : pc'[c] \notin Admitted
      BY <1>5 DEF SetAgain, SpentInv, Timely, Admitted
    <2>. QED
      BY <1>1, <2>1 DEF SpentInv, NonceSpent, Used
  <1>6. CASE Sign \/ SetNew \/ Tick \/ HangUp \/ Callback
             \/ (\E c \in Conns : Blip(c)) \/ UNCHANGED vars
    <2>1. UNCHANGED pc /\ (UNCHANGED bound \/ bound' = Aged(bound))
      BY <1>6 DEF Sign, SetNew, Tick, HangUp, Callback, Blip, vars, keys
    <2>2. webhook' = "answered" => webhook = "answered"
      BY <1>6 DEF Sign, SetNew, Tick, HangUp, Callback, Blip, vars, token
    <2>. QED
      BY <1>2, <1>4, <2>1, <2>2
  <1>. QED
    BY <1>2, <1>3, <1>5, <1>6 DEF Next

\* Who was let in, or bound the token, has used up the nonce, whatever Redis
\* lost and however connections overlapped (verify_stream_token binds only
\* after the nonce was taken or deleted).
THEOREM AdmittedUsesUp == Spec => []NonceSpent
  <1>1. Init => SpentInv
    BY DEF Init, SpentInv, NonceSpent, Used, Admitted, Absent, Live
  <1>2. Inv /\ SpentInv /\ [Next]_vars => SpentInv'
    BY SpentStep DEF Inv
  <1>3. SpentInv => NonceSpent
    BY DEF SpentInv
  <1>. QED
    BY <1>1, <1>2, <1>3, Invariance, PTL DEF Spec

\* Once Twilio has the token, a nonce that is gone stays gone: no second
\* first use, ever.
THEOREM NonceStaysGone ==
    Spec => [][webhook = "answered" /\ ~Live(nonce) => ~Live(nonce)']_vars
  <1>1. Inv /\ [Next]_vars => [webhook = "answered" /\ ~Live(nonce) => ~Live(nonce)']_vars
    BY NonceGone DEF Inv
  <1>. QED
    BY <1>1, Invariance, PTL DEF Spec

\* While no exchange with Redis breaks off, at most one connection gets the
\* nonce, for any number that present the token at once: GETDEL is atomic.
\* (getdel's fall-back on GET and DELETE is not, and lets two pass.)
OneBinds == \A c, d \in Conns : pc[c] = "bind" /\ pc[d] = "bind" => c = d

Atomic == OneBinds /\ \A c \in Conns : pc[c] \notin {"peek", "remove"}

THEOREM OnlyOneBinds ==
    ASSUME ~CanFail
    PROVE  Spec => []OneBinds
  <1>1. Init => SpentInv /\ Atomic
    BY DEF Init, SpentInv, NonceSpent, Used, Admitted, Absent, Live, Atomic, OneBinds
  <1>2. ASSUME Inv, SpentInv, Atomic, [Next]_vars
        PROVE  Atomic'
    <2>1. ASSUME NEW c \in Conns, Verify(c) \/ Handle(c)
          PROVE  Atomic'
      <3>1. \A d \in Conns \ {c} : pc'[d] = pc[d]
        BY <2>1, Moving, <1>2 DEF Inv
      <3>2. TypeOK /\ pc[c] \notin {"peek", "remove"}
        BY <1>2 DEF Inv, Atomic
      <3>3. CASE Take(c)
        <4>1. pc'[c] = "bind" => Live(nonce)
          BY <3>2, <3>3 DEF Take, Refuse, Goto, TypeOK
        <4>2. pc'[c] \in {"bind", "refused"}
          BY <3>2, <3>3 DEF Take, Refuse, Goto, TypeOK
        <4>. QED
          BY <1>2, <3>1, <4>1, <4>2 DEF SpentInv, NonceSpent, Used, Admitted, Atomic, OneBinds
      <3>4. CASE ~Take(c)
        <4>1. \/ pc' = pc /\ pc[c] = "started"
              \/ \E l \in PCs \ {"bind", "peek", "remove"} : pc' = [pc EXCEPT ![c] = l]
          BY <2>1, <3>2, <3>4 DEF Verify, Connect, Look, TakeRaises, Peek, Remove, Bind,
                 VerifyRaises, Handle, Open, Started, HandOver, Leave, Finish, End, CleanupRaises, Refuse, Goto, PCs
        <4>2. pc'[c] \notin {"bind", "peek", "remove"}
          BY <3>2, <4>1 DEF TypeOK
        <4>. QED
          BY <1>2, <3>1, <4>2 DEF Atomic, OneBinds
      <3>. QED
        BY <3>3, <3>4
    <2>2. CASE UNCHANGED pc
      BY <1>2, <2>2 DEF Atomic, OneBinds
    <2>3. Sign \/ SetNew \/ SetAgain \/ Tick \/ HangUp \/ Callback
          \/ (\E c \in Conns : Blip(c)) \/ UNCHANGED vars => UNCHANGED pc
      BY DEF Sign, SetNew, SetAgain, Tick, HangUp, Callback, Blip, vars
    <2>. QED
      BY <1>2, <2>1, <2>2, <2>3 DEF Next
  <1>3. Inv /\ SpentInv /\ [Next]_vars => SpentInv'
    BY SpentStep DEF Inv
  <1>4. Atomic => OneBinds
    BY DEF Atomic
  <1>. QED
    BY <1>1, <1>2, <1>3, <1>4, Invariance, PTL DEF Spec
==============================================================================
