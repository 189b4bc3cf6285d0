---------------------------- MODULE StreamToken -----------------------------
(***************************************************************************)
(* The token of one call's media stream (services/telephony/               *)
(* twilio_security.py) and the connections that present it: the voice      *)
(* webhook signs it, the first connection consumes its nonce and binds the *)
(* session to it, and after a blip Twilio may connect again with the same  *)
(* token, while the handler of the old connection still has to notice.     *)
(*                                                                         *)
(* Each await on Redis is a step of its own.  A session has one token, the *)
(* one its webhook made, so the comparison of two of them, like that of    *)
(* signatures, has one outcome here.  Of TwilioMediaBridge.handle (module  *)
(* MediaBridge) there is what it does to the session: it reads it, saves   *)
(* what it read when the stream starts, and ends it in its cleanup.  Here  *)
(* status is what a read of the session answers, and a save of it one      *)
(* step: the Redis key and the row behind it are those of SessionStore.    *)
(***************************************************************************)
EXTENDS KeyValue, FiniteSets

CONSTANTS
    Conns,          \* connections Twilio may open for the call
    Ttl,            \* stream_token_ttl_seconds
    CanFail         \* may an await raise?

ASSUME StreamAssumption == Ttl \in Nat \ {0} /\ CanFail \in BOOLEAN

VARIABLES
    now,            \* ticks since some full second
    expires,        \* the token's expiry, in seconds, 0 before it is signed
    webhook,        \* where the voice webhook is
    nonce, bound,   \* the two keys
    pc, remaining,  \* per connection: the await it is at, the TTL it computed
    snap,           \* per connection: the status of its copy of the session
    status,         \* the session's, as a read of it answers
    calling, wired, \* is the call up; the connections whose network is up
    cut,            \* ghost: was a first use broken off?
    skipped         \* ghost: did a cleanup log that it skipped ending the session?

keys == <<nonce, bound>>
twilio == <<calling, wired>>
token == <<expires, webhook>>
vars == <<now, token, keys, pc, remaining, snap, status, twilio, cut, skipped>>

PCs == {"idle", "look", "take", "peek", "remove", "bind", "open", "live", "started",
        "finish", "end", "closed", "refused"}

Statuses == {"active", "waiting_human", "completed"}

\* The session is there when the token is asked for.
Init ==
    /\ now \in 0 .. Second - 1 /\ expires = 0 /\ webhook = "sign"
    /\ nonce = Absent /\ bound = Absent
    /\ pc = [c \in Conns |-> "idle"] /\ remaining = [c \in Conns |-> 0]
    /\ snap = [c \in Conns |-> "active"] /\ status = "active"
    /\ calling = TRUE /\ wired = {} /\ cut = FALSE /\ skipped = FALSE

Goto(c, l) == pc' = [pc EXCEPT ![c] = l]

\* time.time(), to the second.
Clock == now \div Second

Expired == expires < Clock

-----------------------------------------------------------------------------
(* The voice webhook.                                                       *)

\* create_stream_token takes the time, then awaits.
Sign == /\ webhook = "sign" /\ webhook' = "setnx"
        /\ expires' = Clock + Ttl
        /\ UNCHANGED <<now, keys, pc, remaining, snap, status, twilio, cut, skipped>>

\* The nonce is set if it is new ...
SetNew == /\ webhook = "setnx" /\ webhook' = "set"
          /\ nonce' = PutNew(nonce, 1, Ttl)
          /\ UNCHANGED <<now, expires, bound, pc, remaining, snap, status, twilio, cut, skipped>>

\* ... and set again; then Twilio is given the URL.
SetAgain == /\ webhook = "set" /\ webhook' = "answered"
            /\ nonce' = Put(1, Ttl)
            /\ UNCHANGED <<now, expires, bound, pc, remaining, snap, status, twilio, cut, skipped>>

-----------------------------------------------------------------------------
(* verify_stream_token.                                                     *)

\* Mutant: a TTL of nothing in the last second of the token.
ConnectUnclamped(c) ==
    /\ webhook = "answered" /\ calling /\ wired = {} /\ pc[c] = "idle" /\ ~Expired
    /\ Goto(c, "look")
    /\ wired' = {c}
    /\ remaining' = [remaining EXCEPT ![c] = expires - Clock]
    /\ UNCHANGED <<now, token, keys, snap, status, calling, cut, skipped>>

\* Twilio connects, first or after a blip; the token's own expiry is checked
\* before anything is awaited, and so is the TTL of the binding computed.
Connect(c) ==
    /\ webhook = "answered" /\ calling /\ wired = {} /\ pc[c] = "idle"
    /\ IF Expired
       THEN Goto(c, "refused") /\ UNCHANGED <<wired, remaining>>
       ELSE /\ Goto(c, "look")
            /\ wired' = {c}
            /\ remaining' = [remaining EXCEPT ![c] =
                                IF expires - Clock < 1 THEN 1 ELSE expires - Clock]
    /\ UNCHANGED <<now, token, keys, snap, status, calling, cut, skipped>>

\* GET of the binding: it is this token's.
Look(c) ==
    /\ pc[c] = "look"
    /\ Goto(c, IF Live(bound) THEN "open" ELSE "take")
    /\ UNCHANGED <<now, token, keys, remaining, snap, status, twilio, cut, skipped>>

Refuse(c) == Goto(c, "refused") /\ wired' = wired \ {c}

\* GETDEL of the nonce.
Take(c) ==
    /\ pc[c] = "take"
    /\ IF Live(nonce) THEN Goto(c, "bind") /\ UNCHANGED wired ELSE Refuse(c)
    /\ nonce' = Absent
    /\ UNCHANGED <<now, token, bound, remaining, snap, status, calling, cut, skipped>>

\* It raises, with or without having deleted; getdel falls back on GET ...
TakeRaises(c) ==
    /\ pc[c] = "take" /\ CanFail
    /\ Goto(c, "peek")
    /\ \/ Live(nonce) /\ nonce' = Absent /\ cut' = TRUE
       \/ UNCHANGED <<nonce, cut>>
    /\ UNCHANGED <<now, token, bound, remaining, snap, status, twilio, skipped>>

\* ... and DELETE.
Peek(c) ==
    /\ pc[c] = "peek"
    /\ IF Live(nonce) THEN Goto(c, "remove") /\ UNCHANGED wired ELSE Refuse(c)
    /\ UNCHANGED <<now, token, keys, remaining, snap, status, calling, cut, skipped>>

Remove(c) ==
    /\ pc[c] = "remove" /\ Goto(c, "bind")
    /\ nonce' = Absent
    /\ UNCHANGED <<now, token, bound, remaining, snap, status, twilio, cut, skipped>>

\* Mutant: the second that has begun is not counted.
BindRoundsDown(c) ==
    /\ pc[c] = "bind" /\ Goto(c, "open")
    /\ bound' = Put(1, IF expires - Clock <= 1 THEN 1 ELSE expires - Clock - 1)
    /\ UNCHANGED <<now, token, nonce, remaining, snap, status, twilio, cut, skipped>>

\* SET of the binding.
Bind(c) ==
    /\ pc[c] = "bind" /\ Goto(c, "open")
    /\ bound' = Put(1, remaining[c])
    /\ UNCHANGED <<now, token, nonce, remaining, snap, status, twilio, cut, skipped>>

\* Redis raises at any other await, with or without having obeyed, or the
\* session cannot be read: the connection is gone before there is anything
\* to clean up.
VerifyRaises(c) ==
    /\ pc[c] \in {"look", "peek", "remove", "bind", "open"} /\ CanFail
    /\ Refuse(c)
    /\ cut' = (cut \/ pc[c] \in {"remove", "bind"})
    /\ \/ UNCHANGED keys
       \/ pc[c] = "remove" /\ nonce' = Absent /\ UNCHANGED bound
       \/ pc[c] = "bind" /\ bound' = Put(1, remaining[c]) /\ UNCHANGED nonce
    /\ UNCHANGED <<now, token, remaining, snap, status, calling, skipped>>

-----------------------------------------------------------------------------
(* handle, as far as the session goes.                                      *)

Open(c) ==
    /\ pc[c] = "open" /\ Goto(c, "live")
    /\ snap' = [snap EXCEPT ![c] = status]
    /\ UNCHANGED <<now, token, keys, remaining, status, twilio, cut, skipped>>

\* The start event, once: the copy is saved as it was read.
Started(c) ==
    /\ pc[c] = "live" /\ Goto(c, "started")
    /\ status' = snap[c]
    /\ UNCHANGED <<now, token, keys, remaining, snap, twilio, cut, skipped>>

\* A turn that hands the caller over.
HandOver(c) ==
    /\ pc[c] = "started" /\ status = "active"
    /\ status' = "waiting_human"
    /\ UNCHANGED <<now, token, keys, pc, remaining, snap, twilio, cut, skipped>>

\* Mutant: the cleanup looks at the copy of the session it has.
LeaveByCopy(c) ==
    /\ pc[c] \in {"live", "started"} /\ (c \notin wired \/ CanFail)
    /\ Goto(c, IF snap[c] = "active" /\ pc[c] = "started" THEN "finish" ELSE "closed")
    /\ wired' = wired \ {c}
    /\ UNCHANGED <<now, token, keys, remaining, snap, status, calling, cut, skipped>>

\* The handler notices that its connection is gone, or fails; its cleanup
\* reads the session ...
Leave(c) ==
    /\ pc[c] \in {"live", "started"} /\ (c \notin wired \/ CanFail)
    /\ Goto(c, IF status = "active" THEN "finish" ELSE "closed")
    /\ wired' = wired \ {c}
    /\ UNCHANGED <<now, token, keys, remaining, snap, status, calling, cut, skipped>>

\* ... and has it ended, which reads it again ...
Finish(c) ==
    /\ pc[c] = "finish"
    /\ Goto(c, IF status = "active" THEN "end" ELSE "closed")
    /\ UNCHANGED <<now, token, keys, remaining, snap, status, twilio, cut, skipped>>

\* ... and saves it as completed, whatever it has become meanwhile.
End(c) ==
    /\ pc[c] = "end" /\ Goto(c, "closed")
    /\ status' = "completed"
    /\ UNCHANGED <<now, token, keys, remaining, snap, twilio, cut, skipped>>

\* One of the three raises, the last with or without having had an effect;
\* that is logged, and nothing else is done about the session.
CleanupRaises(c) ==
    /\ CanFail
    /\ \/ pc[c] \in {"live", "started"} /\ UNCHANGED status
       \/ pc[c] = "finish" /\ UNCHANGED status
       \/ pc[c] = "end" /\ status' \in {status, "completed"}
    /\ Goto(c, "closed") /\ skipped' = TRUE
    /\ wired' = wired \ {c}
    /\ UNCHANGED <<now, token, keys, remaining, snap, calling, cut>>

-----------------------------------------------------------------------------
(* Twilio and time.                                                         *)

Blip(c) == /\ c \in wired /\ wired' = {}
           /\ UNCHANGED <<now, token, keys, pc, remaining, snap, status, calling, cut, skipped>>

HangUp == /\ calling /\ calling' = FALSE /\ wired' = {}
          /\ UNCHANGED <<now, token, keys, pc, remaining, snap, status, cut, skipped>>

\* The status callback of a call that is over.
Callback == /\ ~calling /\ status = "active" /\ status' = "completed"
            /\ UNCHANGED <<now, token, keys, pc, remaining, snap, twilio, cut, skipped>>

\* Until the token has expired and its keys with it.
Tick == /\ webhook # "sign"
        /\ ~Expired \/ Live(nonce) \/ Live(bound)
        /\ now' = now + 1
        /\ nonce' = Aged(nonce) /\ bound' = Aged(bound)
        /\ UNCHANGED <<token, pc, remaining, snap, status, twilio, cut, skipped>>

Verify(c) == Connect(c) \/ Look(c) \/ Take(c) \/ TakeRaises(c) \/ Peek(c) \/ Remove(c)
             \/ Bind(c) \/ VerifyRaises(c)

Handle(c) == Open(c) \/ Started(c) \/ HandOver(c) \/ Leave(c) \/ Finish(c) \/ End(c)
             \/ CleanupRaises(c)

Next == \/ Sign \/ SetNew \/ SetAgain \/ Tick \/ HangUp \/ Callback
        \/ \E c \in Conns : Verify(c) \/ Handle(c) \/ Blip(c)

Spec == Init /\ [][Next]_vars

-----------------------------------------------------------------------------
(* Properties.                                                              *)

\* The one type invariant.
TypeOK ==
    /\ now \in Nat /\ expires \in Nat
    /\ webhook \in {"sign", "setnx", "set", "answered"}
    /\ nonce \in Entry /\ bound \in Entry
    /\ pc \in [Conns -> PCs] /\ remaining \in [Conns -> 0 .. Ttl]
    /\ snap \in [Conns -> Statuses] /\ status \in Statuses
    /\ calling \in BOOLEAN /\ wired \subseteq Conns
    /\ cut \in BOOLEAN /\ skipped \in BOOLEAN

\* A token is good for a connection until its last second: it is unused, or
\* bound, or a connection is just binding it, whatever connections overlap;
\* unless a first use was broken off by Redis, which uses it up.
TokenUsable ==
    webhook = "answered" /\ now < expires * Second =>
        \/ Live(nonce) \/ Live(bound)
        \/ \E c \in Conns : pc[c] = "bind"
        \/ cut

\* When every connection that was let in has been cleaned up the session is
\* no longer active, although each saves the status it read, over those that
\* others have set meanwhile; or one of the cleanups has logged that it
\* skipped ending it.
SettledWhenGone ==
    /\ \E c \in Conns : pc[c] = "closed"
    /\ \A c \in Conns : pc[c] \notin {"live", "started", "finish", "end"}
    => status # "active" \/ skipped
=============================================================================
