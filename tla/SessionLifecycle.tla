-------------------------- MODULE SessionLifecycle --------------------------
(***************************************************************************)
(* What SessionManager promises about one session, with no cache, no       *)
(* clients and no steps in between: a newest value, a durable value behind *)
(* it, and the life a session may lead.  The newest value may run ahead of *)
(* the durable one (a save writes Redis first) and may fall back to it     *)
(* (Redis loses the key, or the save fails); the durable value only ever   *)
(* moves to a value the session was legally led to.                        *)
(*                                                                         *)
(* The life is stated as a relation of its own, not through the operators  *)
(* of SessionData that translate the code.                                 *)
(***************************************************************************)
EXTENDS SessionData

VARIABLES
    current,    \* the newest value: in the cache, or on its way to the database
    durable     \* the session that survives the loss of the cache

vars == <<current, durable>>

Init == current = Absent /\ durable = Absent

\* s may be led to t, by any number of legal moves.  Turns are only ever
\* added; an active session may finish, in one of four ways; a finished one
\* stays as it is, except that the hand-off message may still be added while
\* a human is awaited.
Leads(s, t) ==
    /\ s.turns \subseteq t.turns
    /\ \/ /\ s.status = "active"
          /\ \/ t.status \in Terminal \ {"waiting_human"} /\ t.reason = s.reason
             \/ t.status = "active" /\ t.reason = s.reason
             \/ t.status = "waiting_human" /\ t.reason = "given"
       \/ /\ s.status = "waiting_human" /\ t.status = s.status /\ t.reason = s.reason
          /\ t.turns \ s.turns \subseteq HandoffTurns
       \/ s.status \in Terminal \ {"waiting_human"} /\ t = s

Create == /\ ~Exists(durable)
          /\ current' = Fresh /\ durable' = Fresh

\* A save puts a new value in the cache; the database has not seen it yet.
Advance == Leads(current, current') /\ UNCHANGED durable

\* The database catches up.
Persist == durable' = current /\ UNCHANGED current

\* The newest value is lost: callers are back at the durable one.
Lose == current' = durable /\ UNCHANGED durable

Next == Create \/ Advance \/ Persist \/ Lose

Spec == Init /\ [][Next]_vars
============================================================================
