---------------------------- MODULE SessionStore ----------------------------
(***************************************************************************)
(* SessionManager (services/session_manager.py) keeping one session in two *)
(* places: a Redis key with a TTL and a database row, plus the Redis key   *)
(* that maps the Twilio CallSid to the session.  A client is one coroutine *)
(* (a socket handler, an HTTP request, a status callback) inside an        *)
(* operation of the manager.  Every await is a point where other clients   *)
(* run, so each operation is cut at its awaits, and the code between two   *)
(* of them belongs to the step that ends the first.                        *)
(*                                                                         *)
(* pc names the call a client is about to make:                            *)
(*   c_cache, c_bind            create: the set of the key, bind_call_sid  *)
(*   b_lookup, b_select, b_bind get_by_call_sid                            *)
(*   g_cache, g_row, g_fill     get: the key, the row, the fill on a miss  *)
(*   s_cache                    save: the set of the key                   *)
(*   p_load, p_commit           _persist: db.get and the commit            *)
(*   e_delete                   end: the delete of the key                 *)
(***************************************************************************)
EXTENDS SessionData

CONSTANTS
    Clients,    \* the coroutines that may use the session
    Ops,        \* the operations they may start, out of OpKinds
    CanFail     \* may an await raise: an error, a cancellation, a crash?

OpKinds == {"create", "get", "turn", "complete", "handoff", "callback"}

ASSUME StoreAssumption == Ops \subseteq OpKinds /\ CanFail \in BOOLEAN

VARIABLES
    row,        \* the sessions row, or Absent
    cache,      \* the session key in Redis, or Absent
    bound,      \* does the CallSid key name the session?
    pc, op,     \* per client: the call it is about to make, its operation
    turn,       \* per client: the turns its operation appends (one or none)
    loc,        \* per client: its copy of the session
    loaded,     \* per client: the row as its database session loaded it
    sent,       \* turns handed to add_turn so far
    acked       \* turns whose add_turn returned to its caller

vars == <<row, cache, bound, pc, op, turn, loc, loaded, sent, acked>>
local == <<pc, op, turn, loc, loaded>>

PCs == {"idle", "c_cache", "c_bind", "b_lookup", "b_select", "b_bind",
        "g_cache", "g_row", "g_fill", "s_cache", "p_load", "p_commit", "e_delete"}

Init == /\ row = Absent /\ cache = Absent /\ bound = FALSE
        /\ pc = [c \in Clients |-> "idle"]
        /\ op = [c \in Clients |-> "get"]
        /\ turn = [c \in Clients |-> {}]
        /\ loc = [c \in Clients |-> Absent]
        /\ loaded = [c \in Clients |-> Absent]
        /\ sent = {} /\ acked = {}

\* Client c moves on to call l, with s as its copy.
Goto(c, l, s) == /\ pc' = [pc EXCEPT ![c] = l]
                 /\ loc' = [loc EXCEPT ![c] = s]

\* Client c's operation is over; it forgets what it held.
Done(c) == /\ Goto(c, "idle", Absent)
           /\ op' = [op EXCEPT ![c] = "get"]
           /\ turn' = [turn EXCEPT ![c] = {}]
           /\ loaded' = [loaded EXCEPT ![c] = Absent]

-----------------------------------------------------------------------------
(* Starting an operation.  A session id reaches clients from its creator or *)
(* from list_sessions, so only once the row exists; a callback needs only   *)
(* the CallSid, which Twilio knows before the session does.                 *)

StartCreate(c) ==
    /\ "create" \in Ops /\ pc[c] = "idle" /\ ~Exists(row)
    /\ \A d \in Clients : op[d] # "create"
    /\ Goto(c, "p_load", Fresh)
    /\ op' = [op EXCEPT ![c] = "create"]
    /\ UNCHANGED <<row, cache, bound, turn, loaded, sent, acked>>

StartGet(c, kind) ==
    /\ kind \in Ops \cap {"get", "complete", "handoff"}
    /\ pc[c] = "idle" /\ Exists(row)
    /\ Goto(c, "g_cache", Absent)
    /\ op' = [op EXCEPT ![c] = kind]
    /\ UNCHANGED <<row, cache, bound, turn, loaded, sent, acked>>

StartTurn(c, t) ==
    /\ "turn" \in Ops /\ pc[c] = "idle" /\ Exists(row) /\ t \notin sent
    /\ Goto(c, "g_cache", Absent)
    /\ op' = [op EXCEPT ![c] = "turn"]
    /\ turn' = [turn EXCEPT ![c] = {t}]
    /\ sent' = sent \cup {t}
    /\ UNCHANGED <<row, cache, bound, loaded, acked>>

StartCallback(c) ==
    /\ "callback" \in Ops /\ pc[c] = "idle"
    /\ Goto(c, "b_lookup", Absent)
    /\ op' = [op EXCEPT ![c] = "callback"]
    /\ UNCHANGED <<row, cache, bound, turn, loaded, sent, acked>>

-----------------------------------------------------------------------------
\* What each caller of get does with the session s it is given.
DecideGet(c, s) == op[c] = "get" /\ Done(c)

DecideTurn(c, s) ==
    /\ op[c] = "turn"
    /\ \E t \in turn[c] :
          IF AddAllowed(s, t)
          THEN Goto(c, "s_cache", WithTurn(s, t)) /\ UNCHANGED <<op, turn, loaded>>
          ELSE Done(c)

\* Mutant: a status that no enumeration holds.
TargetUntyped(kind) == IF kind = "handoff" THEN "human" ELSE "completed"

Target(kind) == IF kind = "handoff" THEN "waiting_human" ELSE "completed"

DecideEnd(c, s) ==
    /\ op[c] \in {"complete", "handoff"}
    /\ IF EndKept(s, Target(op[c]))
       THEN Done(c)
       ELSE Goto(c, "s_cache", Ended(s, Target(op[c]))) /\ UNCHANGED <<op, turn, loaded>>

\* The status callback ends the session only if the copy it found is active,
\* through an end that reads the session again.
DecideCallback(c, s) ==
    /\ op[c] = "callback"
    /\ IF s.status = "active"
       THEN /\ Goto(c, "g_cache", Absent)
            /\ op' = [op EXCEPT ![c] = "complete"]
            /\ UNCHANGED <<turn, loaded>>
       ELSE Done(c)

Decide(c, s) == \/ DecideGet(c, s) \/ DecideTurn(c, s)
                \/ DecideEnd(c, s) \/ DecideCallback(c, s)

\* get: a hit refreshes the TTL and returns; a miss goes to the database.
GetCache(c) ==
    /\ pc[c] = "g_cache"
    /\ IF Exists(cache) THEN Decide(c, cache)
                         ELSE Goto(c, "g_row", Absent) /\ UNCHANGED <<op, turn, loaded>>
    /\ UNCHANGED <<row, cache, bound, sent, acked>>

GetRow(c) ==
    /\ pc[c] = "g_row" /\ Exists(row)
    /\ Goto(c, "g_fill", row)
    /\ UNCHANGED <<row, cache, bound, op, turn, loaded, sent, acked>>

GetFill(c) ==
    /\ pc[c] = "g_fill"
    /\ cache' = loc[c]
    /\ Decide(c, loc[c])
    /\ UNCHANGED <<row, bound, sent, acked>>

-----------------------------------------------------------------------------
\* get_by_call_sid: the mapping, else the rows' metadata and a new mapping.
CallLookup(c) ==
    /\ pc[c] = "b_lookup"
    /\ Goto(c, IF bound THEN "g_cache" ELSE "b_select", Absent)
    /\ UNCHANGED <<row, cache, bound, op, turn, loaded, sent, acked>>

\* Mutant: the mapping is written although no row matched.
CallSelectBlind(c) ==
    /\ pc[c] = "b_select"
    /\ Goto(c, "b_bind", row) /\ UNCHANGED <<op, turn, loaded>>
    /\ UNCHANGED <<row, cache, bound, sent, acked>>

\* Only the 200 newest calls are looked through.
CallSelect(c) ==
    /\ pc[c] = "b_select"
    /\ \/ Done(c)
       \/ Exists(row) /\ Goto(c, "b_bind", row) /\ UNCHANGED <<op, turn, loaded>>
    /\ UNCHANGED <<row, cache, bound, sent, acked>>

CallBind(c) ==
    /\ pc[c] = "b_bind"
    /\ bound' = TRUE
    /\ DecideCallback(c, loc[c])
    /\ UNCHANGED <<row, cache, sent, acked>>

-----------------------------------------------------------------------------
\* Mutants: a save that leaves the old key in Redis, and one that trusts
\* Redis and leaves the row alone.
SaveRowOnly(c) ==
    /\ pc[c] = "s_cache"
    /\ Goto(c, "p_load", loc[c])
    /\ UNCHANGED <<row, cache, bound, op, turn, loaded, sent, acked>>

SaveCacheOnly(c) ==
    /\ pc[c] = "s_cache"
    /\ cache' = loc[c]
    /\ Goto(c, "e_delete", loc[c])
    /\ UNCHANGED <<row, bound, op, turn, loaded, sent, acked>>

\* save: the cache first, the database second.
SaveCache(c) ==
    /\ pc[c] = "s_cache"
    /\ cache' = loc[c]
    /\ Goto(c, "p_load", loc[c])
    /\ UNCHANGED <<row, bound, op, turn, loaded, sent, acked>>

PersistLoad(c) ==
    /\ pc[c] = "p_load"
    /\ Goto(c, "p_commit", loc[c])
    /\ loaded' = [loaded EXCEPT ![c] = row]
    /\ UNCHANGED <<row, cache, bound, op, turn, sent, acked>>

\* The commit, and the return of add_turn when that is the operation.
PersistCommit(c) ==
    /\ pc[c] = "p_commit"
    /\ row' = Merge(row, loaded[c], loc[c])
    /\ acked' = acked \cup turn[c]
    /\ IF op[c] = "turn"
       THEN Done(c)
       ELSE /\ Goto(c, IF op[c] = "create" THEN "c_cache" ELSE "e_delete", loc[c])
            /\ loaded' = [loaded EXCEPT ![c] = Absent]
            /\ UNCHANGED <<op, turn>>
    /\ UNCHANGED <<cache, bound, sent>>

EndDelete(c) ==
    /\ pc[c] = "e_delete"
    /\ cache' = Absent
    /\ Done(c)
    /\ UNCHANGED <<row, bound, sent, acked>>

\* create, after its _persist: the key, then the CallSid mapping.
CreateCache(c) ==
    /\ pc[c] = "c_cache"
    /\ cache' = loc[c]
    /\ Goto(c, "c_bind", loc[c])
    /\ UNCHANGED <<row, bound, op, turn, loaded, sent, acked>>

CreateBind(c) ==
    /\ pc[c] = "c_bind"
    /\ bound' = TRUE
    /\ Done(c)
    /\ UNCHANGED <<row, cache, sent, acked>>

-----------------------------------------------------------------------------
(* The environment.                                                         *)

\* The call raises, or the coroutine is cancelled, or the process dies: the
\* operation stops where it is.  A commit may have taken effect all the same.
Fail(c) ==
    /\ CanFail /\ pc[c] # "idle"
    /\ row' \in IF pc[c] = "p_commit" THEN {row, Merge(row, loaded[c], loc[c])} ELSE {row}
    /\ Done(c)
    /\ UNCHANGED <<cache, bound, sent, acked>>

\* A TTL runs out, or Redis restarts empty.
ExpireSession == /\ Exists(cache) /\ cache' = Absent
                 /\ UNCHANGED <<row, bound, local, sent, acked>>

ExpireBinding == /\ bound /\ bound' = FALSE
                 /\ UNCHANGED <<row, cache, local, sent, acked>>

Step(c) == \/ GetCache(c) \/ GetRow(c) \/ GetFill(c)
           \/ CallLookup(c) \/ CallSelect(c) \/ CallBind(c)
           \/ SaveCache(c) \/ PersistLoad(c) \/ PersistCommit(c) \/ EndDelete(c)
           \/ CreateCache(c) \/ CreateBind(c)

Start(c) == \/ StartCreate(c) \/ StartCallback(c)
            \/ \E kind \in OpKinds : StartGet(c, kind)
            \/ \E t \in Turns : StartTurn(c, t)

Next == \/ \E c \in Clients : Start(c) \/ Step(c) \/ Fail(c)
        \/ ExpireSession \/ ExpireBinding

Spec == Init /\ [][Next]_vars

\* The event loop runs every coroutine whose await has completed.
FairSpec == Spec /\ \A c \in Clients : WF_vars(Step(c))
-----------------------------------------------------------------------------
(* Properties.                                                              *)

\* The one type invariant.
TypeOK ==
    /\ row \in Session /\ cache \in Session /\ bound \in BOOLEAN
    /\ pc \in [Clients -> PCs] /\ op \in [Clients -> OpKinds]
    /\ turn \in [Clients -> SUBSET Turns]
    /\ loc \in [Clients -> Session] /\ loaded \in [Clients -> Session]
    /\ sent \subseteq Turns /\ acked \subseteq Turns

\* However clients interleave, fail or race the creation of the session,
\* Redis never holds a session or a CallSid mapping that the database cannot
\* stand in for: the loss of Redis never makes a known session unknown.
RedisNeedsRow == (Exists(cache) \/ bound) => Exists(row)

\* A turn whose add_turn returned survives the loss of Redis.
AckedIsDurable == acked \subseteq row.turns

\* A copy in Redis, which get prefers to the row, shows every turn of the row
\* and agrees with it once the row is finished; a save that failed half-way,
\* and the operations after it, do not change that.
CacheNeverBehind ==
    Exists(cache) => /\ row.turns \subseteq cache.turns
                      /\ row.status \in Terminal =>
                            cache.status = row.status /\ cache.reason = row.reason

\* A finished session is final: no operation gives its row another status.
FinishedForever == [][row.status \in Terminal => row'.status = row.status]_vars

\* The session as its clients last left it: on its way to the database, else
\* in Redis, else in the database.
Saving == {c \in Clients : pc[c] \in {"p_load", "p_commit"} /\ op[c] # "create"}
Newest == IF Saving # {} THEN loc[CHOOSE c \in Saving : TRUE]
          ELSE IF Exists(cache) THEN cache ELSE row

\* One client at a time, the two stores together are the one session that
\* SessionLifecycle describes.
Lifecycle == INSTANCE SessionLifecycle WITH current <- Newest, durable <- row
Refines == Lifecycle!Spec

\* An end that is under way, from whichever client, leads to a finished row,
\* also when it finds in Redis the finished copy of another client's end.
EndSettles == \A c \in Clients : op[c] = "complete" ~> row.status \in Terminal
============================================================================
