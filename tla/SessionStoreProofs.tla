------------------------- MODULE SessionStoreProofs -------------------------
(***************************************************************************)
(* Proofs about SessionStore for every set of turns, of clients and of     *)
(* operations.  The first part needs no assumption on the clients; the     *)
(* second is about a session that one client uses.                         *)
(***************************************************************************)
EXTENDS SessionStore, TLAPS

-----------------------------------------------------------------------------
(* The operators on one copy.                                               *)

LEMMA ValuesTyped == Absent \in Session /\ Fresh \in Session
  BY DEF Absent, Fresh, Session, Statuses, Reasons

LEMMA WithTurnTyped ==
  ASSUME NEW s \in Session, NEW t \in Turns
  PROVE  /\ WithTurn(s, t) \in Session
         /\ WithTurn(s, t) = [status |-> s.status, turns |-> s.turns \cup {t},
                              reason |-> s.reason]
  BY DEF WithTurn, Session

LEMMA EndedTyped ==
  ASSUME NEW s \in Session, NEW kind \in OpKinds
  PROVE  /\ Ended(s, Target(kind)) \in Session
         /\ Ended(s, Target(kind)).status = Target(kind)
         /\ Ended(s, Target(kind)).turns = s.turns
         /\ Target(kind) \in {"completed", "waiting_human"}
  BY DEF Ended, Target, Session, Statuses, Reasons

LEMMA MergeTyped ==
  ASSUME NEW r \in Session, NEW l \in Session, NEW s \in Session
  PROVE  Merge(r, l, s) \in Session
  BY DEF Merge, Session

\* A commit leaves a row behind, whatever the row was when it was loaded.
LEMMA MergeExists ==
  ASSUME NEW r \in Session, NEW l \in Session, NEW s \in Session,
         Exists(s), Exists(l) => Exists(r)
  PROVE  Exists(Merge(r, l, s))
  BY DEF Merge, Exists, Session

-----------------------------------------------------------------------------
(* Types.                                                                   *)

LEMMA DoneTyped ==
  ASSUME NEW c \in Clients, TypeOK, Done(c)
  PROVE  /\ pc' \in [Clients -> PCs] /\ op' \in [Clients -> OpKinds]
         /\ turn' \in [Clients -> SUBSET Turns]
         /\ loc' \in [Clients -> Session] /\ loaded' \in [Clients -> Session]
  BY ValuesTyped DEF TypeOK, Done, Goto, PCs, OpKinds

LEMMA GotoTyped ==
  ASSUME NEW c \in Clients, NEW l \in PCs, NEW s \in Session, TypeOK, Goto(c, l, s)
  PROVE  pc' \in [Clients -> PCs] /\ loc' \in [Clients -> Session]
  BY DEF TypeOK, Goto

LEMMA DecideTyped ==
  ASSUME NEW c \in Clients, NEW s \in Session, TypeOK, Decide(c, s)
  PROVE  /\ pc' \in [Clients -> PCs] /\ op' \in [Clients -> OpKinds]
         /\ turn' \in [Clients -> SUBSET Turns]
         /\ loc' \in [Clients -> Session] /\ loaded' \in [Clients -> Session]
  <1>0. "s_cache" \in PCs /\ "g_cache" \in PCs
    BY DEF PCs
  <1>1. CASE DecideGet(c, s)
    BY <1>1, DoneTyped DEF DecideGet
  <1>2. CASE DecideTurn(c, s)
    <2>1. PICK t \in turn[c] :
             IF AddAllowed(s, t)
             THEN Goto(c, "s_cache", WithTurn(s, t)) /\ UNCHANGED <<op, turn, loaded>>
             ELSE Done(c)
      BY <1>2 DEF DecideTurn
    <2>2. t \in Turns
      BY DEF TypeOK
    <2>3. CASE Done(c)
      BY <2>3, DoneTyped
    <2>4. CASE Goto(c, "s_cache", WithTurn(s, t)) /\ UNCHANGED <<op, turn, loaded>>
      BY <2>2, <2>4, <1>0, WithTurnTyped, GotoTyped DEF TypeOK
    <2>5. QED
      BY <2>1, <2>3, <2>4
  <1>3. CASE DecideEnd(c, s)
    <2>1. CASE Done(c)
      BY <2>1, DoneTyped
    <2>2. CASE Goto(c, "s_cache", Ended(s, Target(op[c]))) /\ UNCHANGED <<op, turn, loaded>>
      <3>1. op[c] \in OpKinds
        BY DEF TypeOK
      <3>2. QED
        BY <3>1, <2>2, <1>0, EndedTyped, GotoTyped DEF TypeOK
    <2>3. QED
      BY <1>3, <2>1, <2>2 DEF DecideEnd
  <1>4. CASE DecideCallback(c, s)
    <2>1. CASE Done(c)
      BY <2>1, DoneTyped
    <2>2. CASE /\ Goto(c, "g_cache", Absent)
               /\ op' = [op EXCEPT ![c] = "complete"]
               /\ UNCHANGED <<turn, loaded>>
      BY <2>2, <1>0, ValuesTyped, GotoTyped DEF TypeOK, OpKinds
    <2>3. QED
      BY <1>4, <2>1, <2>2 DEF DecideCallback
  <1>5. QED
    BY <1>1, <1>2, <1>3, <1>4 DEF Decide

LEMMA FailTyped ==
  ASSUME NEW c \in Clients, TypeOK, Fail(c)
  PROVE  TypeOK'
  <1>1. row' \in Session
    <2>1. Merge(row, loaded[c], loc[c]) \in Session /\ row \in Session
      BY MergeTyped DEF TypeOK
    <2>2. QED
      BY <2>1 DEF Fail
  <1>2. Done(c)
    BY DEF Fail
  <1>3. QED
    BY <1>1, <1>2, DoneTyped DEF Fail, TypeOK

LEMMA StartTyped ==
  ASSUME NEW c \in Clients, TypeOK, Start(c)
  PROVE  TypeOK'
  <1>0. {"p_load", "g_cache", "b_lookup"} \subseteq PCs /\ OpKinds # {}
    BY DEF PCs, OpKinds
  <1>1. CASE StartCreate(c)
    BY <1>0, <1>1, ValuesTyped, GotoTyped DEF StartCreate, TypeOK, OpKinds
  <1>2. CASE StartCallback(c)
    BY <1>0, <1>2, ValuesTyped, GotoTyped DEF StartCallback, TypeOK, OpKinds
  <1>3. ASSUME NEW kind \in OpKinds, StartGet(c, kind)
        PROVE  TypeOK'
    BY <1>0, <1>3, ValuesTyped, GotoTyped DEF StartGet, TypeOK
  <1>4. ASSUME NEW t \in Turns, StartTurn(c, t)
        PROVE  TypeOK'
    BY <1>0, <1>4, ValuesTyped, GotoTyped DEF StartTurn, TypeOK, OpKinds
  <1>5. QED
    BY <1>1, <1>2, <1>3, <1>4 DEF Start

LEMMA StepTyped ==
  ASSUME NEW c \in Clients, TypeOK, Step(c)
  PROVE  TypeOK'
  <1>0. /\ {"idle", "c_cache", "c_bind", "b_lookup", "b_select", "b_bind", "g_cache", "g_row",
            "g_fill", "s_cache", "p_load", "p_commit", "e_delete"} \subseteq PCs
        /\ loc[c] \in Session /\ loaded[c] \in Session /\ op[c] \in OpKinds
        /\ turn[c] \subseteq Turns /\ row \in Session /\ cache \in Session
    BY DEF PCs, TypeOK
  <1>1. CASE GetCache(c)
    <2>1. CASE Decide(c, cache)
      BY <1>0, <1>1, <2>1, DecideTyped DEF GetCache, TypeOK
    <2>2. CASE Goto(c, "g_row", Absent) /\ UNCHANGED <<op, turn, loaded>>
      BY <1>0, <1>1, <2>2, ValuesTyped, GotoTyped DEF GetCache, TypeOK
    <2>3. QED
      BY <1>1, <2>1, <2>2 DEF GetCache
  <1>2. CASE GetRow(c)
    BY <1>0, <1>2, GotoTyped DEF GetRow, TypeOK
  <1>3. CASE GetFill(c)
    BY <1>0, <1>3, DecideTyped DEF GetFill, TypeOK
  <1>4. CASE CallLookup(c)
    <2>1. PICK l \in PCs : Goto(c, l, Absent)
      BY <1>0, <1>4 DEF CallLookup
    <2>2. QED
      BY <1>4, <2>1, ValuesTyped, GotoTyped DEF CallLookup, TypeOK
  <1>5. CASE CallSelect(c)
    <2>1. CASE Done(c)
      BY <1>5, <2>1, DoneTyped DEF CallSelect, TypeOK
    <2>2. CASE Goto(c, "b_bind", row) /\ UNCHANGED <<op, turn, loaded>>
      BY <1>0, <1>5, <2>2, GotoTyped DEF CallSelect, TypeOK
    <2>3. QED
      BY <1>5, <2>1, <2>2 DEF CallSelect
  <1>6. CASE CallBind(c)
    BY <1>0, <1>6, DecideTyped DEF CallBind, TypeOK, Decide
  <1>7. CASE SaveCache(c)
    BY <1>0, <1>7, GotoTyped DEF SaveCache, TypeOK
  <1>8. CASE PersistLoad(c)
    BY <1>0, <1>8, GotoTyped DEF PersistLoad, TypeOK
  <1>9. CASE PersistCommit(c)
    <2>1. row' \in Session
      BY <1>0, <1>9, MergeTyped DEF PersistCommit
    <2>2. /\ acked' \subseteq Turns
          /\ UNCHANGED <<cache, bound, sent>>
      BY <1>0, <1>9 DEF PersistCommit, TypeOK
    <2>3. CASE Done(c)
      BY <2>1, <2>2, <2>3, DoneTyped DEF TypeOK
    <2>4. CASE op[c] # "turn"
      <3>1. PICK l \in PCs : Goto(c, l, loc[c])
        BY <1>0, <1>9, <2>4 DEF PersistCommit
      <3>2. /\ loaded' = [loaded EXCEPT ![c] = Absent]
            /\ UNCHANGED <<op, turn>>
        BY <1>9, <2>4 DEF PersistCommit
      <3>3. QED
        BY <1>0, <2>1, <2>2, <3>1, <3>2, ValuesTyped, GotoTyped DEF TypeOK
    <2>5. QED
      BY <1>9, <2>3, <2>4 DEF PersistCommit
  <1>10. CASE EndDelete(c)
    BY <1>10, ValuesTyped, DoneTyped DEF EndDelete, TypeOK
  <1>11. CASE CreateCache(c)
    BY <1>0, <1>11, GotoTyped DEF CreateCache, TypeOK
  <1>12. CASE CreateBind(c)
    BY <1>12, DoneTyped DEF CreateBind, TypeOK
  <1>13. QED
    BY <1>1, <1>2, <1>3, <1>4, <1>5, <1>6, <1>7, <1>8, <1>9, <1>10, <1>11, <1>12 DEF Step

LEMMA InitTyped == Init => TypeOK
  BY ValuesTyped DEF Init, TypeOK, PCs, OpKinds

LEMMA NextTyped == TypeOK /\ [Next]_vars => TypeOK'
  <1> SUFFICES ASSUME TypeOK, [Next]_vars
               PROVE  TypeOK'
    OBVIOUS
  <1>1. CASE ExpireSession
    BY <1>1, ValuesTyped DEF ExpireSession, TypeOK, local
  <1>2. CASE ExpireBinding
    BY <1>2 DEF ExpireBinding, TypeOK, local
  <1>3. CASE UNCHANGED vars
    BY <1>3 DEF vars, TypeOK
  <1>4. QED
    BY <1>1, <1>2, <1>3, StartTyped, StepTyped, FailTyped DEF Next

\* Every variable keeps its type, whatever clients do.
THEOREM TypeCorrect == Spec => []TypeOK
  BY InitTyped, NextTyped, PTL DEF Spec

-----------------------------------------------------------------------------
(* Any number of clients, whatever they do: Redis never outlives the row.   *)
(* Not inductive by itself: a client about to write Redis must hold a real  *)
(* session whose row exists, and a commit must not merge into nothing.      *)

Held(c) ==
    /\ pc[c] \in {"b_bind", "g_fill", "s_cache", "c_cache", "c_bind"} => Exists(row)
    /\ pc[c] \in {"g_fill", "s_cache", "p_load", "p_commit", "c_cache"} => Exists(loc[c])
    /\ Exists(loaded[c]) => Exists(row)

RowInv == RedisNeedsRow /\ \A c \in Clients : Held(c)

LEMMA AbsentOrFresh == ~Exists(Absent) /\ Exists(Fresh)
  BY DEF Absent, Fresh, Exists

LEMMA WithTurnExists ==
  ASSUME NEW s \in Session, NEW t \in Turns, Exists(s)
  PROVE  Exists(WithTurn(s, t))
  BY WithTurnTyped DEF Exists

LEMMA EndedExists ==
  ASSUME NEW s \in Session, NEW kind \in OpKinds
  PROVE  Exists(Ended(s, Target(kind)))
  BY EndedTyped DEF Exists

\* The step of client c leaves the others where they were.
Others(c) == \A d \in Clients \ {c} : /\ pc'[d] = pc[d] /\ loc'[d] = loc[d]
                                      /\ loaded'[d] = loaded[d]

LEMMA DoneOthers ==
  ASSUME NEW c \in Clients, TypeOK, Done(c)
  PROVE  Others(c) /\ pc'[c] = "idle" /\ loc'[c] = Absent /\ loaded'[c] = Absent
  BY DEF TypeOK, Done, Goto, Others

LEMMA GotoOthers ==
  ASSUME NEW c \in Clients, NEW l, NEW s, TypeOK, Goto(c, l, s),
         \A d \in Clients \ {c} : loaded'[d] = loaded[d]
  PROVE  Others(c) /\ pc'[c] = l /\ loc'[c] = s
  BY DEF TypeOK, Goto, Others

\* A client that leaves get holds nothing, or a session it is about to save.
LEMMA DecideHeld ==
  ASSUME NEW c \in Clients, NEW s \in Session, TypeOK, Decide(c, s)
  PROVE  /\ Others(c) /\ loaded'[c] \in {Absent, loaded[c]}
         /\ \/ pc'[c] \in {"idle", "g_cache"}
            \/ pc'[c] = "s_cache" /\ (Exists(s) => Exists(loc'[c]))
  <1>1. CASE Done(c)
    BY <1>1, DoneOthers
  <1>2. CASE DecideTurn(c, s) /\ ~Done(c)
    <2>1. PICK t \in turn[c] : Goto(c, "s_cache", WithTurn(s, t)) /\ UNCHANGED loaded
      BY <1>2 DEF DecideTurn
    <2>2. t \in Turns
      BY DEF TypeOK
    <2>3. Others(c) /\ pc'[c] = "s_cache" /\ loc'[c] = WithTurn(s, t)
      BY <2>1, GotoOthers
    <2>4. QED
      BY <2>1, <2>2, <2>3, WithTurnExists
  <1>3. CASE DecideEnd(c, s) /\ ~Done(c)
    <2>1. Goto(c, "s_cache", Ended(s, Target(op[c]))) /\ UNCHANGED loaded
      BY <1>3 DEF DecideEnd
    <2>2. op[c] \in OpKinds
      BY DEF TypeOK
    <2>3. Others(c) /\ pc'[c] = "s_cache" /\ loc'[c] = Ended(s, Target(op[c]))
      BY <2>1, GotoOthers
    <2>4. QED
      BY <2>1, <2>2, <2>3, EndedExists
  <1>4. CASE DecideCallback(c, s) /\ ~Done(c)
    BY <1>4, GotoOthers DEF DecideCallback
  <1>5. QED
    BY <1>1, <1>2, <1>3, <1>4 DEF Decide, DecideGet

\* If Redis stays covered, a row stays a row, and client c's own step keeps
\* Held(c), then so does every client's.
LEMMA RowInvKept ==
  ASSUME NEW c \in Clients, RowInv, Others(c), RedisNeedsRow', Held(c)',
         Exists(row) => Exists(row)'
  PROVE  RowInv'
  BY DEF RowInv, Held, Others

LEMMA StartRow ==
  ASSUME NEW c \in Clients, TypeOK, RowInv, Start(c)
  PROVE  RowInv'
  <1>0. /\ UNCHANGED <<row, cache, bound, loaded>>
        /\ \/ Goto(c, "p_load", Fresh)
           \/ Goto(c, "g_cache", Absent) \/ Goto(c, "b_lookup", Absent)
    BY DEF Start, StartCreate, StartCallback, StartGet, StartTurn
  <1>1. Others(c) /\ \/ pc'[c] = "p_load" /\ loc'[c] = Fresh
                     \/ pc'[c] \in {"g_cache", "b_lookup"}
    BY <1>0, GotoOthers
  <1>2. Held(c)' /\ RedisNeedsRow'
    BY <1>0, <1>1, AbsentOrFresh DEF Held, RowInv, RedisNeedsRow, Exists, TypeOK
  <1>3. QED
    BY <1>0, <1>1, <1>2, RowInvKept DEF Exists

\* A commit, by a client whose copy is a real session.
LEMMA CommitExists ==
  ASSUME NEW c \in Clients, TypeOK, RowInv, pc[c] = "p_commit"
  PROVE  Exists(Merge(row, loaded[c], loc[c]))
  <1>1. row \in Session /\ loaded[c] \in Session /\ loc[c] \in Session
    BY DEF TypeOK
  <1>2. Exists(loc[c]) /\ (Exists(loaded[c]) => Exists(row))
    BY DEF RowInv, Held
  <1>3. QED
    BY <1>1, <1>2, MergeExists

LEMMA FailRow ==
  ASSUME NEW c \in Clients, TypeOK, RowInv, Fail(c)
  PROVE  RowInv'
  <1>1. Exists(row) => Exists(row)'
    BY CommitExists DEF Fail, Exists
  <1>2. Done(c) /\ UNCHANGED <<cache, bound>>
    BY DEF Fail
  <1>3. Others(c) /\ pc'[c] = "idle" /\ loaded'[c] = Absent
    BY <1>2, DoneOthers
  <1>4. Held(c)' /\ RedisNeedsRow'
    BY <1>1, <1>2, <1>3, AbsentOrFresh DEF Held, RowInv, RedisNeedsRow, Exists
  <1>5. QED
    BY <1>1, <1>3, <1>4, RowInvKept

LEMMA StepRow ==
  ASSUME NEW c \in Clients, TypeOK, RowInv, Step(c)
  PROVE  RowInv'
  <1>0. /\ loc[c] \in Session /\ loaded[c] \in Session /\ row \in Session /\ cache \in Session
        /\ Held(c) /\ RedisNeedsRow
    BY DEF TypeOK, RowInv
  <1>1. CASE GetCache(c)
    <2>1. CASE Exists(cache) /\ Decide(c, cache)
      BY <1>0, <1>1, <2>1, DecideHeld, RowInvKept, AbsentOrFresh
      DEF GetCache, Held, RedisNeedsRow, Exists
    <2>2. CASE Goto(c, "g_row", Absent) /\ UNCHANGED loaded
      BY <1>0, <1>1, <2>2, GotoOthers, RowInvKept DEF GetCache, Held, RedisNeedsRow, Exists
    <2>3. QED
      BY <1>1, <2>1, <2>2 DEF GetCache
  <1>2. CASE GetRow(c)
    BY <1>0, <1>2, GotoOthers, RowInvKept DEF GetRow, Held, RedisNeedsRow, Exists
  <1>3. CASE GetFill(c)
    BY <1>0, <1>3, DecideHeld, RowInvKept, AbsentOrFresh
    DEF GetFill, Held, RedisNeedsRow, Exists
  <1>4. CASE CallLookup(c)
    <2>1. PICK l \in {"g_cache", "b_select"} : Goto(c, l, Absent)
      BY <1>4 DEF CallLookup
    <2>2. QED
      BY <1>0, <1>4, <2>1, GotoOthers, RowInvKept DEF CallLookup, Held, RedisNeedsRow, Exists
  <1>5. CASE CallSelect(c)
    <2>1. CASE Done(c)
      BY <1>0, <1>5, <2>1, DoneOthers, RowInvKept, AbsentOrFresh
      DEF CallSelect, Held, RedisNeedsRow, Exists
    <2>2. CASE Exists(row) /\ Goto(c, "b_bind", row) /\ UNCHANGED loaded
      BY <1>0, <1>5, <2>2, GotoOthers, RowInvKept DEF CallSelect, Held, RedisNeedsRow, Exists
    <2>3. QED
      BY <1>5, <2>1, <2>2 DEF CallSelect
  <1>6. CASE CallBind(c)
    <2>1. Decide(c, loc[c])
      BY <1>6 DEF CallBind, Decide
    <2>2. pc'[c] \in {"idle", "g_cache"}
      BY <1>6, DoneOthers DEF CallBind, DecideCallback, Goto, TypeOK
    <2>3. QED
      BY <1>0, <1>6, <2>1, <2>2, DecideHeld, RowInvKept, AbsentOrFresh
      DEF CallBind, Held, RedisNeedsRow, Exists
  <1>7. CASE SaveCache(c)
    BY <1>0, <1>7, GotoOthers, RowInvKept DEF SaveCache, Held, RedisNeedsRow, Exists
  <1>8. CASE PersistLoad(c)
    <2>1. Others(c) /\ pc'[c] = "p_commit" /\ loc'[c] = loc[c] /\ loaded'[c] = row
      BY <1>8, GotoOthers DEF PersistLoad, TypeOK
    <2>2. QED
      BY <1>0, <1>8, <2>1, RowInvKept DEF PersistLoad, Held, RedisNeedsRow, Exists
  <1>9. CASE PersistCommit(c)
    <2>1. Exists(row)' /\ UNCHANGED <<cache, bound>>
      BY <1>9, CommitExists DEF PersistCommit, Exists
    <2>2. CASE Done(c)
      BY <1>0, <2>1, <2>2, DoneOthers, RowInvKept, AbsentOrFresh
      DEF Held, RedisNeedsRow, Exists
    <2>3. CASE op[c] # "turn"
      <3>1. PICK l \in {"c_cache", "e_delete"} : Goto(c, l, loc[c])
        BY <1>9, <2>3 DEF PersistCommit
      <3>2. loaded' = [loaded EXCEPT ![c] = Absent]
        BY <1>9, <2>3 DEF PersistCommit
      <3>3. \A d \in Clients \ {c} : loaded'[d] = loaded[d]
        BY <3>2 DEF TypeOK
      <3>4. Others(c) /\ pc'[c] = l /\ loc'[c] = loc[c] /\ loaded'[c] = Absent
        BY <3>1, <3>2, <3>3, GotoOthers DEF TypeOK
      <3>5. Exists(loc[c])
        BY <1>0, <1>9 DEF PersistCommit, Held
      <3>6. Held(c)' /\ RedisNeedsRow'
        BY <2>1, <3>1, <3>4, <3>5, AbsentOrFresh DEF Held, RedisNeedsRow, Exists
      <3>7. QED
        BY <2>1, <3>4, <3>6, RowInvKept
    <2>4. QED
      BY <1>9, <2>2, <2>3 DEF PersistCommit
  <1>10. CASE EndDelete(c)
    BY <1>0, <1>10, DoneOthers, RowInvKept, AbsentOrFresh
    DEF EndDelete, Held, RedisNeedsRow, Exists
  <1>11. CASE CreateCache(c)
    BY <1>0, <1>11, GotoOthers, RowInvKept DEF CreateCache, Held, RedisNeedsRow, Exists
  <1>12. CASE CreateBind(c)
    BY <1>0, <1>12, DoneOthers, RowInvKept, AbsentOrFresh
    DEF CreateBind, Held, RedisNeedsRow, Exists
  <1>13. QED
    BY <1>1, <1>2, <1>3, <1>4, <1>5, <1>6, <1>7, <1>8, <1>9, <1>10, <1>11, <1>12 DEF Step

LEMMA NextRow == TypeOK /\ RowInv /\ [Next]_vars => RowInv'
  <1> SUFFICES ASSUME TypeOK, RowInv, [Next]_vars
               PROVE  RowInv'
    OBVIOUS
  <1>1. CASE ExpireSession
    BY <1>1, AbsentOrFresh DEF ExpireSession, local, RowInv, Held, RedisNeedsRow, Exists
  <1>2. CASE ExpireBinding
    BY <1>2 DEF ExpireBinding, local, RowInv, Held, RedisNeedsRow, Exists
  <1>3. CASE UNCHANGED vars
    BY <1>3 DEF vars, RowInv, Held, RedisNeedsRow, Exists
  <1>4. QED
    BY <1>1, <1>2, <1>3, StartRow, StepRow, FailRow DEF Next

\* Whatever the clients, their operations and their failures: no session and
\* no CallSid mapping in Redis without the row that can restore them.
THEOREM RedisIsRecoverable == Spec => []RedisNeedsRow
  <1>1. Init => RowInv
    BY AbsentOrFresh DEF Init, RowInv, Held, RedisNeedsRow
  <1>2. RowInv => RedisNeedsRow
    BY DEF RowInv
  <1>3. QED
    BY <1>1, <1>2, NextRow, TypeCorrect, PTL DEF Spec

-----------------------------------------------------------------------------
\* The row once written stays written, whatever is merged into it and
\* whichever operations fail: a session is never unknown to the database again.
THEOREM RowIsKept == Spec => [][Exists(row) => Exists(row)']_row
  <1>1. Init => RowInv
    BY AbsentOrFresh DEF Init, RowInv, Held, RedisNeedsRow
  <1>2. TypeOK /\ RowInv /\ [Next]_vars => [Exists(row) => Exists(row)']_row
    <2> SUFFICES ASSUME TypeOK, RowInv, [Next]_vars, Exists(row), row' # row
                 PROVE  Exists(row)'
      BY DEF Exists
    <2>1. PICK c \in Clients : Fail(c) \/ PersistCommit(c)
      BY DEF Next, vars, ExpireSession, ExpireBinding, Start, StartCreate, StartGet,
             StartTurn, StartCallback, Step, GetCache, GetRow, GetFill, CallLookup,
             CallSelect, CallBind, SaveCache, PersistLoad, EndDelete, CreateCache, CreateBind
    <2>2. pc[c] = "p_commit" /\ row' = Merge(row, loaded[c], loc[c])
      BY <2>1 DEF Fail, PersistCommit
    <2>3. QED
      BY <2>2, CommitExists DEF Exists
  <1>3. QED
    BY <1>1, <1>2, NextRow, TypeCorrect, PTL DEF Spec

-----------------------------------------------------------------------------
(* Any number of clients that create, read and complete one session, in any *)
(* order and with any failures, no turn and no hand-off among them: then a  *)
(* finished session is final after all.  Stale copies still travel: an end  *)
(* saves what it read before another end, a fill or the creator puts an     *)
(* active copy back into Redis after the row has finished.                  *)

EndsOnly == Ops \cap {"turn", "handoff"} = {}

\* The values such a session takes, and a client that is saving one.
Closed == [status |-> "completed", turns |-> {}, reason |-> "none"]
Plain == {Absent, Fresh, Closed}
Saves(c) == pc[c] \in {"p_load", "p_commit"}

\* What client c holds: the creator writes the first row, and everybody else
\* a finished copy over a row that exists; who loaded a finished row may rely
\* on its staying finished.
EndClient(c) ==
    /\ op[c] \in {"create", "get", "complete", "callback"}
    /\ loc[c] \in Plain /\ loaded[c] \in Plain
    /\ pc[c] = "s_cache" => op[c] = "complete" /\ loc[c] = Closed
    /\ Saves(c) => \/ /\ op[c] = "create" /\ loc[c] = Fresh
                      /\ row = Absent /\ loaded[c] = Absent
                   \/ /\ op[c] = "complete" /\ loc[c] = Closed /\ Exists(row)
                      /\ pc[c] = "p_commit" => Exists(loaded[c])
    /\ loaded[c] = Closed => row = Closed

EndInv ==
    /\ row \in Plain /\ cache \in Plain
    /\ \A c \in Clients : EndClient(c)
    /\ \A c, d \in Clients : op[c] = "create" /\ op[d] = "create" => c = d

\* All that a step of client c may do to the row.
RowMove(c) == \/ row' = row
              \/ Exists(row) /\ row' = Closed
              \/ op[c] = "create" /\ ~Exists(row) /\ row' = Fresh

\* It leaves the others where they were, and creates only what it was creating.
SameOps(c) == /\ \A d \in Clients \ {c} : op'[d] = op[d]
              /\ op'[c] # "create" \/ op'[c] = op[c]

LEMMA PlainApart ==
  /\ Absent # Fresh /\ Absent # Closed /\ Fresh # Closed
  /\ ~Exists(Absent) /\ Exists(Fresh) /\ Exists(Closed)
  /\ Fresh.status = "active" /\ Closed.status = "completed" /\ Absent.status = "absent"
  BY DEF Absent, Fresh, Closed, Exists

LEMMA EndInvKept ==
  ASSUME NEW c \in Clients, TypeOK, EndInv, Others(c), SameOps(c), RowMove(c),
         cache' \in Plain, EndClient(c)'
  PROVE  EndInv'
  <1>1. row' \in Plain
    BY DEF RowMove, EndInv, Plain
  <1>2. ASSUME NEW d \in Clients \ {c}
        PROVE  EndClient(d)'
    <2>1. /\ EndClient(d) /\ row \in Plain
          /\ pc'[d] = pc[d] /\ op'[d] = op[d] /\ loc'[d] = loc[d] /\ loaded'[d] = loaded[d]
      BY DEF EndInv, Others, SameOps
    <2>2. CASE row' = row
      BY <2>1, <2>2 DEF EndClient, Saves, Exists
    <2>3. CASE Exists(row) /\ row' = Closed
      BY <2>1, <2>3, PlainApart DEF EndClient, Saves
    <2>4. CASE op[c] = "create" /\ ~Exists(row) /\ row' = Fresh
      <3>1. op[d] # "create"
        BY <2>4 DEF EndInv
      <3>2. QED
        BY <2>1, <2>4, <3>1, PlainApart DEF EndClient, Saves
    <2>5. QED
      BY <2>2, <2>3, <2>4 DEF RowMove
  <1>3. \A d, e \in Clients : op'[d] = "create" /\ op'[e] = "create" => d = e
    BY DEF EndInv, SameOps
  <1>4. QED
    BY <1>1, <1>2, <1>3 DEF EndInv

LEMMA DoneOps ==
  ASSUME NEW c \in Clients, TypeOK, Done(c)
  PROVE  SameOps(c) /\ op'[c] = "get"
  BY DEF TypeOK, Done, SameOps

LEMMA OverIsEnd ==
  ASSUME NEW s \in {Fresh, Closed}, ~EndKept(s, "completed")
  PROVE  Ended(s, "completed") = Closed
  <1>1. s = Fresh
    BY PlainApart DEF EndKept, Terminal
  <1>2. /\ Ended(s, "completed") \in Session
        /\ Ended(s, "completed").status = "completed"
        /\ Ended(s, "completed").turns = {} /\ Ended(s, "completed").reason = "none"
    <2>1. s \in Session /\ s.turns = {} /\ s.reason = "none"
      BY <1>1, ValuesTyped DEF Fresh
    <2>2. Target("complete") = "completed" /\ "complete" \in OpKinds
      BY DEF Target, OpKinds
    <2>3. Ended(s, "completed").reason = s.reason
      BY <2>1 DEF Ended, Session
    <2>4. QED
      BY <2>1, <2>2, <2>3, EndedTyped
  <1>3. \A r \in Session : r = [status |-> r.status, turns |-> r.turns, reason |-> r.reason]
    BY DEF Session
  <1>4. QED
    BY <1>2, <1>3 DEF Closed

\* What a client of such a session does with the copy that get gave it.
LEMMA DecideEnds ==
  ASSUME NEW c \in Clients, NEW s \in {Fresh, Closed}, TypeOK, EndInv, Decide(c, s)
  PROVE  /\ Others(c) /\ SameOps(c) /\ loaded'[c] \in {Absent, loaded[c]}
         /\ \/ /\ pc'[c] \in {"idle", "g_cache"} /\ loc'[c] = Absent
               /\ op'[c] \in {"get", "complete"}
            \/ pc'[c] = "s_cache" /\ op'[c] = "complete" /\ loc'[c] = Closed
  <1>0. op[c] \in {"create", "get", "complete", "callback"}
    BY DEF EndInv, EndClient
  <1>1. CASE Done(c)
    BY <1>1, DoneOthers, DoneOps
  <1>2. CASE DecideEnd(c, s) /\ ~Done(c)
    <2>1. op[c] = "complete" /\ Target(op[c]) = "completed"
      BY <1>0, <1>2 DEF DecideEnd, Target
    <2>2. /\ ~EndKept(s, "completed")
          /\ Goto(c, "s_cache", Ended(s, "completed")) /\ UNCHANGED <<op, turn, loaded>>
      BY <1>2, <2>1 DEF DecideEnd
    <2>3. Others(c) /\ pc'[c] = "s_cache" /\ loc'[c] = Closed
      BY <2>2, OverIsEnd, GotoOthers
    <2>4. QED
      BY <2>1, <2>2, <2>3 DEF SameOps
  <1>3. CASE DecideCallback(c, s) /\ ~Done(c)
    <2>1. /\ Goto(c, "g_cache", Absent) /\ UNCHANGED <<turn, loaded>>
          /\ op' = [op EXCEPT ![c] = "complete"]
      BY <1>3 DEF DecideCallback
    <2>2. SameOps(c) /\ op'[c] = "complete"
      BY <2>1 DEF SameOps, TypeOK
    <2>3. QED
      BY <2>1, <2>2, GotoOthers
  <1>4. QED
    BY <1>0, <1>1, <1>2, <1>3 DEF Decide, DecideGet, DecideTurn

LEMMA StartEnds ==
  ASSUME NEW c \in Clients, EndsOnly, TypeOK, RowInv, EndInv, Start(c)
  PROVE  EndInv' /\ RowMove(c)
  <1>1. /\ UNCHANGED <<row, cache, loaded>>
        /\ op[c] \in {"create", "get", "complete", "callback"}
        /\ loaded[c] \in Plain /\ (loaded[c] = Closed => row = Closed)
    <2>1. UNCHANGED <<row, cache, loaded>>
      BY DEF Start, StartCreate, StartCallback, StartGet, StartTurn
    <2>2. EndClient(c)
      BY DEF EndInv
    <2>3. QED
      BY <2>1, <2>2 DEF EndClient
  <1>2. CASE StartCreate(c)
    <2>0. row = Absent /\ loaded[c] = Absent
      BY <1>1, <1>2, PlainApart DEF StartCreate, EndInv, Plain, RowInv, Held
    <2>1. Others(c) /\ pc'[c] = "p_load" /\ loc'[c] = Fresh
      BY <1>1, <1>2, GotoOthers DEF StartCreate
    <2>2. (\A d \in Clients \ {c} : op'[d] = op[d]) /\ op'[c] = "create"
      BY <1>2 DEF StartCreate, TypeOK
    <2>3. EndClient(c)'
      BY <1>1, <2>0, <2>1, <2>2, PlainApart DEF EndClient, Saves, Plain
    <2>4. \A d \in Clients : op[d] # "create"
      BY <1>2 DEF StartCreate
    <2>5. ASSUME NEW d \in Clients \ {c}
          PROVE  EndClient(d)'
      BY <1>1, <2>1, <2>2 DEF EndInv, EndClient, Others, Saves, Exists
    <2>6. QED
      BY <1>1, <2>2, <2>3, <2>4, <2>5 DEF EndInv, RowMove
  <1>3. CASE StartCallback(c)
    <2>1. Others(c) /\ pc'[c] = "b_lookup" /\ loc'[c] = Absent
      BY <1>1, <1>3, GotoOthers DEF StartCallback
    <2>2. SameOps(c) /\ op'[c] = "callback"
      BY <1>3 DEF StartCallback, SameOps, TypeOK
    <2>3. EndClient(c)'
      BY <1>1, <2>1, <2>2, PlainApart DEF EndClient, Saves, Plain
    <2>4. QED
      BY <1>1, <2>1, <2>2, <2>3, EndInvKept DEF RowMove, EndInv
  <1>4. ASSUME NEW kind \in OpKinds, StartGet(c, kind)
        PROVE  EndInv' /\ RowMove(c)
    <2>1. Others(c) /\ pc'[c] = "g_cache" /\ loc'[c] = Absent
      BY <1>1, <1>4, GotoOthers DEF StartGet
    <2>2. SameOps(c) /\ op'[c] \in {"get", "complete"}
      BY <1>4 DEF StartGet, SameOps, TypeOK, EndsOnly
    <2>3. EndClient(c)'
      BY <1>1, <2>1, <2>2, PlainApart DEF EndClient, Saves, Plain
    <2>4. QED
      BY <1>1, <2>1, <2>2, <2>3, EndInvKept DEF RowMove, EndInv
  <1>5. QED
    BY <1>2, <1>3, <1>4 DEF Start, StartTurn, EndsOnly

\* The creator's commit writes the fresh row; an end's writes a finished one,
\* whatever other ends committed since it read.
LEMMA CommitEnds ==
  ASSUME NEW c \in Clients, TypeOK, EndInv, pc[c] = "p_commit",
         row' = Merge(row, loaded[c], loc[c])
  PROVE  RowMove(c) /\ Exists(row)'
  <1>0. EndClient(c) /\ row \in Plain
    BY DEF EndInv
  <1>1. CASE op[c] = "create"
    BY <1>0, <1>1, PlainApart DEF EndClient, Saves, Merge, RowMove, Exists
  <1>2. CASE op[c] = "complete"
    <2>1. /\ loc[c] = Closed /\ Exists(row) /\ Exists(loaded[c])
          /\ row \in {Fresh, Closed} /\ loaded[c] \in {Fresh, Closed}
          /\ loaded[c] = Closed => row = Closed
      BY <1>0, <1>2, PlainApart DEF EndClient, Saves, Plain
    <2>2. Merge(row, loaded[c], Closed) = Closed
      <3>1. CASE loaded[c] = Closed
        BY <2>1, <3>1, PlainApart DEF Merge, Closed, Exists
      <3>2. CASE loaded[c] = Fresh
        BY <2>1, <3>2, PlainApart DEF Merge, Closed, Fresh, Exists
      <3>3. QED
        BY <2>1, <3>1, <3>2
    <2>3. QED
      BY <2>1, <2>2, PlainApart DEF RowMove, Exists
  <1>3. QED
    BY <1>0, <1>1, <1>2 DEF EndClient, Saves

LEMMA FailEnds ==
  ASSUME NEW c \in Clients, TypeOK, EndInv, Fail(c)
  PROVE  EndInv' /\ RowMove(c)
  <1>1. RowMove(c)
    BY CommitEnds DEF Fail, RowMove
  <1>2. Done(c) /\ UNCHANGED cache
    BY DEF Fail
  <1>3. /\ Others(c) /\ SameOps(c) /\ op'[c] = "get"
        /\ pc'[c] = "idle" /\ loc'[c] = Absent /\ loaded'[c] = Absent
    BY <1>2, DoneOthers, DoneOps
  <1>4. EndClient(c)'
    BY <1>3, PlainApart DEF EndClient, Saves, Plain
  <1>5. QED
    BY <1>1, <1>2, <1>3, <1>4, EndInvKept DEF EndInv

LEMMA StepEnds ==
  ASSUME NEW c \in Clients, EndsOnly, TypeOK, RowInv, EndInv, Step(c)
  PROVE  EndInv' /\ RowMove(c)
  <1>0. /\ EndClient(c) /\ row \in Plain /\ cache \in Plain /\ Held(c)
        /\ loc[c] \in Plain /\ loaded[c] \in Plain
    BY DEF EndInv, EndClient, RowInv
  <1>d. ASSUME NEW s \in {Fresh, Closed}, Decide(c, s), ~Saves(c), UNCHANGED row, cache' \in Plain
        PROVE  EndInv' /\ RowMove(c)
    <2>1. /\ Others(c) /\ SameOps(c) /\ loaded'[c] \in {Absent, loaded[c]}
          /\ \/ /\ pc'[c] \in {"idle", "g_cache"} /\ loc'[c] = Absent
                /\ op'[c] \in {"get", "complete"}
             \/ pc'[c] = "s_cache" /\ op'[c] = "complete" /\ loc'[c] = Closed
      BY <1>d, DecideEnds
    <2>2. EndClient(c)'
      BY <1>0, <1>d, <2>1, PlainApart DEF EndClient, Saves, Plain
    <2>3. QED
      BY <1>d, <2>1, <2>2, EndInvKept DEF RowMove
  <1>g. ASSUME NEW l \in PCs, NEW s \in Plain, Goto(c, l, s), UNCHANGED <<row, op, loaded>>,
               l \notin {"s_cache", "p_load", "p_commit"}, cache' \in Plain
        PROVE  EndInv' /\ RowMove(c)
    <2>1. Others(c) /\ pc'[c] = l /\ loc'[c] = s /\ SameOps(c)
      BY <1>g, GotoOthers DEF SameOps
    <2>2. EndClient(c)'
      BY <1>0, <1>g, <2>1 DEF EndClient, Saves
    <2>3. QED
      BY <1>g, <2>1, <2>2, EndInvKept DEF RowMove
  <1>n. ASSUME Done(c), UNCHANGED row, cache' \in Plain
        PROVE  EndInv' /\ RowMove(c)
    <2>1. /\ Others(c) /\ SameOps(c) /\ op'[c] = "get"
          /\ pc'[c] = "idle" /\ loc'[c] = Absent /\ loaded'[c] = Absent
      BY <1>n, DoneOthers, DoneOps
    <2>2. EndClient(c)'
      BY <2>1, PlainApart DEF EndClient, Saves, Plain
    <2>3. QED
      BY <1>n, <2>1, <2>2, EndInvKept DEF RowMove
  <1>p. {"g_row", "g_fill", "g_cache", "b_select", "b_bind", "c_bind", "c_cache"} \subseteq PCs
        /\ Absent \in Plain
    BY DEF PCs, Plain
  <1>1. CASE GetCache(c)
    <2>1. CASE Exists(cache) /\ Decide(c, cache)
      BY <1>0, <1>1, <1>d, <2>1, PlainApart DEF GetCache, Saves, Plain
    <2>2. CASE Goto(c, "g_row", Absent) /\ UNCHANGED <<op, turn, loaded>>
      BY <1>0, <1>1, <1>g, <1>p, <2>2 DEF GetCache
    <2>3. QED
      BY <1>1, <2>1, <2>2 DEF GetCache
  <1>2. CASE GetRow(c)
    BY <1>0, <1>2, <1>g, <1>p DEF GetRow
  <1>3. CASE GetFill(c)
    BY <1>0, <1>3, <1>d, PlainApart DEF GetFill, Saves, Plain, Held
  <1>4. CASE CallLookup(c)
    <2>1. PICK l \in {"g_cache", "b_select"} : Goto(c, l, Absent)
      BY <1>4 DEF CallLookup
    <2>2. QED
      BY <1>0, <1>4, <1>g, <1>p, <2>1 DEF CallLookup
  <1>5. CASE CallSelect(c)
    BY <1>0, <1>5, <1>g, <1>n, <1>p DEF CallSelect
  <1>6. CASE CallBind(c)
    <2>1. CASE Done(c)
      BY <1>0, <1>6, <1>n, <2>1 DEF CallBind
    <2>2. CASE Goto(c, "g_cache", Absent) /\ UNCHANGED loaded /\ op' = [op EXCEPT ![c] = "complete"]
      <3>1. Others(c) /\ pc'[c] = "g_cache" /\ loc'[c] = Absent
        BY <2>2, GotoOthers
      <3>2. SameOps(c) /\ op'[c] = "complete"
        BY <2>2 DEF SameOps, TypeOK
      <3>3. EndClient(c)'
        BY <1>0, <1>6, <2>2, <3>1, <3>2, <1>p DEF CallBind, EndClient, Saves
      <3>4. QED
        BY <1>0, <1>6, <3>1, <3>2, <3>3, EndInvKept DEF CallBind, RowMove
    <2>3. QED
      BY <1>6, <2>1, <2>2 DEF CallBind, DecideCallback
  <1>7. CASE SaveCache(c)
    <2>1. Others(c) /\ pc'[c] = "p_load" /\ loc'[c] = loc[c] /\ SameOps(c)
      BY <1>7, GotoOthers DEF SaveCache, SameOps
    <2>2. op[c] = "complete" /\ loc[c] = Closed /\ Exists(row)
      BY <1>0, <1>7 DEF SaveCache, EndClient, Held
    <2>3. EndClient(c)'
      BY <1>0, <1>7, <2>1, <2>2 DEF SaveCache, EndClient, Saves, Exists
    <2>4. QED
      BY <1>0, <1>7, <2>1, <2>3, EndInvKept DEF SaveCache, RowMove
  <1>8. CASE PersistLoad(c)
    <2>1. Others(c) /\ pc'[c] = "p_commit" /\ loc'[c] = loc[c] /\ loaded'[c] = row
      BY <1>8, GotoOthers DEF PersistLoad, TypeOK
    <2>2. SameOps(c) /\ UNCHANGED <<row, cache, op>>
      BY <1>8 DEF PersistLoad, SameOps
    <2>3. EndClient(c)'
      BY <1>0, <1>8, <2>1, <2>2 DEF PersistLoad, EndClient, Saves, Exists
    <2>4. QED
      BY <1>0, <2>1, <2>2, <2>3, EndInvKept DEF RowMove
  <1>9. CASE PersistCommit(c)
    <2>1. RowMove(c) /\ UNCHANGED cache
      BY <1>9, CommitEnds DEF PersistCommit
    <2>2. op[c] \in {"create", "complete"}
      BY <1>0, <1>9 DEF PersistCommit, EndClient, Saves
    <2>3. PICK l \in {"c_cache", "e_delete"} : Goto(c, l, loc[c])
      BY <1>9, <2>2 DEF PersistCommit
    <2>4. loaded' = [loaded EXCEPT ![c] = Absent] /\ UNCHANGED op
      BY <1>9, <2>2 DEF PersistCommit
    <2>5. \A d \in Clients \ {c} : loaded'[d] = loaded[d]
      BY <2>4 DEF TypeOK
    <2>6. Others(c) /\ pc'[c] = l /\ loc'[c] = loc[c] /\ loaded'[c] = Absent /\ SameOps(c)
      BY <2>3, <2>4, <2>5, GotoOthers DEF TypeOK, SameOps
    <2>7. EndClient(c)'
      BY <1>0, <1>p, <2>3, <2>4, <2>6, PlainApart DEF EndClient, Saves
    <2>8. QED
      BY <1>0, <2>1, <2>6, <2>7, EndInvKept
  <1>10. CASE EndDelete(c)
    BY <1>10, <1>n, <1>p DEF EndDelete
  <1>11. CASE CreateCache(c)
    BY <1>0, <1>11, <1>g, <1>p DEF CreateCache
  <1>12. CASE CreateBind(c)
    BY <1>0, <1>12, <1>n DEF CreateBind
  <1>13. QED
    BY <1>1, <1>2, <1>3, <1>4, <1>5, <1>6, <1>7, <1>8, <1>9, <1>10, <1>11, <1>12 DEF Step

LEMMA NextEnds ==
  ASSUME EndsOnly, TypeOK, RowInv, EndInv, [Next]_vars
  PROVE  EndInv' /\ (row' = row \/ \E c \in Clients : RowMove(c))
  <1>1. CASE ExpireSession
    BY <1>1 DEF ExpireSession, local, EndInv, EndClient, Saves, Plain, Exists
  <1>2. CASE ExpireBinding
    BY <1>2 DEF ExpireBinding, local, EndInv, EndClient, Saves, Plain, Exists
  <1>3. CASE UNCHANGED vars
    BY <1>3 DEF vars, EndInv, EndClient, Saves, Plain, Exists
  <1>4. QED
    BY <1>1, <1>2, <1>3, StartEnds, StepEnds, FailEnds DEF Next

LEMMA InitEnds == Init => EndInv
  BY PlainApart DEF Init, EndInv, EndClient, Saves, Plain

\* Any number of clients creating, reading and completing a session, with any
\* failures: once its row is finished no end, no late fill and no late creator
\* changes the row's status.
THEOREM EndsStayFinal ==
  ASSUME EndsOnly
  PROVE  Spec => FinishedForever
  <1>1. TypeOK /\ RowInv /\ EndInv /\ [Next]_vars =>
          EndInv' /\ [row.status \in Terminal => row'.status = row.status]_vars
    <2> SUFFICES ASSUME TypeOK, RowInv, EndInv, [Next]_vars
                 PROVE  EndInv' /\ (row.status \in Terminal => row'.status = row.status)
      OBVIOUS
    <2>1. row \in Plain /\ (row' = row \/ \E c \in Clients : RowMove(c)) /\ EndInv'
      BY NextEnds DEF EndInv
    <2>2. QED
      BY <2>1, PlainApart DEF RowMove, Plain, Terminal
  <1>2. Init => RowInv
    BY AbsentOrFresh DEF Init, RowInv, Held, RedisNeedsRow
  <1>3. QED
    BY <1>1, <1>2, InitEnds, NextRow, TypeCorrect, PTL DEF Spec, FinishedForever

\* In such a session the row alone leads the life of SessionLifecycle: it is
\* created once, and every later change of it is a legal one.
THEOREM EndsLeadTheLife ==
  ASSUME EndsOnly
  PROVE  Spec => [][(~Exists(row) /\ row' = Fresh) \/ Lifecycle!Leads(row, row')]_row
  <1>1. TypeOK /\ RowInv /\ EndInv /\ [Next]_vars =>
          EndInv' /\ [(~Exists(row) /\ row' = Fresh) \/ Lifecycle!Leads(row, row')]_row
    <2> SUFFICES ASSUME TypeOK, RowInv, EndInv, [Next]_vars, row' # row
                 PROVE  (~Exists(row) /\ row' = Fresh) \/ Lifecycle!Leads(row, row')
      BY NextEnds
    <2>1. row \in Plain /\ \E c \in Clients : RowMove(c)
      BY NextEnds DEF EndInv
    <2>2. CASE Exists(row) /\ row' = Closed
      <3>1. row = Fresh
        BY <2>1, <2>2, PlainApart DEF Plain
      <3>2. QED
        BY <2>2, <3>1 DEF Fresh, Closed, Lifecycle!Leads, Lifecycle!Terminal
    <2>3. QED
      BY <2>1, <2>2 DEF RowMove
  <1>2. Init => RowInv
    BY AbsentOrFresh DEF Init, RowInv, Held, RedisNeedsRow
  <1>3. QED
    BY <1>1, <1>2, InitEnds, NextRow, TypeCorrect, PTL DEF Spec
============================================================================
