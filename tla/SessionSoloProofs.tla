-------------------------- MODULE SessionSoloProofs --------------------------
(***************************************************************************)
(* Proofs about a session that a single client uses: a connection that     *)
(* awaits each operation before it starts the next, while any await may    *)
(* fail and Redis may lose any key at any time.                            *)
(***************************************************************************)
EXTENDS SessionStoreProofs

Leads(s, t) == Lifecycle!Leads(s, t)

\* A status the program gives a session ("created" is never used).
Known(s) == s.status \in Statuses \ {"created"}

-----------------------------------------------------------------------------
(* The relation of the abstract life, and the moves the code makes.         *)

LEMMA LeadsTotal ==
  ASSUME NEW s \in Session, NEW t \in Session, Leads(s, t)
  PROVE  Known(s) /\ Known(t) /\ Exists(s) /\ Exists(t)
  BY DEF Leads, Lifecycle!Leads, Lifecycle!Terminal, Known, Exists, Session, Statuses, Terminal

LEMMA LeadsReflexive ==
  ASSUME NEW s \in Session, Known(s)
  PROVE  Leads(s, s)
  BY DEF Leads, Lifecycle!Leads, Lifecycle!Terminal, Known, Session, Statuses, Terminal

LEMMA LeadsTransitive ==
  ASSUME NEW s \in Session, NEW t \in Session, NEW u \in Session,
         Leads(s, t), Leads(t, u)
  PROVE  Leads(s, u)
  BY DEF Leads, Lifecycle!Leads, Lifecycle!Terminal, Session, Statuses, Terminal

LEMMA LeadsToTurn ==
  ASSUME NEW s \in Session, NEW t \in Turns, AddAllowed(s, t)
  PROVE  Leads(s, WithTurn(s, t))
  BY WithTurnTyped DEF AddAllowed, Leads, Lifecycle!Leads, Lifecycle!Terminal, Session, Statuses, Terminal

LEMMA LeadsToEnd ==
  ASSUME NEW s \in Session, NEW kind \in {"complete", "handoff"}, Known(s),
         ~EndKept(s, Target(kind))
  PROVE  Leads(s, Ended(s, Target(kind)))
  <1>1. s.status = "active"
    BY DEF EndKept, Target, Known, Statuses, Terminal
  <1>2. CASE kind = "complete"
    BY <1>1, <1>2 DEF Ended, Target, Leads, Lifecycle!Leads, Lifecycle!Terminal, Session, Terminal
  <1>3. CASE kind = "handoff"
    BY <1>1, <1>3 DEF Ended, Target, Leads, Lifecycle!Leads, Lifecycle!Terminal, Session, Terminal
  <1>4. QED
    BY <1>2, <1>3

\* With nobody else at the row, a commit writes the copy it was given.
LEMMA MergeAlone ==
  ASSUME NEW r \in Session, NEW s \in Session
  PROVE  Merge(r, r, s) = s
  BY DEF Merge, Session

-----------------------------------------------------------------------------
(* The inductive invariant.                                                 *)

Committing(c) == pc[c] \in {"p_load", "p_commit"}

\* What Redis holds was legally led to from the row.
CacheLed == /\ Exists(row) => Known(row)
            /\ Exists(cache) => Leads(row, cache)

\* So was the copy being saved, and from what Redis holds; while it is on its
\* way to the row, Redis holds it or nothing.
CopyLed(c) ==
    /\ pc[c] = "s_cache" => /\ op[c] \in {"turn", "complete", "handoff"}
                            /\ Leads(row, loc[c])
                            /\ Exists(cache) => Leads(cache, loc[c])
    /\ Committing(c) /\ op[c] # "create" =>
          /\ op[c] \in {"turn", "complete", "handoff"}
          /\ Leads(row, loc[c])
          /\ Exists(cache) => cache = loc[c]
    /\ pc[c] = "p_commit" => loaded[c] = row

\* The other places where a copy is held.
CopyFresh(c) ==
    /\ Committing(c) /\ op[c] = "create" =>
          row = Absent /\ ~Exists(cache) /\ loc[c] = Fresh
    /\ pc[c] = "c_cache" => row = Fresh /\ loc[c] = Fresh /\ ~Exists(cache)
    /\ pc[c] \in {"g_row", "g_fill"} => ~Exists(cache)
    /\ pc[c] = "g_fill" => Exists(row) /\ loc[c] = row
    /\ pc[c] = "e_delete" /\ Exists(cache) => cache = row

\* Whose turn the client carries, and where it is by then.
TurnHeld(c) ==
    /\ pc[c] = "idle" \/ op[c] # "turn" => turn[c] = {}
    /\ \A t, u \in turn[c] : t = u
    /\ pc[c] = "s_cache" \/ Committing(c) => turn[c] \subseteq loc[c].turns

Solo(c) == /\ CacheLed /\ CopyLed(c) /\ CopyFresh(c) /\ TurnHeld(c)
           /\ ~Exists(row) => row = Absent
           /\ AckedIsDurable

-----------------------------------------------------------------------------
(* Each step keeps it.                                                      *)

\* With one client, a fact about the client and the shared variables is a
\* fact about everything, so a step is followed value by value.
LEMMA DoneAt ==
  ASSUME NEW c \in Clients, TypeOK, Done(c)
  PROVE  pc'[c] = "idle" /\ op'[c] = "get" /\ turn'[c] = {}
  BY DEF TypeOK, Done, Goto

LEMMA IdleSolo ==
  ASSUME NEW c \in Clients, Solo(c), CacheLed', AckedIsDurable',
         ~Exists(row)' => (row = Absent)',
         pc'[c] = "idle", turn'[c] = {}
  PROVE  Solo(c)'
  BY DEF Solo, CopyLed, CopyFresh, TurnHeld, Committing

\* Deciding on a copy that Redis holds.
LEMMA DecideSolo ==
  ASSUME NEW c \in Clients, NEW s \in Session, TypeOK, Solo(c), Decide(c, s),
         UNCHANGED <<row, acked>>, pc[c] \in {"g_cache", "g_fill"},
         cache' = s, Leads(row, s)
  PROVE  Solo(c)'
  <1>0. /\ row \in Session /\ Known(s) /\ Exists(row) /\ op[c] \in OpKinds
        /\ CacheLed' /\ AckedIsDurable' /\ (~Exists(row)' => (row = Absent)')
    BY LeadsTotal DEF TypeOK, Solo, CacheLed, AckedIsDurable, Known, Exists
  <1>1. CASE Done(c)
    BY <1>0, <1>1, DoneAt, IdleSolo
  <1>2. CASE DecideTurn(c, s) /\ ~Done(c)
    <2>1. PICK t \in turn[c] :
             /\ AddAllowed(s, t)
             /\ Goto(c, "s_cache", WithTurn(s, t)) /\ UNCHANGED <<op, turn, loaded>>
      BY <1>2 DEF DecideTurn
    <2>2. t \in Turns /\ op[c] = "turn" /\ turn[c] = {t}
      BY <1>2 DEF TypeOK, DecideTurn, Solo, TurnHeld
    <2>3. /\ WithTurn(s, t) \in Session /\ t \in WithTurn(s, t).turns
          /\ Leads(s, WithTurn(s, t)) /\ Leads(row, WithTurn(s, t))
      BY <1>0, <2>1, <2>2, WithTurnTyped, LeadsToTurn, LeadsTransitive
    <2>4. /\ pc'[c] = "s_cache" /\ loc'[c] = WithTurn(s, t)
          /\ op'[c] = "turn" /\ turn'[c] = {t}
      BY <2>1, <2>2 DEF Goto, TypeOK
    <2>5. CopyLed(c)' /\ CopyFresh(c)' /\ TurnHeld(c)'
      BY <2>3, <2>4 DEF CopyLed, CopyFresh, TurnHeld, Committing, Leads, Lifecycle!Leads
    <2>6. QED
      BY <1>0, <2>5 DEF Solo
  <1>3. CASE DecideEnd(c, s) /\ ~Done(c)
    <2> DEFINE e == Ended(s, Target(op[c]))
    <2>1. /\ op[c] \in {"complete", "handoff"} /\ ~EndKept(s, Target(op[c]))
          /\ Goto(c, "s_cache", e) /\ UNCHANGED <<op, turn, loaded>>
      BY <1>3 DEF DecideEnd
    <2>2. e \in Session /\ Leads(s, e) /\ Leads(row, e)
      BY <1>0, <2>1, EndedTyped, LeadsToEnd, LeadsTransitive
    <2>3. pc'[c] = "s_cache" /\ loc'[c] = e /\ op'[c] = op[c] /\ turn'[c] = {}
      BY <2>1 DEF Goto, TypeOK, Solo, TurnHeld
    <2> HIDE DEF e
    <2>4. CopyLed(c)' /\ CopyFresh(c)' /\ TurnHeld(c)'
      BY <2>1, <2>2, <2>3 DEF CopyLed, CopyFresh, TurnHeld, Committing, Leads, Lifecycle!Leads
    <2>5. QED
      BY <1>0, <2>4 DEF Solo
  <1>4. CASE DecideCallback(c, s) /\ ~Done(c)
    <2>1. /\ op[c] = "callback" /\ Goto(c, "g_cache", Absent) /\ UNCHANGED turn
          /\ op' = [op EXCEPT ![c] = "complete"]
      BY <1>4 DEF DecideCallback
    <2>2. pc'[c] = "g_cache" /\ op'[c] = "complete" /\ turn'[c] = {}
      BY <2>1 DEF Goto, TypeOK, Solo, TurnHeld
    <2>3. CopyLed(c)' /\ CopyFresh(c)' /\ TurnHeld(c)'
      BY <2>2 DEF CopyLed, CopyFresh, TurnHeld, Committing
    <2>4. QED
      BY <1>0, <2>3 DEF Solo
  <1>5. QED
    BY <1>1, <1>2, <1>3, <1>4 DEF Decide, DecideGet

LEMMA GotoAt ==
  ASSUME NEW c \in Clients, NEW l, NEW s, TypeOK, Goto(c, l, s)
  PROVE  pc'[c] = l /\ loc'[c] = s
  BY DEF TypeOK, Goto

LEMMA StartSolo ==
  ASSUME NEW c \in Clients, TypeOK, Solo(c), Start(c)
  PROVE  Solo(c)'
  <1>0. /\ UNCHANGED <<row, cache, loaded, acked>>
        /\ CacheLed' /\ AckedIsDurable' /\ (~Exists(row)' => (row = Absent)')
        /\ pc[c] = "idle" /\ turn[c] = {} /\ c \in Clients
        /\ row \in Session /\ cache \in Session
    BY DEF Start, StartCreate, StartCallback, StartGet, StartTurn, Solo, CacheLed,
           AckedIsDurable, TurnHeld, Known, Exists, TypeOK
  <1>1. CASE StartCreate(c)
    <2>1. pc'[c] = "p_load" /\ loc'[c] = Fresh /\ op'[c] = "create" /\ turn'[c] = {}
      BY <1>0, <1>1, GotoAt DEF StartCreate, TypeOK
    <2>2. row = Absent /\ ~Exists(cache)
      BY <1>0, <1>1, LeadsTotal DEF StartCreate, Solo, CacheLed
    <2>3. QED
      BY <1>0, <2>1, <2>2 DEF Solo, CopyLed, CopyFresh, TurnHeld, Committing, Exists
  <1>2. CASE StartCallback(c)
    <2>1. pc'[c] = "b_lookup" /\ op'[c] = "callback" /\ turn'[c] = {}
      BY <1>0, <1>2, GotoAt DEF StartCallback, TypeOK
    <2>2. QED
      BY <1>0, <2>1 DEF Solo, CopyLed, CopyFresh, TurnHeld, Committing
  <1>3. ASSUME NEW kind \in OpKinds, StartGet(c, kind)
        PROVE  Solo(c)'
    <2>1. pc'[c] = "g_cache" /\ op'[c] # "turn" /\ turn'[c] = {}
      BY <1>0, <1>3, GotoAt DEF StartGet, TypeOK
    <2>2. QED
      BY <1>0, <2>1 DEF Solo, CopyLed, CopyFresh, TurnHeld, Committing
  <1>4. ASSUME NEW t \in Turns, StartTurn(c, t)
        PROVE  Solo(c)'
    <2>1. pc'[c] = "g_cache" /\ op'[c] = "turn" /\ turn'[c] = {t}
      BY <1>0, <1>4, GotoAt DEF StartTurn, TypeOK
    <2>2. QED
      BY <1>0, <2>1 DEF Solo, CopyLed, CopyFresh, TurnHeld, Committing
  <1>5. QED
    BY <1>1, <1>2, <1>3, <1>4 DEF Start

\* What a commit writes, and where it leaves Redis and the row.
LEMMA CommitSolo ==
  ASSUME NEW c \in Clients, TypeOK, Solo(c), pc[c] = "p_commit"
  PROVE  /\ Merge(row, loaded[c], loc[c]) = loc[c]
         /\ Exists(row) => Leads(row, loc[c])
         /\ Exists(loc[c]) /\ Known(loc[c]) /\ loc[c] \in Session
         /\ Exists(cache) => cache = loc[c]
         /\ row.turns \subseteq loc[c].turns
  <1>1. row \in Session /\ loc[c] \in Session /\ loaded[c] = row
    BY DEF TypeOK, Solo, CopyLed
  <1>2. CASE op[c] = "create"
    <2>1. row = Absent /\ ~Exists(cache) /\ loc[c] = Fresh
      BY <1>2 DEF Solo, CopyFresh, Committing
    <2>2. QED
      BY <1>1, <2>1, MergeAlone DEF Absent, Fresh, Exists, Known, Statuses
  <1>3. CASE op[c] # "create"
    <2>1. Leads(row, loc[c]) /\ (Exists(cache) => cache = loc[c])
      BY <1>3 DEF Solo, CopyLed, Committing
    <2>2. QED
      BY <1>1, <2>1, MergeAlone, LeadsTotal DEF Leads, Lifecycle!Leads
  <1>4. QED
    BY <1>2, <1>3

LEMMA FailSolo ==
  ASSUME NEW c \in Clients, TypeOK, Solo(c), Fail(c)
  PROVE  Solo(c)'
  <1>0. /\ c \in Clients /\ UNCHANGED <<cache, acked>> /\ Done(c)
        /\ row \in Session /\ cache \in Session /\ loc[c] \in Session
    BY DEF Fail, TypeOK
  <1>1. CASE row' = row
    BY <1>0, <1>1, DoneAt, IdleSolo DEF Solo, CacheLed, AckedIsDurable, Known, Exists
  <1>2. CASE pc[c] = "p_commit" /\ row' = Merge(row, loaded[c], loc[c])
    <2>1. /\ row' = loc[c] /\ Known(loc[c]) /\ Exists(loc[c])
          /\ Exists(cache) => cache = loc[c]
          /\ row.turns \subseteq loc[c].turns
      BY <1>0, <1>2, CommitSolo
    <2>2. CacheLed' /\ AckedIsDurable' /\ Exists(row)'
      BY <1>0, <2>1, LeadsReflexive DEF CacheLed, Solo, AckedIsDurable, Known, Exists
    <2>3. QED
      BY <1>0, <2>2, DoneAt, IdleSolo
  <1>3. QED
    BY <1>1, <1>2 DEF Fail

LEMMA StepSolo ==
  ASSUME NEW c \in Clients, TypeOK, Solo(c), Step(c)
  PROVE  Solo(c)'
  <1>0. /\ c \in Clients /\ CacheLed /\ CopyLed(c) /\ CopyFresh(c) /\ TurnHeld(c)
        /\ row \in Session /\ cache \in Session /\ loc[c] \in Session
        /\ op[c] \in OpKinds /\ ~Exists(Absent) /\ Exists(Fresh)
    BY AbsentOrFresh DEF TypeOK, Solo
  <1>1. CASE GetCache(c)
    <2>1. CASE Exists(cache) /\ Decide(c, cache)
      BY <1>0, <1>1, <2>1, DecideSolo DEF GetCache, CacheLed
    <2>2. CASE ~Exists(cache) /\ Goto(c, "g_row", Absent) /\ UNCHANGED <<op, turn, loaded>>
      <3>1. pc'[c] = "g_row" /\ UNCHANGED <<row, cache, op, turn, acked>> /\ pc[c] = "g_cache"
        BY <1>0, <1>1, <2>2, GotoAt DEF GetCache
      <3>2. QED
        BY <1>0, <2>2, <3>1 DEF Solo, CacheLed, CopyLed, CopyFresh, TurnHeld, Committing,
           AckedIsDurable, Known, Exists
    <2>3. QED
      BY <1>1, <2>1, <2>2 DEF GetCache
  <1>2. CASE GetRow(c)
    <2>1. /\ pc'[c] = "g_fill" /\ loc'[c] = row /\ Exists(row)
          /\ UNCHANGED <<row, cache, op, turn, acked>> /\ pc[c] = "g_row"
      BY <1>0, <1>2, GotoAt DEF GetRow
    <2>2. QED
      BY <1>0, <2>1 DEF Solo, CacheLed, CopyLed, CopyFresh, TurnHeld, Committing,
         AckedIsDurable, Known, Exists
  <1>3. CASE GetFill(c)
    <2>1. /\ pc[c] = "g_fill" /\ loc[c] = row /\ Known(row) /\ cache' = row
          /\ Decide(c, row) /\ UNCHANGED <<row, acked>>
      BY <1>0, <1>3 DEF GetFill, CopyFresh, CacheLed
    <2>2. QED
      BY <1>0, <2>1, LeadsReflexive, DecideSolo
  <1>4. CASE CallLookup(c)
    <2>1. /\ pc'[c] \in {"g_cache", "b_select"} /\ pc[c] = "b_lookup"
          /\ UNCHANGED <<row, cache, op, turn, acked>>
      BY <1>0, <1>4, GotoAt DEF CallLookup
    <2>2. QED
      BY <1>0, <2>1 DEF Solo, CacheLed, CopyLed, CopyFresh, TurnHeld, Committing,
         AckedIsDurable, Known, Exists
  <1>5. CASE CallSelect(c)
    <2>1. CASE Done(c)
      BY <1>0, <1>5, <2>1, DoneAt, IdleSolo
      DEF CallSelect, Solo, CacheLed, AckedIsDurable, Known, Exists
    <2>2. CASE Goto(c, "b_bind", row) /\ UNCHANGED <<op, turn, loaded>>
      <3>1. pc'[c] = "b_bind" /\ pc[c] = "b_select" /\ UNCHANGED <<row, cache, op, turn, acked>>
        BY <1>0, <1>5, <2>2, GotoAt DEF CallSelect
      <3>2. QED
        BY <1>0, <3>1 DEF Solo, CacheLed, CopyLed, CopyFresh, TurnHeld, Committing,
           AckedIsDurable, Known, Exists
    <2>3. QED
      BY <1>5, <2>1, <2>2 DEF CallSelect
  <1>6. CASE CallBind(c)
    <2>0. UNCHANGED <<row, cache, acked>> /\ pc[c] = "b_bind" /\ DecideCallback(c, loc[c])
      BY <1>6 DEF CallBind
    <2>1. CASE Done(c)
      BY <1>0, <2>0, <2>1, DoneAt, IdleSolo DEF Solo, CacheLed, AckedIsDurable, Known, Exists
    <2>2. CASE /\ Goto(c, "g_cache", Absent) /\ UNCHANGED <<turn, loaded>>
               /\ op' = [op EXCEPT ![c] = "complete"]
      <3>1. pc'[c] = "g_cache" /\ op'[c] = "complete" /\ turn'[c] = turn[c] /\ op[c] = "callback"
        BY <1>0, <2>0, <2>2, GotoAt DEF DecideCallback, TypeOK
      <3>2. QED
        BY <1>0, <2>0, <3>1 DEF Solo, CacheLed, CopyLed, CopyFresh, TurnHeld, Committing,
           AckedIsDurable, Known, Exists
    <2>3. QED
      BY <2>0, <2>1, <2>2 DEF DecideCallback
  <1>7. CASE SaveCache(c)
    <2>1. /\ pc'[c] = "p_load" /\ loc'[c] = loc[c] /\ cache' = loc[c] /\ pc[c] = "s_cache"
          /\ UNCHANGED <<row, op, turn, acked>>
      BY <1>0, <1>7, GotoAt DEF SaveCache
    <2>2. QED
      BY <1>0, <2>1 DEF Solo, CacheLed, CopyLed, CopyFresh, TurnHeld, Committing,
         AckedIsDurable, Known, Exists
  <1>8. CASE PersistLoad(c)
    <2>1. /\ pc'[c] = "p_commit" /\ loc'[c] = loc[c] /\ loaded'[c] = row /\ pc[c] = "p_load"
          /\ UNCHANGED <<row, cache, op, turn, acked>>
      BY <1>0, <1>8, GotoAt DEF PersistLoad, TypeOK
    <2>2. QED
      BY <1>0, <2>1 DEF Solo, CacheLed, CopyLed, CopyFresh, TurnHeld, Committing,
         AckedIsDurable, Known, Exists
  <1>9. CASE PersistCommit(c)
    <2>0. pc[c] = "p_commit"
      BY <1>9 DEF PersistCommit
    <2>1. /\ row' = loc[c] /\ Known(loc[c]) /\ Exists(loc[c])
          /\ Exists(cache) => cache = loc[c]
          /\ row.turns \subseteq loc[c].turns
          /\ acked' = acked \cup turn[c] /\ cache' = cache
      BY <1>0, <1>9, <2>0, CommitSolo DEF PersistCommit
    <2>2. CacheLed' /\ AckedIsDurable' /\ Exists(row)'
      BY <1>0, <2>0, <2>1, LeadsReflexive
      DEF CacheLed, Solo, AckedIsDurable, Known, Exists, TurnHeld, Committing
    <2>3. CASE Done(c)
      BY <1>0, <2>2, <2>3, DoneAt, IdleSolo
    <2>4. CASE op[c] = "create"
      <3>1. Goto(c, "c_cache", loc[c]) /\ UNCHANGED <<op, turn>>
        BY <1>9, <2>4 DEF PersistCommit
      <3>2. pc'[c] = "c_cache" /\ loc'[c] = loc[c] /\ loc[c] = Fresh /\ ~Exists(cache)
        BY <1>0, <2>0, <2>4, <3>1, GotoAt DEF CopyFresh, Committing
      <3>3. QED
        BY <1>0, <2>1, <2>2, <2>4, <3>1, <3>2
        DEF Solo, CopyLed, CopyFresh, TurnHeld, Committing, Exists
    <2>5. CASE op[c] \notin {"create", "turn"}
      <3>1. Goto(c, "e_delete", loc[c]) /\ UNCHANGED <<op, turn>>
        BY <1>9, <2>5 DEF PersistCommit
      <3>2. pc'[c] = "e_delete"
        BY <1>0, <3>1, GotoAt
      <3>3. QED
        BY <1>0, <2>1, <2>2, <2>5, <3>1, <3>2
        DEF Solo, CopyLed, CopyFresh, TurnHeld, Committing, Exists
    <2>6. QED
      BY <1>9, <2>3, <2>4, <2>5 DEF PersistCommit
  <1>10. CASE EndDelete(c)
    BY <1>0, <1>10, DoneAt, IdleSolo
    DEF EndDelete, Solo, CacheLed, AckedIsDurable, Known, Exists
  <1>11. CASE CreateCache(c)
    <2>1. /\ pc'[c] = "c_bind" /\ cache' = Fresh /\ row = Fresh /\ pc[c] = "c_cache"
          /\ UNCHANGED <<row, op, turn, acked>>
      BY <1>0, <1>11, GotoAt DEF CreateCache, CopyFresh
    <2>2. Fresh \in Session /\ Leads(Fresh, Fresh)
      BY ValuesTyped, LeadsReflexive DEF Fresh, Known, Statuses
    <2>3. QED
      BY <1>0, <2>1, <2>2 DEF Solo, CacheLed, CopyLed, CopyFresh, TurnHeld, Committing,
         AckedIsDurable, Known, Exists
  <1>12. CASE CreateBind(c)
    BY <1>0, <1>12, DoneAt, IdleSolo
    DEF CreateBind, Solo, CacheLed, AckedIsDurable, Known, Exists
  <1>13. QED
    BY <1>1, <1>2, <1>3, <1>4, <1>5, <1>6, <1>7, <1>8, <1>9, <1>10, <1>11, <1>12 DEF Step

\* A step of the client itself or of the environment; with one client there are
\* no others.
LEMMA AloneSolo ==
  ASSUME NEW c \in Clients, TypeOK, Solo(c),
         \/ Start(c) \/ Step(c) \/ Fail(c) \/ ExpireSession \/ ExpireBinding \/ UNCHANGED vars
  PROVE  Solo(c)'
  <1>1. CASE ExpireSession
    BY <1>1, AbsentOrFresh DEF ExpireSession, local, Solo, CacheLed, CopyLed, CopyFresh,
       TurnHeld, Committing, AckedIsDurable, Known, Exists
  <1>2. CASE ExpireBinding
    BY <1>2 DEF ExpireBinding, local, Solo, CacheLed, CopyLed, CopyFresh,
       TurnHeld, Committing, AckedIsDurable, Known, Exists
  <1>3. CASE UNCHANGED vars
    BY <1>3 DEF vars, Solo, CacheLed, CopyLed, CopyFresh,
       TurnHeld, Committing, AckedIsDurable, Known, Exists
  <1>4. QED
    BY <1>1, <1>2, <1>3, StartSolo, StepSolo, FailSolo

LEMMA NextSolo ==
  ASSUME NEW c, Clients = {c}
  PROVE  TypeOK /\ Solo(c) /\ [Next]_vars => Solo(c)'
  BY AloneSolo DEF Next

LEMMA InitSolo ==
  ASSUME NEW c, Clients = {c}
  PROVE  Init => Solo(c)
  BY AbsentOrFresh DEF Init, Solo, CacheLed, CopyLed, CopyFresh, TurnHeld, Committing,
     AckedIsDurable

LEMMA SoloInvariant ==
  ASSUME NEW c, Clients = {c}
  PROVE  Spec => [](TypeOK /\ Solo(c))
  BY InitTyped, NextTyped, InitSolo, NextSolo, PTL DEF Spec

-----------------------------------------------------------------------------
(* What it implies.                                                         *)

\* A turn whose add_turn returned is in the row from then on, although the
\* save writes Redis first and any await may fail.
THEOREM AckedTurnsSurvive ==
  ASSUME NEW c, Clients = {c}
  PROVE  Spec => []AckedIsDurable
  <1>1. Solo(c) => AckedIsDurable
    BY DEF Solo
  <1>2. QED
    BY <1>1, SoloInvariant, PTL

\* The copy that get prefers to the row is never behind the row.
THEOREM CacheIsNeverBehind ==
  ASSUME NEW c, Clients = {c}
  PROVE  Spec => []CacheNeverBehind
  <1>1. TypeOK /\ Solo(c) => CacheNeverBehind
    BY DEF TypeOK, Solo, CacheLed, CacheNeverBehind, Leads, Lifecycle!Leads,
       Lifecycle!Terminal, Terminal, Session, Statuses
  <1>2. QED
    BY <1>1, SoloInvariant, PTL

\* Once finished, a row keeps its status.
THEOREM FinishedStaysFinished ==
  ASSUME NEW c, Clients = {c}
  PROVE  Spec => FinishedForever
  <1>1. TypeOK /\ Solo(c) /\ [Next]_vars
           => [row.status \in Terminal => row'.status = row.status]_vars
    <2> SUFFICES ASSUME TypeOK, Solo(c), [Next]_vars, row.status \in Terminal
                 PROVE  row'.status = row.status
      OBVIOUS
    <2>1. \/ row' = row
          \/ pc[c] = "p_commit" /\ row' = Merge(row, loaded[c], loc[c])
      BY DEF Next, Start, StartCreate, StartCallback, StartGet, StartTurn, Fail, Step,
         GetCache, GetRow, GetFill, CallLookup, CallSelect, CallBind, SaveCache, PersistLoad,
         PersistCommit, EndDelete, CreateCache, CreateBind, ExpireSession, ExpireBinding, vars
    <2>2. CASE pc[c] = "p_commit" /\ row' = Merge(row, loaded[c], loc[c])
      <3>1. row' = loc[c] /\ Leads(row, loc[c])
        BY <2>2, CommitSolo DEF Exists, Terminal
      <3>2. QED
        BY <3>1 DEF Leads, Lifecycle!Leads, Terminal
    <2>3. QED
      BY <2>1, <2>2
  <1>2. QED
    BY <1>1, SoloInvariant, PTL DEF Spec, FinishedForever

-----------------------------------------------------------------------------
(* The two stores together are the one session of SessionLifecycle.         *)

Value(c) == IF Committing(c) /\ op[c] # "create" THEN loc[c]
            ELSE IF Exists(cache) THEN cache ELSE row

LEMMA NewestIsValue ==
  ASSUME NEW c, Clients = {c}
  PROVE  Newest = Value(c) /\ Newest' = Value(c)'
  <1>1. ASSUME Committing(c) /\ op[c] # "create"
        PROVE  Newest = Value(c)
    <2>1. Saving = {c}
      BY <1>1 DEF Saving, Committing
    <2>2. QED
      BY <1>1, <2>1 DEF Newest, Value
  <1>2. ASSUME ~(Committing(c) /\ op[c] # "create")
        PROVE  Newest = Value(c)
    <2>1. Saving = {}
      BY <1>2 DEF Saving, Committing
    <2>2. QED
      BY <1>2, <2>1 DEF Newest, Value
  <1>3. Newest = Value(c)
    BY <1>1, <1>2
  <1>4. CASE (Committing(c) /\ op[c] # "create")'
    <2>1. Saving' = {c}
      BY <1>4 DEF Saving, Committing
    <2>2. QED
      BY <1>3, <1>4, <2>1 DEF Newest, Value
  <1>5. CASE ~(Committing(c) /\ op[c] # "create")'
    <2>1. Saving' = {}
      BY <1>5 DEF Saving, Committing
    <2>2. QED
      BY <1>3, <1>5, <2>1 DEF Newest, Value
  <1>6. QED
    BY <1>4, <1>5

LEMMA StepRefines ==
  ASSUME NEW c, Clients = {c}, TypeOK, Solo(c), [Next]_vars
  PROVE  [Lifecycle!Next]_(Lifecycle!vars)
  <1> USE DEF Lifecycle!Next, Lifecycle!vars
  <1>0. /\ c \in Clients /\ Newest = Value(c) /\ Newest' = Value(c)'
        /\ CacheLed /\ CopyLed(c) /\ CopyFresh(c) /\ TypeOK /\ ~Exists(Absent) /\ Exists(Fresh)
    BY NewestIsValue, AbsentOrFresh DEF Solo
  <1>1. CASE Start(c)
    <2>1. pc[c] = "idle" /\ (pc'[c] # "p_load" \/ op'[c] = "create") /\ pc'[c] # "p_commit"
      BY <1>0, <1>1, GotoAt DEF Start, StartCreate, StartCallback, StartGet, StartTurn, TypeOK
    <2>2. UNCHANGED <<row, cache>>
      BY <1>1 DEF Start, StartCreate, StartCallback, StartGet, StartTurn
    <2>3. QED
      BY <1>0, <2>1, <2>2 DEF Value, Committing, Exists
  <1>2. CASE GetCache(c) \/ GetRow(c) \/ GetFill(c) \/ CallLookup(c) \/ CallSelect(c) \/ CallBind(c)
    <2>1. ~Committing(c) /\ ~Committing(c)'
      BY <1>0, <1>2, GotoAt, DoneAt
      DEF Committing, GetCache, GetRow, GetFill, CallLookup, CallSelect, CallBind, Decide,
          DecideGet, DecideTurn, DecideEnd, DecideCallback
    <2>2. row' = row /\ (cache' = cache \/ (~Exists(cache) /\ cache' = row))
      BY <1>0, <1>2
      DEF GetCache, GetRow, GetFill, CallLookup, CallSelect, CallBind, CopyFresh
    <2>3. QED
      BY <1>0, <2>1, <2>2 DEF Value, Exists
  <1>3. CASE SaveCache(c)
    <2>1. /\ pc[c] = "s_cache" /\ pc'[c] = "p_load" /\ loc'[c] = loc[c]
          /\ row' = row /\ op'[c] = op[c]
      BY <1>0, <1>3, GotoAt DEF SaveCache
    <2>2. Newest' = loc[c] /\ Leads(Newest, loc[c])
      BY <1>0, <2>1 DEF Value, Committing, CopyLed
    <2>3. QED
      BY <2>1, <2>2 DEF Lifecycle!Advance, Leads
  <1>4. CASE PersistLoad(c)
    <2>1. /\ pc[c] = "p_load" /\ pc'[c] = "p_commit" /\ loc'[c] = loc[c]
          /\ UNCHANGED <<row, cache, op>>
      BY <1>0, <1>4, GotoAt DEF PersistLoad
    <2>2. QED
      BY <1>0, <2>1 DEF Value, Committing, Exists
  <1>5. ASSUME pc[c] = "p_commit", row' = loc[c], cache' = cache, ~Committing(c)'
        PROVE  [Lifecycle!Next]_(Lifecycle!vars)
    <2>1. CASE op[c] = "create"
      <3>1. row = Absent /\ ~Exists(cache) /\ loc[c] = Fresh
        BY <1>0, <1>5, <2>1 DEF CopyFresh, Committing
      <3>2. Newest = Absent /\ Newest' = Fresh
        BY <1>0, <1>5, <2>1, <3>1 DEF Value, Exists
      <3>3. QED
        BY <1>0, <1>5, <3>1, <3>2
        DEF Lifecycle!Create, Lifecycle!Exists, Lifecycle!Fresh, Fresh, Exists
    <2>2. CASE op[c] # "create"
      <3>1. Newest = loc[c] /\ Newest' = loc[c]
        BY <1>0, <1>5, <2>2 DEF Value, Committing, CopyLed, Exists
      <3>2. QED
        BY <1>5, <3>1 DEF Lifecycle!Persist
    <2>3. QED
      BY <2>1, <2>2
  <1>6. CASE PersistCommit(c)
    <2>1. pc[c] = "p_commit" /\ row' = loc[c] /\ cache' = cache
      BY <1>0, <1>6, CommitSolo DEF PersistCommit
    <2>2. ~Committing(c)'
      BY <1>0, <1>6, GotoAt, DoneAt DEF PersistCommit, Committing
    <2>3. QED
      BY <1>5, <2>1, <2>2
  <1>7. CASE EndDelete(c) \/ CreateCache(c) \/ CreateBind(c)
    <2>1. ~Committing(c) /\ ~Committing(c)'
      BY <1>0, <1>7, GotoAt, DoneAt DEF EndDelete, CreateCache, CreateBind, Committing
    <2>2. /\ row' = row
          /\ \/ cache' = cache
             \/ ~Exists(cache) /\ cache' = row
             \/ (Exists(cache) => cache = row) /\ cache' = Absent
      BY <1>0, <1>7 DEF EndDelete, CreateCache, CreateBind, CopyFresh
    <2>3. QED
      BY <1>0, <2>1, <2>2 DEF Value, Exists
  <1>8. CASE Fail(c)
    <2>1. pc'[c] = "idle" /\ cache' = cache /\ ~Committing(c)'
      BY <1>0, <1>8, DoneAt DEF Fail, Committing
    <2>2. CASE row' = row
      <3>1. Newest' = Newest \/ Newest' = row
        BY <1>0, <2>1, <2>2 DEF Value, CopyLed, Exists
      <3>2. QED
        BY <2>2, <3>1 DEF Lifecycle!Lose
    <2>3. CASE pc[c] = "p_commit" /\ row' = Merge(row, loaded[c], loc[c])
      BY <1>0, <1>5, <2>1, <2>3, CommitSolo
    <2>4. QED
      BY <1>8, <2>2, <2>3 DEF Fail
  <1>9. CASE ExpireSession
    <2>1. UNCHANGED <<row, pc, op, loc>> /\ cache' = Absent
      BY <1>9 DEF ExpireSession, local
    <2>2. Newest' = Newest \/ Newest' = row
      BY <1>0, <2>1 DEF Value, Committing, Exists
    <2>3. QED
      BY <2>1, <2>2 DEF Lifecycle!Lose
  <1>10. CASE ExpireBinding \/ UNCHANGED vars
    BY <1>0, <1>10 DEF ExpireBinding, local, vars, Value, Committing, Exists
  <1>11. QED
    BY <1>1, <1>2, <1>3, <1>4, <1>6, <1>7, <1>8, <1>9, <1>10 DEF Next, Step

\* A session that one client uses leads the life SessionLifecycle allows, its
\* durable value in the row, its newest value on its way or in Redis.
THEOREM StoreImplementsLifecycle ==
  ASSUME NEW c, Clients = {c}
  PROVE  Spec => Refines
  <1>1. Init => Lifecycle!Init
    <2> SUFFICES ASSUME Init
                 PROVE  Lifecycle!Init
      OBVIOUS
    <2>1. ~Committing(c) /\ row = Absent /\ cache = Absent
      BY DEF Init, Committing
    <2>2. Newest = Absent
      BY <2>1, NewestIsValue DEF Value
    <2>3. QED
      BY <2>1, <2>2 DEF Lifecycle!Init, Lifecycle!Absent, Absent
  <1>2. QED
    BY <1>1, StepRefines, SoloInvariant, PTL DEF Spec, Refines, Lifecycle!Spec
=============================================================================
