---------------------------- MODULE SessionData ----------------------------
(***************************************************************************)
(* The value of one voice session (domain/models.py, VoiceSession) and the *)
(* decisions SessionManager takes on a copy of it (services/               *)
(* session_manager.py).  Nothing here has state: SessionStore says where   *)
(* copies live and how they travel between Redis and the database.         *)
(*                                                                         *)
(* Abstracted: caller, locale, channel, timestamps and metadata are never  *)
(* read by a decision; the transcript is the set of the turns appended to  *)
(* it (a turn is appended once and never removed).                         *)
(***************************************************************************)
EXTENDS FiniteSets

CONSTANTS
    Turns,          \* every transcript turn a client may append
    HandoffTurns    \* those whose metadata carries "handoff"

ASSUME TurnsAssumption == HandoffTurns \subseteq Turns

Statuses == {"created", "active", "waiting_human",
             "completed", "failed", "cancelled"}

\* _TERMINAL: no further conversation turn belongs to the session.
Terminal == {"completed", "failed", "cancelled", "waiting_human"}

Reasons == {"none", "given"}

Session == [status : Statuses \cup {"absent"}, turns : SUBSET Turns, reason : Reasons]

\* No record under this key.
Absent == [status |-> "absent", turns |-> {}, reason |-> "none"]
Exists(s) == s.status # "absent"

\* What create() writes.
Fresh == [status |-> "active", turns |-> {}, reason |-> "none"]

\* Mutants: any turn is accepted while a human is awaited; a turn replaces the
\* transcript; a finished session may still be handed over, or one that waits
\* for a human completed; a transcript changed in place is not seen to differ.
AddAllowedWaiting(s, t) == s.status \in {"active", "waiting_human"}
OnlyTurn(s, t) == [s EXCEPT !.turns = {t}]
EndKeptWaiting(s, status) == s.status \in Terminal /\ s.status \in {"waiting_human", status}
EndKeptDone(s, status) == s.status \in Terminal /\ s.status # "waiting_human"
MergeInPlace(current, loaded, copy) ==
    IF ~Exists(loaded) THEN copy ELSE [copy EXCEPT !.turns = current.turns]

\* add_turn: may turn t be appended to the copy s, or is SessionError raised?
AddAllowed(s, t) ==
    \/ s.status = "waiting_human" /\ t \in HandoffTurns
    \/ s.status = "active"

WithTurn(s, t) == [s EXCEPT !.turns = @ \cup {t}]

\* end: the requests a copy s answers by returning it unchanged.
EndKept(s, status) ==
    /\ s.status \in Terminal
    /\ \/ s.status = "waiting_human" /\ status = "completed"
       \/ s.status = status
       \/ s.status \in {"completed", "failed", "cancelled"}

\* end: the copy it saves otherwise.  Only _do_handoff passes a reason.
Ended(s, status) ==
    [s EXCEPT !.status = status,
              !.reason = IF status = "waiting_human" THEN "given" ELSE @]

\* _persist: SQLAlchemy's UPDATE sets the columns whose value differs from
\* the one loaded, and leaves the others as the row holds them at commit.
Merge(current, loaded, copy) ==
    IF ~Exists(loaded) THEN copy
    ELSE [status |-> IF copy.status = loaded.status THEN current.status ELSE copy.status,
          turns  |-> IF copy.turns = loaded.turns THEN current.turns ELSE copy.turns,
          reason |-> IF copy.reason = loaded.reason THEN current.reason ELSE copy.reason]
============================================================================
