------------------------------ MODULE LiveLink ------------------------------
(***************************************************************************)
(* What a live transcription session promises whoever started it, with no  *)
(* attempts, no tasks and no second reconnection: a link that falls and is *)
(* restored, at most one listener, who reads, or has a turn running, and   *)
(* the segments of speech, told in the order they were heard.              *)
(***************************************************************************)
EXTENDS Naturals

VARIABLES
    up,         \* is there a connection to Deepgram?
    listener,   \* "none", or one that "reads", or "tells" somebody
    phase,      \* "open", "closing", or "over", once close has returned
    heard,      \* how many segments were finalized
    told        \* the segments handed over as a turn

vars == <<up, listener, phase, heard, told>>

Init == up = FALSE /\ listener = "none" /\ phase = "open" /\ heard = 0 /\ told = <<>>

Fall == /\ up /\ up' = FALSE
        /\ UNCHANGED <<listener, phase, heard, told>>

\* A new connection replaces one that is gone, never one that is up, and not
\* in the middle of a turn; also while the session is being closed.
Restore == /\ ~up /\ listener # "tells" /\ phase # "over"
           /\ up' = TRUE /\ listener' = "reads"
           /\ UNCHANGED <<phase, heard, told>>

\* The listener hears a segment, or nothing new, and tells of it, or waits for
\* more; a turn is everything that was not told yet.
Listen == /\ listener = "reads" /\ phase = "open"
          /\ heard' \in {heard, heard + 1}
          /\ told' \in {told, [i \in 1..heard' |-> i]}
          /\ listener' \in {"reads", "tells"}
          /\ told' # told => listener' = "tells"
          /\ UNCHANGED <<up, phase>>

Return == /\ listener = "tells" /\ listener' = "reads"
          /\ UNCHANGED <<up, phase, heard, told>>

\* The listener is cancelled, fails or gives up.
Leave == /\ listener # "none" /\ listener' = "none"
         /\ UNCHANGED <<up, phase, heard, told>>

\* Closing ends a turn; a listener may outlive it, and tells nothing.
Close == /\ phase = "open" /\ phase' = "closing"
         /\ listener' \in {listener, "none"} \ {"tells"}
         /\ UNCHANGED <<up, heard, told>>

Finish == /\ phase = "closing" /\ phase' = "over" /\ up' = FALSE
          /\ UNCHANGED <<listener, heard, told>>

Next == Fall \/ Restore \/ Listen \/ Return \/ Leave \/ Close \/ Finish

Spec == Init /\ [][Next]_vars
=============================================================================
