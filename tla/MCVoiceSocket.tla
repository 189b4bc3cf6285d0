--------------------------- MODULE MCVoiceSocket ---------------------------
(* Values of the constants of VoiceSocket for model checking. *)
EXTENDS VoiceSocket

CONSTANTS speaker, watcher

\* One connection talks; another one to the same session only interrupts.
TwoTabs == [k \in {speaker, watcher} |->
              IF k = speaker THEN {"text", "blank", "audio", "end", "disconnect"} ELSE {"barge_in"}]
============================================================================
