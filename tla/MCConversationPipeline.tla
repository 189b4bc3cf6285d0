------------------------ MODULE MCConversationPipeline ------------------------
(* ConversationPipeline with a bound on the calls made outside of turns.       *)
EXTENDS ConversationPipeline, TLC

CONSTANT MaxCalls       \* bound: turns, and calls made by clients without one, in all

VARIABLE visits         \* the latter

MCInit == PInit /\ visits = 0

Visit(r) == visits' = IF pc[r] = "idle" THEN visits + 1 ELSE visits

MCNext == /\ \/ Talk /\ UNCHANGED visits
             \/ \E r \in Clients : Outside(r) /\ Visit(r)
          /\ begun' + visits' <= MaxCalls

MCSpec == MCInit /\ [][MCNext]_<<allvars, visits>>

\* The clients are alike.
Alike == Permutations(Clients)
===============================================================================
