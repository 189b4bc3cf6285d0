---------------------------- MODULE WarmTransfer ----------------------------
(***************************************************************************)
(* A call that is handed over to a human (services/telephony/              *)
(* warm_transfer.py and the two transfer routes of api/routes/twilio.py):  *)
(* what Twilio and Redis know of it.  The coroutine that takes the steps   *)
(* of start is the caller's own receiver, in MediaBridge.                  *)
(*                                                                         *)
(* The transfer context has the TTL of a session (an hour) and the agent   *)
(* 30 s to answer, so it does not expire here.                             *)
(***************************************************************************)
EXTENDS Naturals

CONSTANT
    TwilioFails     \* may Twilio's API refuse a request, or its answer be lost?

ASSUME TransferAssumption == TwilioFails \in BOOLEAN

VARIABLES
    call,           \* where the caller is: on the media stream, parked in
                    \* the conference, or gone
    context,        \* is the transfer context in Redis?
    agent           \* the human's leg of the call

transfer == <<call, context, agent>>

Legs == {"none", "ringing", "briefed", "blind", "gone"}

TransferInit == call = "stream" /\ context = FALSE /\ agent = "none"

TransferTypeOK == /\ call \in {"stream", "parked", "over"}
                  /\ context \in BOOLEAN /\ agent \in Legs

\* store_transfer_context: what the agent will be told.
StoreContext == context' = TRUE /\ UNCHANGED <<call, agent>>

\* Twilio takes the caller off the media stream and, as the caller route
\* tells it to, into the conference.
Park == /\ call = "stream" /\ call' = "parked"
        /\ UNCHANGED <<context, agent>>

\* Twilio dials the agent.
Ring == agent' = "ringing" /\ UNCHANGED <<call, context>>

\* The agent picks up, is told the context or, without one, a default, and
\* joins the conference.
AgentAnswers ==
    /\ agent = "ringing"
    /\ agent' = IF context THEN "briefed" ELSE "blind"
    /\ UNCHANGED <<call, context>>

\* Nobody picks up in time, or the agent hangs up; the conference goes on.
AgentLeaves ==
    /\ agent \in {"ringing", "briefed", "blind"}
    /\ agent' = "gone"
    /\ UNCHANGED <<call, context>>

\* The caller hangs up, which ends the conference.
HangUpCall ==
    /\ call # "over" /\ call' = "over"
    /\ agent' = IF agent \in {"briefed", "blind"} THEN "gone" ELSE agent
    /\ UNCHANGED context
=============================================================================
