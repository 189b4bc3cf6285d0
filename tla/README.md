# VoiceForge backend: specifications, model checking and proofs

TLA+ modules of the VoiceForge backend (`src/app`, a FastAPI service that holds
voice conversations over browser WebSockets and Twilio phone calls), TLC
configurations that check them on small instances, and TLAPS proofs of the
properties that hold for every instance. Every definition is translated from
the code; `PROJECT.json` maps each one to its lines.

## The system

Everything runs in one asyncio event loop per process. A coroutine gives way only
at an `await`, so the models cut every operation at its awaits and nowhere else.

| part | state it keeps | operations | hard behaviour |
|---|---|---|---|
| `SessionManager` (`services/session_manager.py`) | a session as JSON under a Redis key with TTL, as a row of `sessions`, and a Redis key CallSid -> session id | `create`, `get` (cache, else row and fill), `save` (cache, then row), `add_turn`, `end`, `bind_call_sid`, `get_by_call_sid` | read-modify-write over awaits without a lock; two stores written one after the other; expiry; failing writes |
| `ConversationPipeline` (`services/conversation_pipeline.py`) and `HandoffPolicy` | barge-in flags per session | `handle_user_text`, `handle_audio_chunk`, `_do_handoff`, `request_barge_in` | a turn is a dozen awaits; others end the session or interrupt meanwhile; a hand-off is four steps that may each fail |
| voice WebSocket (`api/routes/voice_ws.py`) | a turn lock per connection | text, audio, `barge_in`, `ping`, `end`, disconnect | several tabs on one session; disconnect in mid-turn |
| Twilio media bridge (`services/telephony/media_bridge.py`) | `speaking`, `play_gen`, `closed`, `last_speech_at`, `recent_finals` | Twilio's `start`, `media`, `stop`; Deepgram's results; the silence watchdog; cleanup | three coroutines on shared locals; overlap of reply, nudge and interruption; cancellation anywhere |
| Deepgram session (`services/stt/deepgram_live.py`) | socket, receiver task, utterance buffer, reconnect attempts | `start`, `send_audio`, `finalize`, `close`, reconnect | the main loop and the receiver both reconnect |
| warm transfer (`services/telephony/warm_transfer.py`, two routes of `api/routes/twilio.py`) | transfer context in Redis; two legs of a call at Twilio | store the context, redirect the caller, dial the agent, brief him | the redirect closes the stream the coroutine lives on |
| stream tokens (`services/telephony/twilio_security.py`, voice webhook) | a nonce and a binding in Redis | sign, first use, reconnection after a blip, expiry | two keys, a truncated clock; the old connection's cleanup after a reconnect |
| Redis client (`infrastructure/redis_client.py`) | connection, `using_memory`, the store in memory | `incr_with_ttl`, `getdel`, health check, reconnect | overlapping checks replace a client in use; increment and expiry are two steps |
| agent (`services/agent/runtime.py`), tool authorization (`services/tools/authz.py`) | a rate counter per tool and session | pick a tool, count, authorize, run, fall back from Gemini to the mock agent | a limit at its boundary; a failure noticed two layers further up |

They interact by direct calls: sockets, bridge and HTTP routes await the
pipeline, the pipeline awaits the session manager, the agent, speech providers and
warm transfer. What they share is the session (through `SessionManager`), the
barge-in flags (one dictionary, keyed by session), the Redis client, and inside one call the
locals of `handle`.

What makes each part correct: an acknowledged turn is never lost and a finished session
never revived (`SessionManager`); nothing is spoken that was not put on record,
and no reply is silenced by an interruption that was not meant for it (pipeline);
a client that leaves settles its session (socket);
the caller hears the latest
reply only, silence is noticed, and a hang-up leaves nothing running (bridge); who is transferred is
on record as waiting for a human (transfer); a token lasts as long as it says (tokens); no counter
refuses a tool for good, and a failed tool call is not answered as if it had been served (client, agent).
Where the code keeps less than that, the property names the exception, and the sections on violations and
exceptions below say why.

## Modules

- **SessionData** - one session as a value, and the decisions taken on a copy:
  `AddAllowed`, `EndKept`, `Ended`, and `Merge`, which is SQLAlchemy's unit of work: `UPDATE`
  sets only the columns whose value differs from the one loaded.
- **SessionStore** - the manager on one session: `row`, `cache`, `bound`,
  and per client a program counter naming the call it is about to make.
  `Fail` raises at any await (a commit may have taken effect all the same), `ExpireSession`
  and `ExpireBinding` are Redis losing a key.
- **SessionLifecycle** - the abstract session: a newest value that runs ahead of the durable one, may
  fall back to it, and moves only as `Leads` allows. `Leads` is stated
  independently of the operators that translate the code.
- **ConversationPipeline** (extends SessionStore), **MCConversationPipeline** - a turn from words to reply or hand-off, by any number of
  clients on one session. A turn is at a stage, the call it is about to make or awaits; each call to the session manager
  is the operation of SessionStore, step by step (`Call`, `Await`, and the stage's own action when it `Returns`), so turns read
  copies, overwrite and undo what others wrote and leave half a save behind exactly as SessionStore lets them. `Outside` is a client without a turn: the
  HTTP routes, the status callback, a closing connection that clears the flag. Ghosts `asked`, `spoken`, `dropped`,
  `handed` note what each turn went through. The MC module bounds the calls made outside of turns.
- **VoiceSocket** (extends the pipeline), **MCVoiceSocket** - connections are the clients; an inbox
  per connection, the loop, its own call of `end`, which may raise half-way, and the finally block with its two
  calls. Every step of it is a step of the pipeline or none (proved).
- **MediaBridge** (extends WarmTransfer) - one call: `main`, `rx` (the Deepgram receiver, which awaits the whole turn,
  its playback or the transfer) and `wd` (the watchdog). `gen` is `play_gen`. Of Deepgram it has only whether
  the socket is up. Of the session it has the status in Redis (`cache`) and in the database (`row`), and each coroutine's reads and writes of
  them as steps of their own: the words, the reply and the hand-off message are each read (`RxAdd`), kept in Redis (`RxKeep`) and in the row
  (`RxKept`), and an `end` of `rx` or `wd` reads, saves, commits and deletes (`End`, `Save`, `Commit`, `Delete`), without anybody asking
  what it did. `snap` is the copy of the session read when the call connected, which `start` saves.
- **WarmTransfer** - what Twilio and Redis know of a transferred call: the caller's leg, the context, the
  agent's leg. The two phones are Twilio's and marked external.
- **DeepgramLive** - the transcription session by itself: the owner (process 0: the bridge's main loop) and
  one receiver per connection, each with a program counter, on the shared `_ws`, `_receiver_task`,
  `_reconnect_attempts` and utterance buffer. A receiver that reconnects cancels itself and survives it.
- **LiveLink** - what its owner sees of that: a link that falls and is restored, a listener who reads or has a
  turn running, and the segments it told, with no tasks, attempts or second reconnection. A new link never cuts into a turn
  (the listener is silenced first), a turn is everything heard and not told yet, and after close nothing is told.
- **KeyValue** - an entry with a TTL, the commands on it, and how `InMemoryKV` does them. A clock of `Second`
  ticks makes truncation to whole seconds visible.
- **StreamToken** (extends KeyValue), **MCStreamToken** - the voice webhook, the two keys, and connections from the
  first look at the token to the end of their cleanup, cut at every await on Redis, any of which may raise, those of
  the cleanup included (`CleanupRaises`, which the code logs and forgets).
- **RedisClient** (extends KeyValue) - the shared client, health checks, the counters in Redis and in memory.
- **AgentTools** (extends RedisClient) - which tool a turn runs, its count, its outcome, the fall-back and the
  policy's verdict: what `TurnAgent` of the pipeline leaves open. `failed` also remembers a failed call whose result the
  fall-back has lost.
- **SessionStoreProofs**, **SessionSoloProofs**, **PipelineProofs**, **SocketProofs**, **BridgeProofs**,
  **DeepgramProofs**, **StreamTokenProofs**, **ToolsProofs** - proofs (below).

Abstractions common to all: texts, audio, confidence and identifiers are only
what a decision makes of them; metadata, locale and
timestamps are read by no modelled decision; time is the free firing of what it enables, except in
KeyValue and above it, where it ticks.

## Runs

| run | instance | checks | result |
|---|---|---|---|
| `store_one` | 1 client, 3 turns (one a hand-off message), every operation, failures and expiry | `RedisNeedsRow`, `AckedIsDurable`, `CacheNeverBehind`, `FinishedForever`, `Refines` | hold |
| `store_end` | 3 clients, no turns, no failures, expiry; fair | `EndSettles` | hold |
| `store_race` | 2 clients: turn, hand-off and callback | `FinishedForever` | violated |
| `pipeline` | 2 clients, 2 turns or outside calls in all, each cut at every await, expiry | `DroppedWasInterrupted`, `HeardIsAcknowledged` | hold |
| `socket` | a talking and an interrupting connection, 4 messages, 3 turns, transcript limit 3, failures, expiry; fair | `HandedOnce`, `InterruptedIsSilent`, `SpokenIsRecorded`, `AnswersBounded`, `RepliesFollow`, `DisconnectSettles` | hold |
| `bridge` | 1 result, 1 frame, 1 nudge, 2 starts, 1 drop, failing transfers; fair | `SpeakingIsPlaying`, `NoStaleFrame`, `NothingLeft`, `TransferredIsWaiting`, `HangUpSettles`, `SilenceIsNoticed` | hold |
| `bridge_barge_in` | 2 results, 2 frames, 1 nudge, 1 start, no drop; fair | `BargeInCuts` | violated |
| `transfer` | 1 result, 1 nudge, Twilio answers; fair | `ParkedGetsAgent` | violated |
| `silence` | nobody speaks, 1 nudge, everything works; fair | `SilenceEnds` | violated |
| `deepgram` | 3 attempts, 5 connections, 3 segments; fair | `OneReceiver`, `NoOrphan`, `SegmentsOnce`, `ImplementsLink`, `CloseSettles`, `Recovers` | hold |
| `stream` | 3 connections, TTL of 2 s, 2 ticks a second, failures | `TokenUsable`, `SettledWhenGone` | hold |
| `tools` | 2 turns, 2 health checks with 2 attempts, 1 outage, window of 2 s, limit 1; fair | `WindowKept`, `EndlessOnlyIfCut`, `OnlyFallBackForgives`, `FlagIsTrue`, `ClientComesBack` | hold |

One passing run of each module also checks its type invariant.

**Bounds.** Three clients are one more than any race of the store needs (a
reader, a writer and one that comes in between); two turns and a
hand-off message cover every decision of `add_turn`. In `pipeline` two turns, or a turn and a call from outside, meet at every pair of awaits; awaits that raise
are `socket`'s subject, and the proof covers both together, for any number of turns. The length that forces a
hand-off is 20 in the code and 3 here, so that it is reached by the second turn; `MaxBegun` and
`MaxSent` leave room for a forced hand-off that fails and is tried again. In the bridge one text is
enough because it may be forgotten at any time; one result gives a reply or a hand-off to be hung up on, nudged into or cancelled at every point, and `bridge_barge_in` has two; one
frame is enough to be superseded, and the nudge is both the first and the last one (3 in the code); two starts are a re-sent one. The proofs of
the bridge's safety properties hold for every value of these bounds. In `deepgram` the attempts are the code's; five connections let both sides
reconnect twice over each other, and three segments are an utterance that spans two of them and a second one.
In `stream` two connections can race for the nonce and a third come after the binding; the webhook may sign at either
tick of a second, and two seconds leave one that is not the last. The connections are interchangeable (symmetry; no liveness is checked there), as are the clients of `pipeline`.
In `tools` two turns meet at a counter whose limit is one, and the outage lets both checks drop and rebuild the client over each other; one
tool's counter is followed and the others' outcome is free. `MaxOutages` bounds how often Redis goes away, not for how long.

**An assumption of `deepgram`.** No two reconnection sleeps end in the same turn of the event
loop (the guard of `Wake`). They last 2, 4 and 8 s and begin at different moments, so a
tie needs a reset of the counter and a coincidence to the clock's resolution; with one, the
cancellation of the second would be absorbed by the receiver that has just cancelled itself, and
`OneReceiver` and `NoOrphan` would fail. `close` has no such excuse, since it comes when a message does, and is
allowed at that moment too.

**What the violations show.** `store_race`:
`add_turn` writes back the status it read, and so does an end that decided on a copy from before a hand-off. `bridge_barge_in`: the
receiver awaits the playback; only nudges, and replies under a result already in flight, can be interrupted. (The voice
socket has the same order: its loop awaits the turn, so a `barge_in` of the same connection waits, lock or no lock. A *second*
connection does interrupt, which `socket` checks.) `transfer`: redirecting the caller makes Twilio close the
media stream; the cleanup of that stream cancels the coroutine that was to dial the agent next, and the caller is
parked alone. `silence`: after the last nudge the watchdog completes the session and leaves its loop; the stream
stays open, although README.md:79 and the nudge's own words say that the call is ended. What does hold, `SilenceIsNoticed`, is that the session
does not stay active. Each is quoted in `PROJECT.json`.

One more disagreement is named by a passing property instead of a run of its own: README.md:86 says that a failed tool call goes to a human, but when
Gemini fails after its tool call has failed, the mock agent starts anew (runtime.py:186) and the failure is forgotten.
`OnlyFallBackForgives` says that this is the only case; without the `"lost"` in it TLC finds the fall-back.

**Deadlock** is checked in `store_one` and `store_end`, where every client may always start
again. The other systems really stop: turns, messages, calls and outages are bounded, and a
closed connection stays closed.

**Fairness.** Weak fairness of a coroutine's own steps: the event loop resumes
every coroutine whose await has completed, and each modelled await either
completes or raises (HTTP clients and Redis have timeouts). No fairness is assumed of clients,
callers, failures or expiries. `DisconnectSettles` excuses a session whose cleanup raised,
which the code logs (`ws_session_end_skipped`). In the bridge fairness also says
that the silence timeout passes, in `deepgram` that audio frames keep coming (every 20 ms while the call
lasts) and that `on_transcript` comes back; in `tools` that somebody asks for the health of the service, which the
container does every 30 s (`HEALTHCHECK` in `Dockerfile`). `EndSettles`, `SilenceIsNoticed` and `HangUpSettles` assume the session manager
answers; what happens when it does not is `store_one`'s subject.

**Exceptions that properties name.** Sessions are read, changed and written back over several awaits, in Redis first and then in
the database, without a lock, so much that one would like to say holds only with an exception:

- `HeardIsAcknowledged` says of what the caller hears that the session manager has acknowledged it. That it *stays* on record (`SpokenIsRecorded`) holds
  for one talker; two turns at once overwrite each other's lines (hazards at session_manager.py:147, 148).
- `AnswersBounded` says that nobody is answered in a transcript past the limit. The transcript itself has no bound: words whose save
  fails between Redis and the database stay in Redis and are not evaluated.
- `DisconnectSettles` accepts a session that is over in Redis only: an `end` that fails between its two writes leaves `COMPLETED` in the
  cache and `ACTIVE` in the row, and the cleanup, which reads the cache, has nothing left to do. It also accepts a cleanup that raised, which the
  code logs.
- `NothingLeft` says that the session does not *read* as active; its row may still be active if the cleanup cancelled an `end` after its first write
  (ghost `torn`) or `start` was re-sent.
- `TransferredIsWaiting` names two writers that undo the wait of a parked caller: the watchdog, which completes the session between the hand-off's
  message and its `end`, or over it (`WatchdogEnds`), and a re-sent `start`, which saves the session as it was when the call connected.
- `TokenUsable` excepts a first use that Redis broke off between the
  two keys (ghost `cut`), which uses the token up. `SettledWhenGone` excepts a cleanup that raised, which the code logs (ghost `skipped`); it
  says the session ends with the last connection, and it may well be ended by the cleanup of an
  earlier one, after which the caller, who has reconnected, is talking to a session that takes no turns.
- `EndlessOnlyIfCut` names the only ways to a counter that never ends: an exchange that
  broke off between `INCR` and `EXPIRE` or was repeated, and an expiry in memory between two looks at the clock.

## Proofs

TLAPS checks, for every value of the constants (any clients, turns, connections, limits and failures):

- **SessionStore.** `TypeCorrect`, `RedisIsRecoverable` and `RowIsKept` with any number of concurrent clients. The
  inductive invariant adds what each client knows at each call: a client past `g_row`, in a save or past create's
  commit only got there because the row exists, and rows are never deleted.
- **SessionStore, without turns** (`EndsOnly`: no client adds a turn or hands over; the status callback, the HTTP routes and the webhook):
  `EndsStayFinal` is `FinishedForever` for any number of concurrent clients and any failures, and `EndsLeadTheLife` says that the row
  then leads SessionLifecycle. Together with `store_race`, which violates `FinishedForever`, this says where that race comes from: not from
  late creators, stale fills or two ends, only from a turn or a hand-off. `EndInv` holds a session to two values, fresh and
  completed, and says that only its one creator saves the fresh one, over no row, and everybody else a completed copy over a row that exists;
  stale active copies still get into Redis, but never into the row.
- **SessionStore, one client at a time** (`Clients = {c}`, the discipline of a connection that
  awaits each operation): `AckedTurnsSurvive`, `CacheIsNeverBehind`,
  `FinishedStaysFinished` and `StoreImplementsLifecycle` (refinement of SessionLifecycle). The inductive invariant
  `Solo` says at each call how the client's copy, the loaded row, the row and the cache relate: the copy a
  save carries is led to from the row by `Leads`, and the cache is either that copy or a
  legal successor of the row. With two clients the copies go stale, which is what `store_race` shows, so the
  assumption is necessary.
- **ConversationPipeline**, any clients. `PipelineTypeCorrect`, `DroppedOnlyIfAsked`,
  `HeardOnlyIfAcknowledged`, `PipelineIsRecoverable`. The invariant ties the stage of each turn to the operation of SessionStore it awaits and
  to the line that operation carries, and says what a turn at each stage has had acknowledged; `DroppedOnlyIfAsked` needs that the
  flag is only ever up for turns already noted in `asked`, and the next one that turn numbers are
  not shared, so that what a turn recorded stays its own. Nothing in them depends on what the other clients do to the session, which is why they hold of any number
  of turns that overwrite each other. `PipelineIsRecoverable` takes over SessionStore's `RedisNeedsRow`, whose steps these are.
- **VoiceSocket, any connections.** `SocketsArePipeline` (`SSpec => PSpec`) is the refinement: every step of the message loops, of the `end` and of the
  cleanup is a step of the pipeline, of its surroundings, or none. With it
  `SocketTypeCorrect` and the pipeline's theorems hold for any number of connections that all talk.
- **VoiceSocket, one talker** (`Talks(t)`: the other connections only interrupt): `OneHandoff`, `Interrupted`, `Answered`, `SpokenStaysRecorded` and
  `AnswersStayBounded`. Only the talker uses the session manager, so its steps there are those of one caller at a time, and `Solo` of
  SessionSoloProofs is part of the invariant: the copies it reads are never behind the row. `OneHandoff` follows the status through row, cache and the
  talker's copy from the stage that ends the session on; `Interrupted` says that the flag stays up for
  an interrupted turn until that turn has looked at it, which needs that nobody else begins a turn; `Answered` that every copy, wherever it is, holds a reply only with its words;
  `AnswersStayBounded` that once the policy has let the agent answer, the row is shorter than the limit and Redis has nothing more, and that a turn not yet answered has lines after every answer. All of them allow every
  await to fail, and every save to get only as far as Redis.
- **MediaBridge.** `TypeCorrect`, `SpeakingTrue`, `FramesInOrder`, `NothingIsLeft`, `TransferWaits`, `AgentsAreBriefed`, `OneVoice`, `ReturnedIsFinal`. Each player has a
  generation of its own, none beyond `gen`, and the flag is up exactly for the one that has `gen`; the cleanup is followed from one coroutine to the next; what
  each coroutine is about to write, and over what, decides what the session can read as at each step, and so what a hand-off whose `end` found the session
  active, waiting or completed goes on with. `NothingIsLeft` and `TransferWaits` have the exceptions named above.
  `AgentsAreBriefed` holds, unlike `TransferredIsWaiting`, of a call whose `start` is re-sent, too.
- **DeepgramLive**, under the timer assumption above:
  `NeverTwoReceivers`, `NeverAnOrphan`, `ToldOnce`, `LiveTypeCorrect`, `ClosedIsQuiet`, `CloseLeavesNothing`,
  `LiveImplementsLink`. That nobody else is alive
  while the owner drops and connects (`Owned`), and that whoever connects has seen the old connection
  closed (`Dark`), is what makes `OneReceiver` and `NoOrphan` inductive; `Ending` is what keeps a receiver that
  survives `close` from reconnecting once it is over. `SegmentsOnce` is carried as a numbering of both sequences.
  `CloseLeavesNothing` is the safety half of `CloseSettles`. The refinement of LiveLink goes action by action: with `OneReceiver` the
  abstract listener is wherever the one receiver alive is (`ReceiverMoves`), with `Dark` a connection is a restored link, with
  `NoOrphan` closing `_ws` closes the link, and with the numbering a told turn is everything heard.
- **StreamToken.** `TypeCorrect`, `Usable`, `Settled`, `AdmittedUsesUp`, `NonceStaysGone`, `OnlyOneBinds`. `Timely` says that every live key, and every TTL that a connection has computed
  and not yet used, reaches the token's last second: that the clock was truncated before the awaits costs nothing. A nonce is used once: whoever
  was let in has used it up, and once the webhook has answered nothing brings it back. That only one connection gets it assumes that no exchange
  with Redis breaks off (`~CanFail`): when one does, `getdel` falls back on `GET` and `DELETE`, between which a second connection may read it too; TLC
  finds `OneBinds` violated without the assumption, and no document promises it for an outage.
- **AgentTools and RedisClient.** `TypeCorrect`, `FlagTrue`, `OnlyLostFailuresForgiven`, `WindowsKept`, `CountersEnd`. The invariant has one part
  for each store; `WindowsKept` rests on what rounding the remaining TTL down to seconds, and up to one, can cost (lemmas on `KeyValue`).

They rest on the named assumptions of the constants alone, and on those said above.

Only model-checked: liveness under fairness (`EndSettles`, `DisconnectSettles`, `HangUpSettles`, `SilenceIsNoticed`,
`CloseSettles`, `Recovers`, `ClientComesBack`) and
everything that needs ENABLED, which the prover does not handle. Every invariant and every action property of a passing run is
proved, most for all constants, those of `store_one` and the talker's under the assumptions named above. Also out of the prover's reach,
so avoided in modules with proofs: RECURSIVE operators and induction over data.

## Not modelled

- PII redaction and the keywords of the hand-off policy: regular expressions and words, without state. The models take the decisions they lead to freely.
- Sample conversion (`telephony/audio.py`), provider HTTP bodies, the synthesizers: no state; they return or raise.
- The chunked recognizers (`stt/deepgram.py`, `stt/google_stt.py`): a buffer per session, which they fill, copy and clear
  between two awaits, so that overlapping requests never share audio. What a failed request held is lost.
- Comparison of Twilio's signatures and of identifiers in the tool authorization: a free choice, or one outcome.
- `record_event`, `audit`, call metadata and metrics: appended and read by no decision; their failures are swallowed. `list_sessions`, stats and
  probes only read.
- The demonstration data of the tools, configuration, application wiring, migrations and scripts: nothing, or nothing but start-up. A rate
  limit of zero or less means no counter and is left out.
- Several processes: barge-in flags and the bridge's locals are per process, and the repository runs one.
