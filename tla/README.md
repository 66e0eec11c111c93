# Vayumi in TLA+

Vayumi is a personal voice agent: `Server2` (Python, asyncio) holds the live
conversation and runs background sub-agents on one local `llama-server`;
`Server1` (TypeScript, Express, Postgres) is the user-data API with reminders
and accounts. This directory models the parts of it in which order, failure and
sharing decide whether it is right, checks them with TLC on small instances and
proves what matters most with TLAPS. Paths below are relative to the repository.

## 1. Inventory

| part | state | operations | interacts with |
|---|---|---|---|
| Engine pool `Server2/server/engine/pool.py` | priority queue, busy slots, slots reserved for tasks, dispatcher, job tasks, handles | submit, submit_assigned, complete_chat, cancel, assign_slot, free_slot, close | Supervisor (P0), workers (P1), summarizers (P2), llama-server |
| Sub-agents `orchestrator/supervisor.py`, `task_board.py`, `signal_bus.py`, `subagents/worker.py` | board of task rows, workers, worker tasks, stored answers, pending signals | spawn, run, report, pause, answer, stop | engine pool, Postgres, notifier, Main's directives |
| Supervisor turns `orchestrator/supervisor.py` (run_turn), `directives.py`, `tool_dispatch.py`, `prose.py` | the first answer, the parts spoken so far, rows of turns | ask, obey directives, spawn, search, recall, speak, store | engine pool, tools, memory, sub-agents, transport |
| Notifier `orchestrator/notifier.py` | surfaced keys, in-flight flag, time of the last proactive turn | tick, gate, synthetic turn | signal bus, transport |
| Transport `transport/ws.py`, `turn_coordinator.py`, `chat_queue.py`, `voice/interrupt.py` | current turn, queued chat, pending voice, partial text | voice and chat turns, interrupt, queue, drain | Supervisor, speech, client |
| Session registry `transport/session_registry.py` | one session per user | attach, supersede, detach | transport |
| Speech `voice/streaming_tts.py`, `delivery.py`, `respond_via.py` | sentence queue, playback flags | feed, speak, cancel, choose the channel | transport, client |
| Meeting mode `orchestrator/meeting.py` | mode, current meeting, its buffer of utterances | enter, append, flush, exit, finalize, summarize | transport, memory, engine pool |
| Memory `memory/*.py` | turns, compressed summary, versioned facts, cached warm profile | append, summarize, prune, set fact, build profile | Postgres, Redis, engine pool |
| Server1 reminders, auth, limits, life | rows in Postgres | fire, snooze, cancel; rotate, revoke, verify; count; push, pull | cron, Server2, clients |
| Tools, speech engines, llama-server process, prompts, web client | no shared state of their own | I/O | left aside |

Hard here: several asyncio tasks over the same dictionaries with awaits between
reading and writing; cancellation that arrives at any await (barge-in,
`[STOP_TASK]`, shutdown); a fixed number of slots shared by clients with
different release rules; writes that fail half-way; two devices of one user at once; a
process that dies between two writes. `PROJECT.json` lists each such place under
"hazards", with the properties that cover it or the reason why none does.

What makes each part correct:

* engine pool: a slot belongs to one stream or task and always comes back, the
  queue serves Main before sub-agents, every request ends if the server answers,
  nothing starts after `close()`;
* sub-agents: one run per goal, a task that counts as running is worked on, a run
  that works can be stopped and is gone when its stop is through, no slot is lost;
* turns: one user turn at a time, an interrupted one is silent, what was told is
  stored, no typed message is lost, turns that cancel and await each other end;
* supervisor turns: every delegate has its task, what is spoken comes in order
  and is what the history holds;
* memory: compression forgets nothing and keeps what the next prompt shows, a
  new value of a fact becomes active, a stale profile is marked as such;
* sessions and meetings: meeting mode goes with a meeting, no meeting replaces
  another, what was said is stored before the summary is scheduled.

## 2. Modules

| module | what | extends, composes |
|---|---|---|
| `EnginePool` | the engine pool with its clients | |
| `SubAgents` | tasks, workers and the board | the pool is reduced to its number of free slots |
| `TaskLifecycle` | abstract: what a task may become | implemented by `SubAgents` |
| `Turns` | turns, interrupts, queued chats and speech of one session | Main is reduced to tokens, an answer and a row |
| `MainTurn` | one turn of Main | the board is reduced to a status for each goal, which may move at any time |
| `Memory` | turns and summary, facts, warm profile | its callers may call at any time |
| `Live` | sockets and meetings of one session | turns are reduced to what they transcribe |
| `EnginePool_proofs`, `Memory_proofs`, `Live_proofs`, `Turns_proofs`, `MainTurn_proofs` | theorems | extend their module |
| `SubAgents_proofs` | types, slots, and what each step does | extends `SubAgents` |
| `SubAgentsStops_proofs`, `SubAgentsGoals_proofs` | theorems about stops, about goals and the refinement | extend `SubAgents_proofs` |
| `MC...` | small instances for TLC | extend their module |

Each module leaves its neighbours the freedom to act in any order, so that what
it shows does not rest on how they behave: `MainTurn` lets tasks end while
it delegates, `Memory` lets passes and calls start whenever a caller exists,
`Live` lets a turn fail or end at each of its awaits.

What would come next, in this order: the signal queue and the bookkeeping of the
notifier, composed with the proactive turns of `Turns`; the reminders of Server1
against concurrent updates, and its refresh tokens; a slot allocator and a
versioned register as abstract specifications of the pool and of the facts, with
the refinements proved.

Bounds are two or three of everything that competes: two clients are
needed for a race, a third to overtake or to see a leak.

## 3. EnginePool

One action per stretch of code between two awaits that really suspend. A job is
identified by its sequence number.

| code | model |
|---|---|
| `_queue` of `_QueueItem` | the jobs with `st = "queued"`, ordered by `Before` |
| `_busy_slots`, `_task_slots`, `_closed` | `busy`, `taskSlot`, `phase` |
| `submit`, `submit_assigned` | `Submit`, `SubmitAssigned` |
| `_dispatcher`, `_claim_slot` | `Dispatch` (pop, and claim or start waiting), `DispatchWakes` |
| `_run_job` | `JobStarts`, `Token`, `StreamEnds`, `StreamFails`, `AbortJob` |
| `cancel` | `CancelHandle` |
| `complete_chat` | `ChatCalls`, `ChatWakes`, `ChatEnds`, `ChatLeaves` |
| `assign_slot`, `free_slot` by a worker | `WorkerStarts`, `WorkerWakes`, `WorkerEnds`, `StopTask` |
| `close` | `Close` (dispatcher), `CancelJobs`, then `AbortJob` of each stream |

`Disturbances` says which failures a run admits, so that a property can be shown
under exactly those it survives. Abstracted: prompts and token text (tokens are
counted), HTTP, logging. `reserve_slot` has no caller. `JobStarts` and `Dispatch` leave a job that is
popped or created when `close()` cancels it in state `lost`, which is what a
cancelled coroutine that never started amounts to.

The summarizers call `complete_chat` with the number of the last slot as hint
(`_background.py:16`, `summarizer.py:65`). That is a slot sub-agents reserve, and
`_claim_slot` gives it out whether or not it is busy (`pool.py:547`), so that two
completions share it and the one that ends first makes it free under the other.
All runs have this hint (`SummarizerHints`). `HintedSlots` are the slots that are
asked for in this way; OneStreamPerSlot, ReservationsExclusive and ReservedUntilFreed
exempt them, and so say that the damage does not spread: what is lost on the
last slot never costs a stream or a task another slot. NoSlotLeak,
MainSlotComesBack and the rest make no exemption.

Runs (three slots, one chat that may be a summarizer or the first pass of Main, two sub-agents):

* `pool_calm`: three requests, handles are cancelled at any moment. No slot leaks,
  none but the hinted one is decoded on twice, requests of one priority are served in
  order, queued requests of Main before those of sub-agents; every request ends
  if the server answers. 409,389 states.
* `pool_faults`: two requests, workers that start twice, and everything that can go
  wrong: workers are stopped, chats leave, streams fail, handles are cancelled, the pool is
  closed. Reservations but the hinted one are exclusive; slot 0 comes back; after `close()` no stream
  comes into being. 1.06 million states.
* `pool_leak` finds what the documents say violated; see section 10.

Two sub-agents compete for the two slots they may have with each other, with the
summarizer and with queued requests; a third request is needed for one to be
overtaken by two. Deadlock is not checked: the clients make a bounded number of
calls and then stop, which is not an error.

QueuedMainGoesFirst is about the queue. The first pass of a turn of Main is a
`complete_chat` (`supervisor.py:268`), which is not queued and has no priority: it claims
a slot beside the dispatcher, and a sub-agent's stream may start while it waits.
That is part of the model (`ChatCalls`, `ChatWakes`), and no property denies it.

Fairness: the event loop eventually runs a task that is ready (asyncio's ready
queue is first in, first out), and a worker has a step limit. Weak fairness is
enough: a slot that is free stays claimable until somebody takes it, and each
client makes a bounded number of calls. No request, cancellation or shutdown is
assumed to happen. That llama-server ends what it has begun is not fairness of this
program: its client waits without a timeout (`pool.py:136`, `pool.py:233`), so
that a server that hangs keeps a request, and its slot, for ever. RequestsEnd has
it as its hypothesis `ServerAnswers`.

### Proved

`EnginePool_proofs` proves for all constants that satisfy the named assumptions
of `EnginePool`, and so for any hints:

* `TypeCorrect`: TypeOK is inductive as it stands.
* `ReservationsHold`: ReservedUntilFreed and ReservationsExclusive, under
  every disturbance. Neither is inductive: a stream could release
  a slot that a task holds. `OwnershipInv` therefore says of every slot in use but
  the hinted ones who will release it, and that streams and chats that release a slot share it with
  nobody and with no reservation.
* `MainSlotReturns`: MainSlotComesBack under every disturbance, by the
  invariant that no task and no job that keeps its slot has slot 0.
* `FifoHolds`: FifoWithinPriority, from `Numbered` (the jobs submitted are those up to
  the counter) and the guard of `Dispatch`.
* `CloseHolds`: CloseIsFinal, from `Stopped` (no dispatcher after `close()`).
* `NoLeaks` (NoSlotLeak), if no task is stopped (`NoStops`), whatever
  is cancelled or fails: by `KeepersOK`, a job that keeps its slot
  belongs to a worker that waits for it, so that the slot it claims is
  that worker's. `pool_leak` shows what a stop does to this.
* `StreamsHaveASlotEach` (OneStreamPerSlot), from `KeepersOK` and `OwnershipInv`, so with `NoStops`.
* `QueuedMainFirst` (QueuedMainGoesFirst), if P1 requests come from sub-agents
  only, as in the code, and with `NoStops`: their slot is theirs, so that the
  dispatcher never waits for a P1 request, during which a P0 request could arrive.

`pool_calm` satisfies these hypotheses, and each of them is needed: with a
stopped task, or with P1 requests of others, TLC violates the property.

Only model-checked: RequestsEnd, which is liveness and beyond the prover.
ReservedUntilFreed is proved and needs no run.

## 4. SubAgents

A task is a row of the board; a run is an asyncio task `_run_with_slot` that
works on it. Stages of a run are the awaits at which other code gets its turn.

| code | model |
|---|---|
| `TaskBoard._active`, `_completed` | `active`, `completed`, sequences in the board's order |
| `_workers`, `_worker_tasks`, `_pending_task_answers` | `workers`, `workerTasks`, `answers` |
| `register_task`, `upsert_from_signal`, `mark_cancelled`, `get`, `find_running` | `Register`, `Upsert`, `MarkCancelled`, `Found`, `FoundRunning` |
| `spawn_subagent` | `Spawn`, `SpawnStores`, `SpawnAborts` |
| `_run_with_slot` | `GetsSlot`, `WaitsForSlot`, `BuildFails`, `WorkerStarts`, `CancelledEarly`, `Leave` |
| `SubAgentWorker.run` | `StepReports`, `NextReport`, `ReportsDone`, `WorkerReturns`, `NextStep`, `StepLimit`, `WorkerFails`, `WorkerDies` |
| `apply_answer_to_task`, `cancel_task` | `Answer`; `StopTask`, `StopEnds`, `StopFails` |

Capability and goal are one `topic`; a row made up for a late signal has topic
`Unknown`. Of an answer the model knows whether the next model step will read it
(`told`). The engine is reduced to the number of free sub-agent slots; that
`free_slot` works by task id, whichever run calls it, is kept. Empty outputs and
tool calls are model steps without reports; the tool of a seed payload publishes
like a model step. Not modelled: the queue of signals for the notifier, and the
rows in Postgres, which Server2 never reads back.

`StopFails` is a stop whose run could not store its last ERROR: `cancel_task`
catches CancelledError only (`supervisor.py:633`), so that the exception ends it
too, and neither `free_slot` nor `mark_cancelled` is reached.

Two runs of one task. `_task_slots`, `_workers` and `_worker_tasks` have one
entry for a task. A task that is stopped at a question and answered before its
run is gone gets a second run: it replaces those entries, and when the first run
ends it pops them, with the slot of the second (`pool.py:475`,
`supervisor.py:572`). The first slot is lost, and `[STOP_TASK]` does not find the
second run. `Doubled(id)` says that this has happened to a task; HeldIsUsed (its
count of slots), Stoppable and StopIsFinal exempt such a task and no other. They
are checked and proved with answers and stops together.

Runs (3 runs of two model steps each):

* `agents_answers`: 3 tasks on 2 topics, 1 slot, with answers at any moment. One run
  works on a goal, and `SubAgents` implements `TaskLifecycle` with the status of a task's
  row as refinement mapping. The outputs end with DONE, see below. 31,715 states.
* `agents_stops`: 2 tasks, 1 slot, stops at any moment, a completed list of one (a task can be
  forgotten while it is being stopped) and errors the user can act on.
  A running row is attended to, and under `Fairness` tasks settle.
* `agents_faults`: answers, stops, barge-ins, database errors and failing builds together, on
  one task with two slots, so that two runs of it can overlap, with reports in any
  order. No slot is lost, what works can be stopped, and when a stop that waited
  for a run is through, no run that there was before it works on. 319,564 states.

StopIsFinal is about stops that find a run. One that comes while the row of the
task is being stored finds none, and `spawn_subagent` goes on to start one
(`SpawnStores`), so that a stopped task may be worked on.

The bound on the board (`MaxActive`, 8 in the code) matters only when it is
reached: all runs keep it out of reach. With a board of one, `OneRunPerTopic`
fails, as `_trim_active` drops the row of a task whose worker runs on.

Fairness is that of the event loop, and that awaited calls come to an end:
Postgres and tools answer or fail, and so does the model. The last is an assumption about
llama-server, as its client has no timeout (section 3).

### Proved

For any number of tasks, runs, slots, topics and steps. Everything rests on
`IInv` of `SubAgents_proofs` (theorem `Inductive`): types, that a run under way
has an id that was spawned, that both dictionaries hold runs, and that the slots
held are those of runs past `acquire` and not yet past `free_slot`. The lemmas
`...Effect` say once what the steps of a run, of a spawn and of a turn may change
(`RunEffect`, `Effect`); the invariants below are shown for the effects where
possible, and for an action only where they need its guard.

* `TypesHold`, `SlotsAreUsed` (HeldIsUsed), `RunsAreStoppable` (Stoppable),
  `StopsAreFinal` (StopIsFinal): whatever happens, without hypotheses. `StopInv`
  says that a run at work that nobody has cancelled is in `_worker_tasks` unless its task
  is `Doubled`, that `cancel_task` awaits what it has cancelled and that this is
  the oldest run of the task, and that free and held slots add up while no task has
  two runs.
* `NoGhostTasks` (RunningIsAttended), if there are only stops
  (`OnlyStops`) and a step reports the end of its task in its last report
  (`EndsLast`). A barge-in ends the turn between the row and the run, and a report after
  DONE makes a row anew; failed writes are left out by the proof, while TLC finds
  no violation with them in `agents_stops`.
* `OneRunEachGoal` (OneRunPerTopic), with answers, interruptions and failures, if nothing is stopped,
  `EndsLast`, no error is one for the user to act on (such a task leaves the board
  while it waits, so that `find_running` misses it), and no row is put on a full board
  (`Roomy`). `GoalInv`
  says that each run that works has its running row on the board and that no goal is that of two
  active rows. `RoomForAll` replaces `Roomy` by a board that has room for
  every task, as in the runs.

`agents_answers` satisfies the hypotheses
of `RoomForAll`. Counting of runs and rows goes by the least element of a
set of numbers, as the induction theorems of the library cannot be applied.

Only model-checked: RunningSettles, which is liveness, and LifecycleSpec. The
refinement fails when a task is stopped, or reports something after DONE: the row
comes back to life (section 10).

## 5. Turns

One user's session on one socket. A turn is an asyncio task; its stages are the
awaits that suspend. The inbound loop of the socket (`handler`) is one more
process: it waits while it stores a partial reply, joins a cancelled task or
speaks a reply itself.

| code | model |
|---|---|
| `session.turn_task`, `queued_chat`, `queued_compute_task`, `pending_chat_delivery` | `turnTask`, `queued`, `computeTask`, `pending` |
| `InterruptController.state`, `turn_id`, `_tts_cancel` | `speech`, `current`, `ttsCancel` |
| `accumulated_partial`, `turn_llm_persisted` | `partial` (whose words it holds), `persisted` |
| `run_voice_turn`, `run_supervisor_text_turn` | `VoiceBegins`, `HearsNothing`, `ChatBegins`, `ChatRequeues`, `ProactiveBegins`, `Token`, `Answers`, `RowStored`, `Flushes`, `SpeaksWhole`, `Tells`, `Fails` |
| its `except CancelledError` and `finally` | `CancelledEarly`, `Unwinds`, `Salvages`, `NothingToSalvage`, `Saved`, `CancelledLate`; `EndTurn`, `TurnDrains` |
| `StreamingTtsPipeline` | `PipelineSpeaks`, `PipelineDrains` (`fed`: sentences are queued) |
| `start_background_chat_compute`, `_compute`, `try_deliver_pending_chat` | `HandlerStarts`, `HandlerJoined`, `Joined`; `ComputeAnswers`, `ComputeDelivers`, `ComputeFails`, `ComputeCancelled`; `HandlerDrains` |
| `_handle_text`, `_handle_audio_end`, `_handle_interrupt`, `_handle_chat` | `AudioStart`, `AudioEnd`, `AudioEndsEmpty`, `Interrupt`, `InterruptSaved`, `ChatStarts`, `ChatQueues`, `PlaybackStarts`, `PlaybackStops` |

Abstracted: sends to the client do not suspend; audio is either worth
transcribing or not; the channel is any of `Channels` (only that playback forces
`chat_only` is kept); `paused` playback, trivial follow-ups and a failure of
speech synthesis are left out; conversation mode only. `drop_next_utterance` has
no effect, since every `audio_end` clears it before it is read. `heard`, `silenced`,
`rows` and `told` record what the client and the history have got.

Runs (three turns of any kind, as a third is needed to replace a
queued message or to be joined twice, and one interrupt):

* `turns_typed`: typed messages, proactive turns, failures and an interrupt, so that turns
  with a pipeline are cancelled, queued and delivered. Whoever is awaited is over or
  will end without waiting for another and, under `Fairness`, every turn ends.
  252,324 states.
* `turns_interrupts`: voice, chats, playback and an interrupt. One user turn at
  a time, and it is `session.turn_task`; the session counts as busy only for a turn
  that will call `finish_turn`; an interrupted user turn stays silent; what the client was
  told is stored; no typed message is lost. 2.03 million states.

A wait circle needs more turns than three: the branch in which a computation ends while a newer
one is recorded and a third message is queued needs five. That is why what rules circles out
is stated of a state (AwaitedWillEnd) and proved for any number of turns,
while TurnsEnd shows at three turns that the pipelines, cancellations and awaits there are come to
an end.

Several properties need the limits stated: ToldIsStored fails with a proactive turn that
overlaps an interrupted one, since `turn_llm_persisted` belongs to the session;
it says nothing of how often the text is stored, and with an interrupt the
handler and the cancelled turn can both do it (`turn_coordinator.py:28`); the silence
of interrupted turns fails with proactive turns, which no interrupt cancels; BusyForATurn and NoChatLost fail when turns fail.
The hazards say at which line.

Fairness: the event loop runs what is ready, and three seconds pass; the model, Postgres and the speech
engines answer or fail. Of the model this is an assumption: it is
awaited without a timeout, and if it hangs so does the turn. Nothing is
assumed of the client or the notifier.

### Proved

For any number of turns and interrupts. `IInv` (theorem `Inductive`) adds to TypeOK and
OneUserTurn which kinds of turn are at which stage (`ShapesOK`), and what
`queued`, `computeTask`, `pending` and the handler refer to (`QueueOK`,
`HandlerOK`). The proofs state once what a step does to the turn that acts
(`View`) and to the others (`Beside`: nothing, a cancellation of the recorded compute
task, or the take-up of the queued chat).

| theorem | property | needs | invariant |
|---|---|---|---|
| `TypesHold` | TypeOK | nothing | `IInv` |
| `OneUserTurnHolds` | OneUserTurn | nothing | `IInv` |
| `AwaitedWillEndHolds` | AwaitedWillEnd | nothing | `AwaitInv`: what is recorded as `queued_compute_task` is at work and awaits nobody, and is cancelled by whoever joins it |
| `BusyForATurnHolds` | BusyForATurn | `NoFailures` | `BusyInv`: a pipeline with sentences belongs to a turn that replies |
| `InterruptedTurnIsOver` | InterruptedUserTurnIsOver | `NoSignals` | `SilenceInv`: an interrupted turn is over, or is ending with the cancel event set |
| `NoChatIsLost` | NoChatLost | `NoFailures`, `NoSignals` | `ChatInv`: a chat that is created finds a quiet session, so it is not requeued |

Each hypothesis is about what may happen (`Events`), and each is needed: TLC
violates the property without it. `turns_interrupts` has neither failures nor
proactive turns. Section 10 tells how a proactive turn loses a chat. ToldIsStored and
TurnsEnd are only model-checked.

## 6. Memory

Every call of Postgres, Redis or the model is one step, before or after which
anybody else may run; each may fail, and the process may die.

| code | model |
|---|---|
| table `turns` | `stored` (rows ever inserted) and `table` (those still there) |
| `sessions.compressed_summary` | `summary`: the turns it tells of |
| `_session_locks` | `lock` |
| `append_turn` | `AppendTurn` |
| `_maybe_summarize_session`, `summarize_session` | `PassStarts`, `Estimates`, `ReadsTurns`, `ReadsSummary`, `Summarizes`, `AnswersNothing`, `UpdatesSummary`, `FactsPersisted`, `Prunes`, `PassFails`, `Retries` |
| `facts`, active rows | `facts`: the caller whose value is active |
| `_persist_extracted_facts`, `extract_facts_from_task`, `[REMEMBER]` | `Batch`, `BeginCalls`, `Raises` |
| `set_fact` | `Selects`, `Supersedes`, `Inserts`, `Embeds`, `MarkDirty`, `CallFails` |
| `_dirty_users`, `warm_cache:<user>` | `dirty`, `cache`; `late` is a history variable |
| `build_warm_profile` | `BuildStarts`, `ReadsCache`, `ReadsRows`, `WritesCache`, `BuildFails`; `CacheExpires` |
| restart | `Crash`: what the process held is lost, rows and cache remain |

Abstracted: what a summary says (it is the set of turns it was made of), tokens
(rows are counted), the value of a fact (it is named by its caller), waiting
between retries. The transaction of `set_fact` is as Postgres runs it under the
schema: `Supersedes` always raises, see section 10. A caller that raises goes on
with its next fact, except for a reply, whose turn ends.

Runs:

* `memory`: two passes (the second one is needed for the lock to matter), one
  reply and one build, two keys of which one shows in the profile, three turns of
  which one is kept, one retry, and every failure. Three rows are enough for a row to be
  stored while an older one is being compressed and for a second pass to
  compress on top of the first one's summary. NothingForgotten, RecentKept,
  SummaryGrows, StaleIsExplained; under `Fairness` LockIsReleased. 376,636 states.
* `memory_versions` finds PLAN.md's promise about facts broken; see section 10.

Deadlock is not checked: callers and turns are bounded. Fairness: awaited calls
answer or fail (of the model this is an assumption, as in section 3) and a waiting task runs.
No turn, call, build or expiry of a key is assumed to happen.

"The profile shows the facts" is false of the code: a build that read before a fact
was stored caches the old profile and clears the mark of `mark_dirty`; a `set_fact` that
fails, or a process that dies, after COMMIT never marks it. Only the ten minutes of the key put an end to
that. `late` records that one of these three has happened to the cached
profile, and StaleIsExplained says that nothing else leaves a stale one
unmarked: not a DEL or a build that fails, nor any other order of calls and builds.

### Proved

`Memory_proofs`, for all passes, callers, builds, keys and all values of Keep,
Threshold and MaxRetries: `TypeCorrect`, `NothingIsForgotten`, `RecentIsKept`,
`SummaryOnlyGrows` and `StaleIsAlwaysExplained`. The last is preserved by every step,
as it is, of a well-typed state; the three before it are not inductive, and `IInv` adds:

* `LockHeld`: a pass between estimating and pruning has the lock, so that there
  is one at most; `Crash` ends it and frees the lock at once;
* `OldIsOld`: what a pass compresses are turns with at least Keep newer ones, and
  stays so, as rows are only added at the new end;
* `SummaryBetween`: the summary lies between what the pass started from and what
  it will store, which makes the UPDATE, and a repeated one, grow it;
* `OldCovered`: once the pass has stored its summary it covers the turns to be
  deleted, which is why the DELETE comes after it.

## 7. MainTurn

`run_turn` from the user's words to the stored reply. Main's answer is a sequence
of items: prose, `again` (prose that repeats what the answer has said), directives, `ignored`
ones (bad payload, unknown task, key or
capability) and `openSearch`, the beginning of a `[SEARCH` without its end.

| code | model |
|---|---|
| `handle_turn`, `ensure_session` | `Begin`, `SessionReady` |
| three reads of the context, row of the user | `ContextRead`, `UserRowStored` |
| proactive answer, `_complete` with its second try | `AnswersDirectly` |
| pass 1 | `Plans` |
| `_apply_task_directives`, `execute_directives` | `StopsTask`, `AnswersTask`, `ExecutesProfile`, `NextStage` |
| `_spawn_one` under `gather` | `SpawnStarts`, `SpawnStored`, `SpawnsDone` |
| opener, `_emit` | `Opener`, `Emits`, `SpeaksOpener` |
| searches under `gather` | `SearchAnswers`, `SearchesDone`, `Tells` |
| recall, note, reply, row | `Recalls`, `Notes`, `Speaks`, `ReplyStored` |
| `strip_directives`, `plan_acknowledgment`, `contains_directive_leak`, `_ensure_visible_reply`, `finalize_assistant_prose` | `Strip`, `Acknowledgment`, `Leaks`, `Ensured`, `Finalized` |
| any exception or cancellation | `Fails` |
| sub-agents meanwhile | `TaskMoves` |

Abstracted: the regular expressions (an item is matched or it is not), the words
of a piece, prompts. The tool runner is there, as `ws.py` always passes it.

Run `mainturn`: every answer of up to two items of every kind, of three items
that change what is said, and four long ones (four searches, of which three run;
delegates for the same goal twice and for a goal that is stopped), from every
board of two goals. HistoryTellsTheReply, DelegatesStart, SpokenInOrder. 131,697 states.
One turn is enough, since two turns do not share these
variables; the board they share moves at any time. No fairness is assumed and no
liveness is claimed: a turn is a bounded sequence of awaits.

The history is not always what was heard. `finalize_assistant_prose` cuts an
answer where it begins to repeat itself (`supervisor.py:231`, `prose.py:98`); on the direct
path, which streams, the user has heard the repetition by then. And the fallback
is stored when nothing, or half a directive, has been heard.
HistoryTellsTheReply states these two cases, each with its condition, and equality in all others.

### Proved

`MainTurn_proofs`, without hypotheses: for all goals, boards and sets of answers of any
length, with any number of stops, delegates and searches in any order.

What a stage reads out of an answer (`OfKind`) is a selection of items. It is
defined by their positions rather than recursively, because a recursive operator
can neither be expanded by the provers nor reasoned about by induction: the nth item
of some kinds stands at the position up to which n of them are counted.
`NthIsThere` shows that there is such a position, by the least number up to which n are
counted, and `NthIsUnique` that there is one only. `OfKindItems` draws from them
that nothing is lost and nothing invented, and everything else about answers rests
on that lemma (`DirectivesOf`, `TextsOf`).

| theorem | property | by |
|---|---|---|
| `TypesHold` | TypeOK | `NothingIsPlanned`: no delegate is under way when an answer replaces the one before |
| `HistoryIsWhatWasSaid` | HistoryTellsTheReply | `RowsSoFar`: the rows at each stage. `ReplyIsHeard`: up to `Speaks` what is heard is `parts`, and nothing before the opener; a reply that is cut is so before its first repetition |
| `EveryDelegateStarts` | DelegatesStart | `StopsComeFirst`: a goal to be stopped has no live task, unless its stop is to come or, later, the task is of this turn. `DelegatesAreTold`: a delegate is starting, storing or told, and what is stored is fresh |
| `SpokenInOrderAlways` | SpokenInOrder | `SaysInOrder`: at each stage a rank that nothing said so far exceeds; the kth answer left to tell belongs to the kth search left |

Delegates with one goal are the delicate case: the second finds
the task the first has just created, which is fresh, so that the theorem holds
though `_spawn_one` looks for a task and creates it in steps of several
delegates; a task that a sub-agent ends between the two makes the second
create one more, which is fresh as well. TLC has checked the invariants
`TypedInv`, `HistoryInv`, `DelegateInv` and `OrderInv` on the instance above.

## 8. Live

The session of one user with all its devices.

| code | model |
|---|---|
| inbound loop of a socket, turn task | an actor with a stage, `job` |
| `session.websocket`, superseded sockets, `session.turn_task` | `attached`, `closed`, `turnTask` |
| `enforce_session_singleton`, `ws_endpoint` | `HelloArrives`, `TakesOver`, `Welcomes`, `SocketEnds` (its `finally` is `TurnCancelled`) |
| `client_control.mode`, `session.meeting_state` | `mode`, `meeting` |
| `MeetingState.buffer`, chunks in LanceDB | `buffer`, `stored` |
| `enter_meeting_mode`, `exit_meeting_mode`, `finalize_meeting`, `on_mode_change` | `Enter`, `Exit`, `Finalizes`, `RemainderStored`, `Announced`, `ModeMessage` |
| `run_meeting_turn`, `handle_meeting_transcript`, `run_voice_turn` | `AudioEnd`, `MeetingTranscribed`, `VoiceTranscribed`, `Append`, `TurnEnds` |
| `maybe_flush_chunk`, `_flush_buffer` | `FlushStarts`, `ChunkStored`, `Stores`, `FlushFails` |
| `_run_post_meeting_summary` | `SummaryStarts`, `SummaryAnswered`, `AttemptFails`, `FactStored` |

`begun`, `said` and `owed` are history variables, needed to state the properties;
`owed` are the utterances made before an exit that has ended their meeting. A socket that is gone
may still count as connected (`session_registry.py:85`), so that the next one supersedes it. Abstracted:
time (a chunk may be due whenever an utterance is appended), speakers, what Main
does in a turn, speech and queued chats (see `Turns`). An utterance has the name
of the turn that transcribes it.

Run `live`: two sockets, three turns, two meetings, one retry. Two sockets are
needed for two exits at once and for a superseded loop to go on; a third turn
speaks while a second one stores a chunk. ModeMatchesMeeting, MeetingNotReplaced,
RemainingIsFlushed; under `Fairness` SummariesEnd. 397,332 states. Only the summaries are assumed
to be run: no property here needs a client or a turn to go on. Deadlock is not
checked: sockets and turns are used once.

### Proved

`Live_proofs`, for all sockets, turns and meetings: `TypeCorrect`, `ModeHolds`,
`RemainingHolds`, `MeetingHolds`. ModeMatchesMeeting is what every step
preserves; the other two need `IInv`:

* `BegunOnce`: meetings not begun are empty, so that a new one is really new;
* `OneTurn`: of all turns only `turnTask` runs, so that one turn at most has a
  chunk under way;
* `Heard`, `InChunk`: of the meeting there is, everything said is in the buffer or
  stored, and what is in the buffer of a meeting whose chunk a turn is storing is in
  that chunk: nobody speaks meanwhile. Only exits lose words, and
  with them their meeting is over;
* `ExitCovers`: an exit that waits has all that was said before it began in its own
  chunk or in stored ones, although another exit or the turn clears the buffer
  meanwhile.

## 9. Variants

Operators named `Bug...` are a definition with a plausible mistake, placed before it. Substituting
one for the definition must make TLC refute the property `PROJECT.json` pairs it
with: each property is sensitive to a mistake in the code.

## 10. Where the code and its documents disagree

With a run:

| run | what happens |
|---|---|
| `pool_leak` | a stopped worker's queued request takes the freed slot and never gives it back |
| `memory_versions` | the second value of a key is refused by Postgres, since the old row is made to refer to a row not inserted yet |

Stated as a property of a module that no run checks, because it fails (give it
to the configuration named):

| property | configuration | what happens |
|---|---|---|
| AnswersRead (SubAgents) | `agents_answers` | an answer that arrives during a worker's last step is dropped (PLAN.md:467) |
| RunningIsAttended (SubAgents) | `agents_faults` | a barge-in during a delegation leaves a running row without a worker (PLAN.md:407) |
| ChatNeverInterrupts (Turns) | `turns_typed` | a typed message cuts off the spoken reply to the one before, whose text is never sent either (PLAN.md:493) |
| PendingIsDelivered (Turns) | `turns_typed` | a reply computed during another turn is never delivered to a client that plays no audio |
| OverrideHonoured (MainTurn) | `mainturn` | `[RESPOND_VIA]` has no effect in an answer that also says something (PLAN.md:471, supervisor.py:432) |

Met while modelling, in Server2:

* a summarizer is given, and then releases, the last slot while a sub-agent has
  reserved it, so that two sub-agents, or a sub-agent and a summarizer, share it
  (pool.py:547): ReservationsExclusive and OneStreamPerSlot fail without their exemption;
* "the live conversation (P0) always preempts sub-agent work" (README.md:69) holds of
  queued requests only; the first pass of each turn is not queued, and nothing
  that runs is preempted;
* a client without a timeout waits for ever for a server that hangs (pool.py:136);
* a task stopped at a question and answered at once has two runs; the slot of the first is never
  given back (pool.py:475; doc/step-08.md:119), and `[STOP_TASK]` does not
  find the second: HeldIsUsed, Stoppable and StopIsFinal fail in `agents_faults` without
  their exemption of `Doubled` tasks;
* a stop whose run cannot store its last ERROR raises into the turn, and the row is not marked
  (supervisor.py:633);
* a task stopped while its row is being stored is started all the same;
* a stopped task is shown as `error`, not `cancelled`: the worker publishes an
  ERROR before `cancel_task` marks the row (PLAN.md:1258);
* a report after DONE revives a task under capability `unknown` (LifecycleSpec in
  `agents_answers` with `Outputs <- Confused`);
* the answer to a proactive turn may be heard with a repetition that is not stored (supervisor.py:231);
* a `[RECALL meeting:]` is executed, and its result used only if another recall
  stands beside it (supervisor.py:300);
* a second answer grounded on recalls, and a proactive answer, may let the user hear half a
  directive, which the stored row does not have (supervisor.py:418);
* a turn that fails has stopped tasks, stored facts and spawned sub-agents, and
  leaves the user's row without a reply; a `[REMEMBER]` of a known key is such a
  failure (facts.py:82);
* utterances appended while a chunk is stored are cleared with it (meeting.py:199):
  those said while the last chunk of a meeting is stored are lost;
* an exit that was storing its last chunk ends the meeting that has been begun
  meanwhile, which gets no summary (meeting.py:225);
* two exits of one meeting store its last chunk twice and schedule two summaries;
* a chunk that cannot be stored, when a client leaves meeting mode, ends its connection and leaves
  it in the meeting;
* `audio_start` during a proactive turn makes the session quiet, so that a chat is
  started; if the proactive turn speaks before the chat runs, and a newer chat is
  queued meanwhile, the older one requeues itself and replaces the newer one
  (NoChatLost with proactive turns, voice, chats and four turns);
* of two devices that supersede a third at the same time neither is closed, so
  that both stay connected (session_registry.py:101; PLAN.md:263);
* a superseded socket that still has messages to read has them handled
  (PLAN.md:277), and cancels the turn of the new one when it ends (ws.py:136).

## 11. What is model-checked only, and what is not modelled

The invariants and action properties that the runs check are also stated by theorems, but for
ToldIsStored; some are
under the hypotheses that sections 3 to 5 name: where one of these is dropped
TLC finds a counterexample, unless said otherwise, so that such a theorem says how far the code keeps
the property.

The refinement of `TaskLifecycle` is only model-checked, and so is
liveness, as fairness and ENABLED are beyond the provers:
RequestsEnd, RunningSettles, TurnsEnd, LockIsReleased and SummariesEnd, on the instances above.
All but the last rest on a llama-server that answers or fails; so does SummariesEnd, whose
summaries are made by it.

Not modelled:

* the queue of signals, their rows in Postgres and the notifier's bookkeeping;
* which sentence is in the speech queue, and the default of `respond_via`;
* trivial follow-ups, deferred utterances and `plan_stream.py`, which only
  its test imports;
* tools, retrieval, prompts, llama-server, speech engines, the web client: I/O and
  text without state shared between tasks;
* Server1: a separate REST program over its own tables. Its hazards are listed in
  `PROJECT.json` and none of its modules is modelled.
