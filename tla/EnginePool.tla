----------------------------- MODULE EnginePool -----------------------------
(***************************************************************************)
(* Server2/server/engine/pool.py: one llama-server process with a fixed    *)
(* number of parallel slots, shared by the live conversation (P0), the     *)
(* sub-agents (P1) and the summarizers (P2).                               *)
(*                                                                         *)
(* Three kinds of client compete for the slots:                            *)
(*   jobs    submit / submit_assigned put them on a priority queue; one    *)
(*           dispatcher pops them, claims a slot and starts a task that    *)
(*           streams tokens into the caller's CompletionHandle;            *)
(*   chats   complete_chat claims a slot itself, beside the queue;         *)
(*   tasks   a sub-agent reserves a slot for its whole run (assign_slot),  *)
(*           runs its jobs on it (submit_assigned) and gives it back       *)
(*           (free_slot).                                                  *)
(* asyncio runs one task at a time, so each action is the code between two *)
(* awaits that really suspend.                                             *)
(***************************************************************************)
EXTENDS Integers, FiniteSets

CONSTANTS
  ParallelSlots,     (* parallel_slots: the slots are 0..ParallelSlots-1       *)
  MaxJobs,           (* bound: calls of submit and submit_assigned             *)
  Chats,             (* calls of complete_chat, each made once                 *)
  Tasks,             (* task_ids of sub-agents                                 *)
  SubmitPriorities,  (* the priorities submit is called with                   *)
  SubmitHints,       (* the slot_hints submit is called with                   *)
  ChatHints,         (* the slot_hints complete_chat is called with            *)
  Disturbances,      (* what may go wrong: a subset of AllDisturbances         *)
  MaxRuns,           (* bound: how often one task is started or resumed        *)
  MaxTokens          (* bound: tokens counted per handle                       *)

NoSlot == -1          (* Python's None, for a slot and for a slot_hint          *)
NoHint == -1
Slots == 0 .. ParallelSlots - 1

(* A job is known by its sequence number, which the pool hands out.         *)
Jobs == 1 .. MaxJobs
NoJob == 0

P0_MAIN == 0
P1_SUBAGENT == 1
P2_SUMMARIZER == 2

(* stop_task: the Supervisor cancels a running worker; barge_in: a caller   *)
(* of complete_chat is cancelled or fails; stream_error: llama-server       *)
(* fails a completion; handle_cancel: EnginePool.cancel; close: shutdown.   *)
AllDisturbances == {"stop_task", "barge_in", "stream_error", "handle_cancel", "close"}

ASSUME SlotsAssumption == ParallelSlots \in Nat \ {0}
ASSUME HintsAssumption ==
  /\ SubmitHints \subseteq Slots \cup {NoHint}
  /\ ChatHints \subseteq Slots \cup {NoHint}
ASSUME PrioritiesAssumption ==
  SubmitPriorities \subseteq {P0_MAIN, P1_SUBAGENT, P2_SUMMARIZER}
ASSUME BoundsAssumption == MaxJobs \in Nat /\ MaxRuns \in Nat /\ MaxTokens \in Nat
ASSUME DisturbancesAssumption == Disturbances \subseteq AllDisturbances

VARIABLES
  sequence,    (* _sequence                                                 *)
  job,         (* the _CompletionJob of each submitted call                 *)
  st,          (* where the call stands                                     *)
  slot,        (* the slot handed to the call's stream                      *)
  handle,      (* what the call's CompletionHandle has been given           *)
  dispatcher,  (* _dispatcher_task                                          *)
  busy,        (* _busy_slots                                               *)
  taskSlot,    (* _task_slots                                               *)
  chat,        (* each complete_chat call                                   *)
  worker,      (* each sub-agent, as far as the pool sees it                *)
  call,        (* the job whose handle a sub-agent is reading               *)
  runs,        (* how often a sub-agent has been started                    *)
  phase        (* open until close() sets _closed                           *)

queueVars == <<sequence, job>>
jobVars == <<st, slot, handle>>
workerVars == <<worker, call, runs>>
vars == <<sequence, job, st, slot, handle, dispatcher, busy, taskSlot, chat,
          worker, call, runs, phase>>

-----------------------------------------------------------------------------
(* Types                                                                    *)

JobRecord == [priority : 0 .. 2, hint : Slots \cup {NoHint}, hold : BOOLEAN]

(* queued: in _queue; claiming: popped, the dispatcher waits for its slot;  *)
(* spawned: its task is created and has not run yet; streaming: inside      *)
(* _run_job; done: _run_job is over; lost: popped or spawned when close()   *)
(* cancelled it, so that neither release_slot nor finish is ever called.    *)
JobState == {"new", "queued", "claiming", "spawned", "streaming", "done", "lost"}

Handle == [cancelled : BOOLEAN, tokens : 0 .. MaxTokens,
           end : {"open", "ended", "failed"}]

Chat == [st : {"new", "waiting", "running", "done"},
         hint : Slots \cup {NoHint}, slot : Slots \cup {NoSlot}]

TypeOK ==
  /\ sequence \in 0 .. MaxJobs
  /\ job \in [Jobs -> JobRecord]
  /\ st \in [Jobs -> JobState]
  /\ slot \in [Jobs -> Slots \cup {NoSlot}]
  /\ handle \in [Jobs -> Handle]
  /\ dispatcher \in {"absent", "getting", "claiming", "stopped"}
  /\ busy \subseteq Slots
  /\ taskSlot \in [Tasks -> Slots \cup {NoSlot}]
  /\ chat \in [Chats -> Chat]
  /\ worker \in [Tasks -> {"out", "assigning", "running"}]
  /\ call \in [Tasks -> Jobs \cup {NoJob}]
  /\ runs \in [Tasks -> 0 .. MaxRuns]
  /\ phase \in {"open", "closing", "cancelling"}

-----------------------------------------------------------------------------
(* The pool's own helpers                                                   *)

closed == phase # "open"
Queue == {j \in Jobs : st[j] = "queued"}
Live == {j \in Jobs : st[j] \in {"spawned", "streaming"}}      (* _job_tasks *)
Reserved == {taskSlot[t] : t \in Tasks} \ {NoSlot}    (* _task_slots.values() *)

(* _available_slot: nothing or the one slot a claim with this hint gets. A   *)
(* hinted slot that some task holds is handed out although it is busy.       *)
Available(hint) ==
  IF hint = NoHint
    THEN {s \in Slots \ busy : \A r \in Slots \ busy : s <= r}
    ELSE {s \in {hint} : s \notin busy \/ s \in Reserved}

(* Variants named Bug... are what a definition would be with a plausible     *)
(* mistake in it; each shows that some property notices the mistake.         *)
BugAssignableOneMore ==
  LET range == 1 .. ParallelSlots
  IN  {s \in range \ busy : \A r \in range \ busy : s <= r}

(* assign_slot's candidates: the first free slot other than Main's slot 0.   *)
Assignable ==
  {s \in (Slots \ {0}) \ busy : \A r \in (Slots \ {0}) \ busy : s <= r}

BugBeforeUnordered(j, k) == j < k
BugBeforeNewest(j, k) ==
  \/ job[j].priority < job[k].priority
  \/ job[j].priority = job[k].priority /\ j > k

(* The order of _QueueItem.                                                  *)
Before(j, k) ==
  \/ job[j].priority < job[k].priority
  \/ job[j].priority = job[k].priority /\ j < k

(* Slots that somebody else than the sub-agent they are reserved for may ask *)
(* for: in the code the last one, the hint of the summarizers.               *)
HintedSlots == (SubmitHints \cup ChatHints) \ {NoHint, 0}

NextItem(j) == j \in Queue /\ \A k \in Queue \ {j} : Before(j, k)

(* What a reader of the handle sees last: the first exception or None put    *)
(* into it; whatever follows is never read.                                  *)
End(h, how) == [h EXCEPT !.end = IF @ = "open" THEN how ELSE @]

Init ==
  /\ sequence = 0
  /\ job = [j \in Jobs |-> [priority |-> P0_MAIN, hint |-> NoHint, hold |-> FALSE]]
  /\ st = [j \in Jobs |-> "new"]
  /\ slot = [j \in Jobs |-> NoSlot]
  /\ handle = [j \in Jobs |-> [cancelled |-> FALSE, tokens |-> 0, end |-> "open"]]
  /\ dispatcher = "absent"
  /\ busy = {}
  /\ taskSlot = [t \in Tasks |-> NoSlot]
  /\ chat = [c \in Chats |-> [st |-> "new", hint |-> NoHint, slot |-> NoSlot]]
  /\ worker = [t \in Tasks |-> "out"]
  /\ call = [t \in Tasks |-> NoJob]
  /\ runs = [t \in Tasks |-> 0]
  /\ phase = "open"

-----------------------------------------------------------------------------
(* Jobs                                                                     *)

(* start(), called by the first request; after close() nothing gets here.   *)
StartDispatcher ==
  dispatcher' = IF dispatcher = "absent" THEN "getting" ELSE dispatcher

Enqueue(j, priority, hint, hold) ==
  /\ ~closed
  /\ StartDispatcher
  /\ j = sequence + 1
  /\ sequence' = j
  /\ job' = [job EXCEPT ![j] = [priority |-> priority, hint |-> hint, hold |-> hold]]
  /\ st' = [st EXCEPT ![j] = "queued"]
  /\ UNCHANGED <<slot, handle, busy, taskSlot, chat, phase>>

Submit(j, priority, hint) ==
  /\ Enqueue(j, priority, hint, FALSE)
  /\ UNCHANGED workerVars

(* The dispatcher pops the first item and only then claims its slot: if the  *)
(* slot is not to be had it waits, and so does everything behind the item.   *)
Dispatch(j) ==
  /\ dispatcher = "getting" /\ NextItem(j)
  /\ \/ \E s \in Available(job[j].hint) :
          /\ st' = [st EXCEPT ![j] = "spawned"]
          /\ slot' = [slot EXCEPT ![j] = s]
          /\ busy' = busy \cup {s}
          /\ UNCHANGED dispatcher
     \/ /\ Available(job[j].hint) = {}
        /\ st' = [st EXCEPT ![j] = "claiming"]
        /\ dispatcher' = "claiming"
        /\ UNCHANGED <<slot, busy>>
  /\ UNCHANGED <<queueVars, handle, taskSlot, chat, workerVars, phase>>

DispatchWakes(j) ==
  /\ dispatcher = "claiming" /\ st[j] = "claiming"
  /\ \E s \in Available(job[j].hint) :
       /\ st' = [st EXCEPT ![j] = "spawned"]
       /\ slot' = [slot EXCEPT ![j] = s]
       /\ busy' = busy \cup {s}
  /\ dispatcher' = "getting"
  /\ UNCHANGED <<queueVars, handle, taskSlot, chat, workerVars, phase>>

JobStarts(j) ==
  /\ st[j] = "spawned" /\ phase # "cancelling"
  /\ st' = [st EXCEPT ![j] = "streaming"]
  /\ UNCHANGED <<queueVars, slot, handle, dispatcher, busy, taskSlot, chat, workerVars, phase>>

Token(j) ==
  /\ st[j] = "streaming" /\ phase # "cancelling"
  /\ ~handle[j].cancelled
  /\ handle[j].tokens < MaxTokens
  /\ handle' = [handle EXCEPT ![j].tokens = @ + 1]
  /\ UNCHANGED <<queueVars, st, slot, dispatcher, busy, taskSlot, chat, workerVars, phase>>

BugJobEndsKeepsSlot(j, how) ==
  /\ st[j] = "streaming"
  /\ st' = [st EXCEPT ![j] = "done"]
  /\ handle' = [handle EXCEPT ![j] = End(@, how)]
  /\ UNCHANGED <<queueVars, slot, dispatcher, busy, taskSlot, chat, workerVars, phase>>
BugJobEndsReleasesAll(j, how) ==
  /\ st[j] = "streaming"
  /\ st' = [st EXCEPT ![j] = "done"]
  /\ handle' = [handle EXCEPT ![j] = End(@, how)]
  /\ busy' = busy \ {slot[j]}
  /\ UNCHANGED <<queueVars, slot, dispatcher, taskSlot, chat, workerVars, phase>>
BugJobEndsSilently(j, how) ==
  /\ st[j] = "streaming"
  /\ st' = [st EXCEPT ![j] = "done"]
  /\ busy' = IF job[j].hold THEN busy ELSE busy \ {slot[j]}
  /\ UNCHANGED <<queueVars, slot, handle, dispatcher, taskSlot, chat, workerVars, phase>>

(* The finally block of _run_job, however the stream came to its end.        *)
JobEnds(j, how) ==
  /\ st[j] = "streaming"
  /\ st' = [st EXCEPT ![j] = "done"]
  /\ handle' = [handle EXCEPT ![j] = End(@, how)]
  /\ busy' = IF job[j].hold THEN busy ELSE busy \ {slot[j]}
  /\ UNCHANGED <<queueVars, slot, dispatcher, taskSlot, chat, workerVars, phase>>

(* The stream is exhausted, or a token arrives for a cancelled handle.       *)
StreamEnds(j) == phase # "cancelling" /\ JobEnds(j, "ended")

StreamFails(j) ==
  /\ "stream_error" \in Disturbances
  /\ phase # "cancelling"
  /\ JobEnds(j, "failed")

(* EnginePool.cancel: the reader is released at once, the stream goes on     *)
(* until its next token.                                                     *)
CancelHandle(j) ==
  /\ "handle_cancel" \in Disturbances
  /\ st[j] \in {"queued", "claiming", "spawned", "streaming"}
  /\ ~job[j].hold /\ ~handle[j].cancelled
  /\ handle' = [handle EXCEPT ![j] = [End(@, "ended") EXCEPT !.cancelled = TRUE]]
  /\ UNCHANGED <<queueVars, st, slot, dispatcher, busy, taskSlot, chat, workerVars, phase>>

-----------------------------------------------------------------------------
(* complete_chat: it claims a slot without passing through the queue, waits  *)
(* if it has to, and releases the slot in a finally block.                   *)

ChatCalls(c, hint) ==
  /\ chat[c].st = "new" /\ ~closed
  /\ StartDispatcher
  /\ \/ \E s \in Available(hint) :
          /\ chat' = [chat EXCEPT ![c] = [st |-> "running", hint |-> hint, slot |-> s]]
          /\ busy' = busy \cup {s}
     \/ /\ Available(hint) = {}
        /\ chat' = [chat EXCEPT ![c] = [st |-> "waiting", hint |-> hint, slot |-> NoSlot]]
        /\ UNCHANGED busy
  /\ UNCHANGED <<queueVars, jobVars, taskSlot, workerVars, phase>>

ChatWakes(c) ==
  /\ chat[c].st = "waiting"
  /\ \E s \in Available(chat[c].hint) :
       /\ chat' = [chat EXCEPT ![c].st = "running", ![c].slot = s]
       /\ busy' = busy \cup {s}
  /\ UNCHANGED <<queueVars, jobVars, dispatcher, taskSlot, workerVars, phase>>

BugChatEndsKeepsSlot(c) ==
  /\ chat[c].st = "running"
  /\ chat' = [chat EXCEPT ![c].st = "done"]
  /\ UNCHANGED <<queueVars, jobVars, dispatcher, busy, taskSlot, workerVars, phase>>

(* The answer, an error or a cancellation: all run the finally block.        *)
ChatEnds(c) ==
  /\ chat[c].st = "running"
  /\ chat' = [chat EXCEPT ![c].st = "done"]
  /\ busy' = busy \ {chat[c].slot}
  /\ UNCHANGED <<queueVars, jobVars, dispatcher, taskSlot, workerVars, phase>>

(* The caller is cancelled while it waits for a slot.                        *)
ChatLeaves(c) ==
  /\ "barge_in" \in Disturbances
  /\ chat[c].st = "waiting"
  /\ chat' = [chat EXCEPT ![c].st = "done"]
  /\ UNCHANGED <<queueVars, jobVars, dispatcher, busy, taskSlot, workerVars, phase>>

-----------------------------------------------------------------------------
(* Sub-agents: Supervisor._schedule_worker_start and SubAgentWorker.run.     *)

AssignSlot(t, s) ==
  /\ s \in Assignable
  /\ busy' = busy \cup {s}
  /\ taskSlot' = [taskSlot EXCEPT ![t] = s]
  /\ worker' = [worker EXCEPT ![t] = "running"]

WorkerStarts(t) ==
  /\ worker[t] = "out" /\ runs[t] < MaxRuns
  /\ runs' = [runs EXCEPT ![t] = @ + 1]
  /\ \/ \E s \in Assignable : AssignSlot(t, s)
     \/ /\ Assignable = {}
        /\ worker' = [worker EXCEPT ![t] = "assigning"]
        /\ UNCHANGED <<busy, taskSlot>>
  /\ UNCHANGED <<queueVars, jobVars, dispatcher, chat, call, phase>>

WorkerWakes(t) ==
  /\ worker[t] = "assigning"
  /\ \E s \in Assignable : AssignSlot(t, s)
  /\ UNCHANGED <<queueVars, jobVars, dispatcher, chat, call, runs, phase>>

(* _model_step: submit_assigned with the task's own slot as hint.            *)
SubmitAssigned(t, j) ==
  /\ worker[t] = "running" /\ call[t] = NoJob /\ taskSlot[t] # NoSlot
  /\ Enqueue(j, P1_SUBAGENT, taskSlot[t], TRUE)
  /\ call' = [call EXCEPT ![t] = j]
  /\ UNCHANGED <<worker, runs>>

ModelStepReturns(t) ==
  /\ call[t] # NoJob /\ handle[call[t]].end # "open"
  /\ call' = [call EXCEPT ![t] = NoJob]
  /\ UNCHANGED <<queueVars, jobVars, dispatcher, busy, taskSlot, chat, worker, runs, phase>>

BugFreeSlotKeepsEntry(t) ==
  /\ busy' = busy \ {taskSlot[t]}
  /\ worker' = [worker EXCEPT ![t] = "out"]
  /\ call' = [call EXCEPT ![t] = NoJob]
  /\ UNCHANGED taskSlot

(* free_slot: the slot recorded for the task is released, whoever uses it.   *)
FreeSlot(t) ==
  /\ taskSlot' = [taskSlot EXCEPT ![t] = NoSlot]
  /\ busy' = busy \ {taskSlot[t]}
  /\ worker' = [worker EXCEPT ![t] = "out"]
  /\ call' = [call EXCEPT ![t] = NoJob]

(* The worker returns or fails between two model steps.                      *)
WorkerEnds(t) ==
  /\ worker[t] = "running" /\ call[t] = NoJob
  /\ FreeSlot(t)
  /\ UNCHANGED <<queueVars, jobVars, dispatcher, chat, runs, phase>>

(* [STOP_TASK]: cancel_task cancels the worker wherever it is. A model step  *)
(* it was waiting for goes on streaming, or stays in the queue: the latter   *)
(* only if the dispatcher is held up, as cancel() reaches the worker in a    *)
(* later pass of the event loop than the one that woke the dispatcher.       *)
StopTask(t) ==
  /\ "stop_task" \in Disturbances
  /\ worker[t] # "out"
  /\ call[t] \in Queue => dispatcher # "getting"
  /\ FreeSlot(t)
  /\ UNCHANGED <<queueVars, jobVars, dispatcher, chat, runs, phase>>

-----------------------------------------------------------------------------
(* close()                                                                  *)

BugCloseKeepsDispatcher ==
  /\ "close" \in Disturbances
  /\ phase = "open"
  /\ phase' = "closing"
  /\ UNCHANGED <<queueVars, jobVars, dispatcher, busy, taskSlot, chat, workerVars>>

(* _closed is set and the dispatcher cancelled; what it was claiming a slot  *)
(* for is dropped.                                                           *)
Close ==
  /\ "close" \in Disturbances
  /\ phase = "open"
  /\ phase' = "closing"
  /\ dispatcher' = "stopped"
  /\ st' = [j \in Jobs |-> IF st[j] = "claiming" THEN "lost" ELSE st[j]]
  /\ UNCHANGED <<queueVars, slot, handle, busy, taskSlot, chat, workerVars>>

(* Every job task is cancelled; one that has not started never runs at all.  *)
CancelJobs ==
  /\ phase = "closing"
  /\ phase' = "cancelling"
  /\ st' = [j \in Jobs |-> IF st[j] = "spawned" THEN "lost" ELSE st[j]]
  /\ UNCHANGED <<queueVars, slot, handle, dispatcher, busy, taskSlot, chat, workerVars>>

AbortJob(j) == phase = "cancelling" /\ JobEnds(j, "ended")

-----------------------------------------------------------------------------
JobStep(j) ==
  \/ \E p \in SubmitPriorities, h \in SubmitHints : Submit(j, p, h)
  \/ Dispatch(j) \/ DispatchWakes(j)
  \/ JobStarts(j) \/ Token(j) \/ StreamEnds(j) \/ StreamFails(j)
  \/ CancelHandle(j) \/ AbortJob(j)

ChatStep(c) ==
  \/ \E h \in ChatHints : ChatCalls(c, h)
  \/ ChatWakes(c) \/ ChatEnds(c) \/ ChatLeaves(c)

TaskStep(t) ==
  \/ WorkerStarts(t) \/ WorkerWakes(t)
  \/ \E j \in Jobs : SubmitAssigned(t, j)
  \/ ModelStepReturns(t) \/ WorkerEnds(t) \/ StopTask(t)

Next ==
  \/ \E j \in Jobs : JobStep(j)
  \/ \E c \in Chats : ChatStep(c)
  \/ \E t \in Tasks : TaskStep(t)
  \/ Close \/ CancelJobs

Spec == Init /\ [][Next]_vars

(* Whatever the event loop has made ready it runs, and a sub-agent's loop    *)
(* has a step limit. Nobody has to submit, to cancel or to close anything.   *)
Fairness ==
  /\ \A j \in Jobs :
       WF_vars(Dispatch(j) \/ DispatchWakes(j) \/ JobStarts(j) \/ AbortJob(j))
  /\ \A c \in Chats : WF_vars(ChatWakes(c))
  /\ \A t \in Tasks : WF_vars(WorkerWakes(t) \/ ModelStepReturns(t) \/ WorkerEnds(t))

FairSpec == Spec /\ Fairness

(* llama-server ends every completion it has begun. This is asked of the     *)
(* server, which max_tokens keeps from going on for ever: the pool waits     *)
(* without a timeout (httpx.AsyncClient(timeout=None)).                      *)
ServerAnswers ==
  /\ \A j \in Jobs : WF_vars(StreamEnds(j))
  /\ \A c \in Chats : WF_vars(ChatEnds(c))

-----------------------------------------------------------------------------
(* What keeps a slot out of the pool: the running sub-agent it is recorded   *)
(* for, or a stream or chat whose finally block will release it.             *)
HeldByTask(s) == \E t \in Tasks : worker[t] = "running" /\ taskSlot[t] = s
HeldByJob(s) == \E j \in Live : ~job[j].hold /\ slot[j] = s
HeldByChat(s) == \E c \in Chats : chat[c].st = "running" /\ chat[c].slot = s

(* assign_slot's promise, "Reserve a slot and track it by task_id until      *)
(* free_slot(task_id)": no release by anyone else takes the slot of a task   *)
(* out of the busy set, unless it is the slot the summarizers ask for.       *)
ReservedUntilFreed ==
  \A t \in Tasks : taskSlot[t] \notin HintedSlots \cup {NoSlot} => taskSlot[t] \in busy

(* Two sub-agents never hold the same slot, so that their conversations      *)
(* never share a llama-server KV cache, except for the slot the summarizers  *)
(* ask for: what their hint breaks stays on that one slot.                   *)
ReservationsExclusive ==
  \A t, u \in Tasks :
    t # u /\ taskSlot[t] = taskSlot[u] => taskSlot[t] \in HintedSlots \cup {NoSlot}

(* Slot 0 is only ever out of the pool for a stream or a chat that will give *)
(* it back by itself: no sub-agent, running, cancelled or forgotten, keeps   *)
(* the live conversation from its slot. (After close() nobody needs it.)     *)
MainSlotComesBack == 0 \in busy /\ ~closed => HeldByJob(0) \/ HeldByChat(0)

(* Requests of equal priority reach llama-server in the order in which they  *)
(* were submitted, whatever slots they wait for and whoever is cancelled.    *)
FifoWithinPriority ==
  \A j, k \in Jobs :
    /\ st[j] \in {"queued", "claiming"}
    /\ st[k] \in {"spawned", "streaming", "done"}
    /\ job[j].priority = job[k].priority
    => k < j

(* Every busy slot is accounted for: a slot nobody will release is lost to   *)
(* the pool until the server restarts. This is what "Release slot on DONE,   *)
(* ERROR, cancel, or worker crash" (doc/step-08.md) asks of the pool.        *)
NoSlotLeak ==
  ~closed => \A s \in busy : HeldByTask(s) \/ HeldByJob(s) \/ HeldByChat(s)

(* Two completions are never given one slot at a time, where the second      *)
(* would overwrite the cache the first is generating from, except for the    *)
(* slot the summarizers ask for.                                             *)
OneStreamPerSlot ==
  /\ \A j, k \in Live : slot[j] = slot[k] => j = k \/ slot[j] \in HintedSlots
  /\ \A j \in Live : HeldByChat(slot[j]) => slot[j] \in HintedSlots
  /\ \A c, d \in Chats : chat[c].st = "running" /\ chat[d].st = "running"
                          /\ chat[c].slot = chat[d].slot => c = d \/ chat[c].slot \in HintedSlots

(* Of the requests in the queue those of the live conversation go first: no  *)
(* sub-agent stream is started while a P0 request is queued. The first pass  *)
(* of a turn of Main is not queued: its complete_chat competes with every    *)
(* other claim for a slot.                                                   *)
QueuedMainGoesFirst ==
  [][\A j, k \in Jobs :
       st[j] = "queued" /\ job[j].priority = P0_MAIN /\ job[k].priority = P1_SUBAGENT
       => ~(st[k] \notin {"spawned"} /\ st'[k] = "spawned")]_vars

(* Once close() has cancelled the job tasks, no stream comes into being any  *)
(* more: llama-server can be terminated.                                     *)
CloseIsFinal == [][phase = "cancelling" => Live' \subseteq Live]_vars

(* A submitted request is answered, if llama-server answers: its handle ends,*)
(* whatever is cancelled or fails.                                           *)
RequestsEnd ==
  ServerAnswers => \A j \in Jobs : st[j] = "queued" ~> handle[j].end # "open"

=============================================================================
