----------------------------- MODULE SubAgents -----------------------------
(***************************************************************************)
(* Background tasks of one user (Server2): Supervisor (spawn_subagent,     *)
(* _schedule_worker_start, apply_answer_to_task, cancel_task), TaskBoard,  *)
(* SignalBus and SubAgentWorker.run.                                       *)
(*                                                                         *)
(* A task is a row of the board. Its work is done by runs: asyncio tasks   *)
(* that reserve an engine slot, build a SubAgentWorker and loop over model *)
(* steps, whose reports are published to the board. Several turns of the   *)
(* Supervisor may be in progress at a time (a spoken one, a queued chat, a *)
(* proactive one), so its operations interleave with the runs wherever     *)
(* they await: storing a row or a signal, a slot, the warm profile, a      *)
(* model step or tool. The signals waiting for the notifier are not part   *)
(* of this module, nor what the engine does with a model step.             *)
(***************************************************************************)
EXTENDS Integers, Sequences, FiniteSets, SequencesExt

CONSTANTS
  Ids,           (* task_ids; each is handed out once                         *)
  Topics,        (* capability and goal of a delegated task                   *)
  Unknown,       (* capability "unknown" of a row made up for a late signal   *)
  SubSlots,      (* engine slots for sub-agents: parallel_slots - 1           *)
  MaxActive,     (* TaskBoard.max_active                                      *)
  MaxCompleted,  (* TaskBoard.max_completed                                   *)
  MaxSteps,      (* max_steps of the capability bundle                        *)
  Outputs,       (* the reports one model step can contain                    *)
  Disturbances,  (* a subset of AllDisturbances                               *)
  MaxRuns        (* bound: asyncio tasks created for workers                  *)

(* answer, stop: [ANSWER_TO] and [STOP_TASK] directives; barge_in: the turn  *)
(* that spawns a task is cancelled, or fails, while it stores the row;       *)
(* db_error: a worker cannot write to Postgres; build_error: the warm        *)
(* profile of a worker cannot be read.                                       *)
AllDisturbances == {"answer", "stop", "barge_in", "db_error", "build_error"}

(* ERROR_USER is an ERROR whose payload says user_actionable.                *)
Kinds == {"STEP", "NEEDS_INFO", "DONE", "ERROR", "ERROR_USER"}
Terminal == {"done", "error", "cancelled"}             (* TERMINAL_STATUSES *)
Statuses == {"running", "paused", "waiting_user"} \cup Terminal

Runs == 1 .. MaxRuns
NoRun == 0
NoId == 0

ASSUME BoardAssumption ==
  MaxActive \in Nat \ {0} /\ MaxCompleted \in Nat \ {0}
ASSUME RunsAssumption == SubSlots \in Nat /\ MaxSteps \in Nat \ {0} /\ MaxRuns \in Nat
ASSUME OutputsAssumption == Outputs \subseteq Seq(Kinds)
ASSUME TopicsAssumption == Unknown \notin Topics
ASSUME DisturbancesAssumption == Disturbances \subseteq AllDisturbances

VARIABLES
  active,       (* TaskBoard._active, oldest row first                        *)
  completed,    (* TaskBoard._completed, newest row first                     *)
  spawn,        (* where spawn_subagent stands with each task                 *)
  run,          (* the asyncio tasks _run_with_slot                           *)
  workers,      (* Supervisor._workers                                        *)
  workerTasks,  (* Supervisor._worker_tasks                                   *)
  answers,      (* tasks with an entry in Supervisor._pending_task_answers    *)
  stopping,     (* cancel_task calls that wait for the run they cancelled     *)
  held,         (* tasks with an entry in EnginePool._task_slots              *)
  free          (* engine slots assign_slot can hand out                      *)

boardVars == <<active, completed>>
dictVars == <<workers, workerTasks, answers>>
slotVars == <<held, free>>
vars == <<active, completed, spawn, run, workers, workerTasks, answers,
          stopping, held, free>>

-----------------------------------------------------------------------------
Row == [id : Ids, topic : Topics \cup {Unknown}, status : Statuses]

(* created: scheduled, not yet entered; assigning, warming: in               *)
(* _run_with_slot; resumed: created by apply_answer_to_task for a worker     *)
(* that exists; the others are awaits in SubAgentWorker.run: registering the *)
(* row, model step, tools, storing a report, and, dying, storing the report  *)
(* that an except clause publishes.                                          *)
InWorker == {"registering", "stepping", "tools", "persisting", "dying"}
Stage == {"unused", "created", "assigning", "warming", "resumed", "gone"} \cup InWorker

Run == [id : Ids \cup {NoId}, topic : Topics \cup {Unknown}, at : Stage,
        reports : Seq(Kinds),   (* reports of this step still to be published *)
        last : BOOLEAN,         (* a terminal one has been published          *)
        steps : 0 .. MaxSteps,
        told : BOOLEAN,         (* an answer its next model step will read    *)
        cancelled : BOOLEAN,    (* task.cancel() not yet delivered            *)
        double : BOOLEAN]       (* history: made while a run of the same task *)
                                (* was still at work                          *)

(* registering: the row is on the board and being stored, the worker is not  *)
(* scheduled yet.                                                            *)
Spawning == [at : {"none", "registering", "over"}, topic : Topics \cup {Unknown}]

TypeOK ==
  /\ active \in Seq(Row) /\ completed \in Seq(Row)
  /\ spawn \in [Ids -> Spawning]
  /\ run \in [Runs -> Run]
  /\ workers \in [Ids -> Runs \cup {NoRun}]
  /\ workerTasks \in [Ids -> Runs \cup {NoRun}]
  /\ answers \subseteq Ids
  /\ stopping \in [Ids -> Runs \cup {NoRun}]
  /\ held \subseteq Ids
  /\ free \in 0 .. SubSlots

-----------------------------------------------------------------------------
(* TaskBoard                                                                *)

RowsOf(rows) == {rows[i] : i \in DOMAIN rows}
Position(rows, id) == {i \in DOMAIN rows : rows[i].id = id}

(* get: the active row of a task, else its newest completed one.             *)
Found(id) ==
  IF Position(active, id) # {}
    THEN {active[i] : i \in Position(active, id)}
    ELSE {completed[i] : i \in {j \in Position(completed, id) :
                                  \A k \in Position(completed, id) : j <= k}}

(* Variants named Bug... are what a definition would be with a plausible     *)
(* mistake in it; each shows that some property notices the mistake.         *)
BugFoundRunningNothing(topic) == {}

(* find_running                                                              *)
FoundRunning(topic) ==
  {r \in RowsOf(active) : r.topic = topic /\ r.status \notin Terminal}

(* _active is a dictionary: a task has one row in it at most.                *)
Place(rows, id) == CHOOSE i \in Position(rows, id) : TRUE
Without(rows, id) ==
  IF Position(rows, id) = {} THEN rows ELSE RemoveAt(rows, Place(rows, id))

(* register_task and _trim_active: the oldest rows beyond max_active are     *)
(* dropped into the completed list, which is not cut here.                   *)
Register(row) ==
  LET rows == Append(active, row)
      excess == IF Len(rows) > MaxActive THEN Len(rows) - MaxActive ELSE 0
      Dropped(i) == [rows[excess + 1 - i] EXCEPT !.status = "error"]
  IN  /\ active' = SubSeq(rows, excess + 1, Len(rows))
      /\ completed' = [i \in 1 .. excess |-> Dropped(i)] \o completed

(* _finalize *)
Finalize(row) ==
  LET rows == <<row>> \o completed
  IN  /\ active' = Without(active, row.id)
      /\ completed' = IF Len(rows) > MaxCompleted THEN SubSeq(rows, 1, MaxCompleted) ELSE rows

BugStatusNeverPaused(kind) ==
  CASE kind \in {"STEP", "NEEDS_INFO"} -> "running"
    [] kind = "DONE"       -> "done"
    [] kind = "ERROR"      -> "error"
    [] kind = "ERROR_USER" -> "waiting_user"

(* upsert_from_signal: a signal of a task without an active row makes one up. *)
StatusAfter(kind) ==
  CASE kind = "STEP"       -> "running"
    [] kind = "NEEDS_INFO" -> "paused"
    [] kind = "DONE"       -> "done"
    [] kind = "ERROR"      -> "error"
    [] kind = "ERROR_USER" -> "waiting_user"

Upsert(id, kind) ==
  LET known == Position(active, id)
      topic == IF known = {} THEN Unknown ELSE active[Place(active, id)].topic
      row == [id |-> id, topic |-> topic, status |-> StatusAfter(kind)]
  IN  IF kind \in {"DONE", "ERROR", "ERROR_USER"}
        THEN Finalize(row)
        ELSE /\ active' = IF known = {} THEN Append(active, row)
                          ELSE [active EXCEPT ![Place(active, id)] = row]
             /\ UNCHANGED completed

(* mark_cancelled *)
MarkCancelled(id) ==
  IF Position(active, id) = {}
    THEN UNCHANGED boardVars
    ELSE Finalize([active[Place(active, id)] EXCEPT !.status = "cancelled"])

-----------------------------------------------------------------------------
(* Runs and slots                                                           *)

Unused == [id |-> NoId, topic |-> Unknown, at |-> "unused", reports |-> <<>>,
           last |-> FALSE, steps |-> 0, told |-> FALSE, cancelled |-> FALSE,
           double |-> FALSE]

Alive(r) == run[r].at \notin {"unused", "gone"}
RunsOf(id) == {r \in Runs : Alive(r) /\ run[r].id = id}

(* A task that has, or had, two runs at work at a time.                       *)
Doubled(id) == \E r \in Runs : run[r].id = id /\ run[r].double

Pending(id) == workerTasks[id] # NoRun /\ Alive(workerTasks[id])
NextRun(r) == run[r].at = "unused" /\ \A q \in 1 .. r - 1 : run[q].at # "unused"

BugCreateRunUnrecorded(id, topic, at, told) ==
  /\ \E r \in Runs :
       /\ NextRun(r)
       /\ run' = [run EXCEPT ![r] = [Unused EXCEPT !.id = id, !.topic = topic, !.at = at,
                                                   !.told = told, !.double = RunsOf(id) # {}]]
  /\ UNCHANGED workerTasks

(* asyncio.create_task                                                       *)
CreateRun(id, topic, at, told) ==
  \E r \in Runs :
    /\ NextRun(r)
    /\ run' = [run EXCEPT ![r] = [Unused EXCEPT !.id = id, !.topic = topic, !.at = at,
                                                !.told = told, !.double = RunsOf(id) # {}]]
    /\ workerTasks' = [workerTasks EXCEPT ![id] = r]

(* _schedule_worker_start *)
Schedule(id, topic, answered) ==
  \/ /\ Pending(id)
     /\ answers' = IF answered THEN answers \cup {id} ELSE answers
     /\ UNCHANGED <<run, workerTasks>>
  \/ /\ ~Pending(id)
     /\ CreateRun(id, topic, "created", answered)
     /\ UNCHANGED answers

(* EnginePool.free_slot *)
FreeSlot(id) ==
  /\ held' = held \ {id}
  /\ free' = IF id \in held THEN free + 1 ELSE free

(* The finally block of _run_with_slot takes the task's entries out of the   *)
(* dictionaries, whichever run put them there.                               *)
Leave(r) ==
  /\ run' = [run EXCEPT ![r] = [Unused EXCEPT !.id = run[r].id, !.told = run[r].told,
                                              !.double = run[r].double, !.at = "gone"]]
  /\ workers' = [workers EXCEPT ![run[r].id] = NoRun]
  /\ workerTasks' = [workerTasks EXCEPT ![run[r].id] = NoRun]

BugFinishKeepsSlot(r) == Leave(r) /\ UNCHANGED slotVars

(* SubAgentWorker.run is over: its finally block, then that of the run.      *)
Finish(r) == FreeSlot(run[r].id) /\ Leave(r)

Moved(r, at) == run' = [run EXCEPT ![r].at = at]

Init ==
  /\ active = <<>> /\ completed = <<>>
  /\ spawn = [id \in Ids |-> [at |-> "none", topic |-> Unknown]]
  /\ run = [r \in Runs |-> Unused]
  /\ workers = [id \in Ids |-> NoRun]
  /\ workerTasks = [id \in Ids |-> NoRun]
  /\ answers = {}
  /\ stopping = [id \in Ids |-> NoRun]
  /\ held = {} /\ free = SubSlots

-----------------------------------------------------------------------------
(* spawn_subagent, called by a turn for a [DELEGATE] directive               *)

Spawn(id, topic) ==
  /\ spawn[id].at = "none"
  /\ FoundRunning(topic) = {}
  /\ spawn' = [spawn EXCEPT ![id] = [at |-> "registering", topic |-> topic]]
  /\ Register([id |-> id, topic |-> topic, status |-> "running"])
  /\ UNCHANGED <<run, dictVars, stopping, slotVars>>

SpawnStores(id) ==
  /\ spawn[id].at = "registering"
  /\ spawn' = [spawn EXCEPT ![id].at = "over"]
  /\ Schedule(id, spawn[id].topic, FALSE)
  /\ UNCHANGED <<boardVars, workers, stopping, slotVars>>

(* The turn is cancelled, or the write fails, while the row is being stored: *)
(* the row stays on the board.                                               *)
SpawnAborts(id) ==
  /\ "barge_in" \in Disturbances
  /\ spawn[id].at = "registering"
  /\ spawn' = [spawn EXCEPT ![id].at = "over"]
  /\ UNCHANGED <<boardVars, run, dictVars, stopping, slotVars>>

-----------------------------------------------------------------------------
(* _run_with_slot up to SubAgentWorker.run                                   *)

BugGetsSlotUnasked(r) ==
  /\ run[r].at \in {"created", "assigning"} /\ ~run[r].cancelled
  /\ free' = free - 1
  /\ held' = held \cup {run[r].id}
  /\ Moved(r, "warming")
  /\ UNCHANGED <<boardVars, spawn, dictVars, stopping>>

GetsSlot(r) ==
  /\ run[r].at \in {"created", "assigning"} /\ ~run[r].cancelled
  /\ free > 0
  /\ free' = free - 1
  /\ held' = held \cup {run[r].id}
  /\ Moved(r, "warming")
  /\ UNCHANGED <<boardVars, spawn, dictVars, stopping>>

WaitsForSlot(r) ==
  /\ run[r].at = "created" /\ ~run[r].cancelled
  /\ free = 0
  /\ Moved(r, "assigning")
  /\ UNCHANGED <<boardVars, spawn, dictVars, stopping, slotVars>>

(* The warm profile is there; a capability SubAgentWorker does not know is   *)
(* an exception of its constructor.                                          *)
BuildFails(r) ==
  /\ run[r].at = "warming" /\ ~run[r].cancelled
  /\ run[r].topic = Unknown \/ "build_error" \in Disturbances
  /\ FreeSlot(run[r].id)
  /\ Leave(r)
  /\ UNCHANGED <<boardVars, spawn, answers, stopping>>

(* worker.run() starts, and registers the task unless it has a row.          *)
EnterWorker(r, told) ==
  \/ /\ Found(run[r].id) # {}
     /\ run' = [run EXCEPT ![r].at = "stepping", ![r].told = FALSE]
     /\ UNCHANGED boardVars
  \/ /\ Found(run[r].id) = {}
     /\ Register([id |-> run[r].id, topic |-> run[r].topic, status |-> "running"])
     /\ run' = [run EXCEPT ![r].at = "registering", ![r].told = told]

WorkerStarts(r) ==
  /\ run[r].at = "warming" /\ ~run[r].cancelled
  /\ run[r].topic # Unknown
  /\ workers' = [workers EXCEPT ![run[r].id] = r]
  /\ answers' = answers \ {run[r].id}
  /\ EnterWorker(r, run[r].told \/ run[r].id \in answers)
  /\ UNCHANGED <<spawn, workerTasks, stopping, slotVars>>

WorkerResumes(r) ==
  /\ run[r].at = "resumed" /\ ~run[r].cancelled
  /\ EnterWorker(r, run[r].told)
  /\ UNCHANGED <<spawn, dictVars, stopping, slotVars>>

Registered(r) ==
  /\ run[r].at = "registering" /\ ~run[r].cancelled
  /\ run' = [run EXCEPT ![r].at = "stepping", ![r].told = FALSE]
  /\ UNCHANGED <<boardVars, spawn, dictVars, stopping, slotVars>>

-----------------------------------------------------------------------------
(* SubAgentWorker.run                                                       *)

Ends(kind) == kind # "STEP"

(* SignalBus.publish: the board changes at once, then the signal is stored.  *)
Publish(r, kind, rest) ==
  /\ Upsert(run[r].id, kind)
  /\ run' = [run EXCEPT ![r].at = "persisting", ![r].reports = rest,
                        ![r].last = @ \/ Ends(kind)]
  /\ UNCHANGED <<spawn, dictVars, stopping, slotVars>>

(* A model step returns: its reports are published one by one, the first now. *)
(* A seed tool publishes in the same way.                                     *)
StepReports(r, reports) ==
  /\ run[r].at = "stepping" /\ ~run[r].cancelled
  /\ reports # <<>>
  /\ Publish(r, Head(reports), Tail(reports))

(* No report: tool calls, or nothing at all, which the worker retries.       *)
StepReportsNothing(r) ==
  /\ run[r].at = "stepping" /\ ~run[r].cancelled
  /\ Moved(r, "tools")
  /\ UNCHANGED <<boardVars, spawn, dictVars, stopping, slotVars>>

NextReport(r) ==
  /\ run[r].at = "persisting" /\ ~run[r].cancelled
  /\ run[r].reports # <<>>
  /\ Publish(r, Head(run[r].reports), Tail(run[r].reports))

ReportsDone(r) ==
  /\ run[r].at = "persisting" /\ ~run[r].cancelled
  /\ run[r].reports = <<>> /\ ~run[r].last
  /\ Moved(r, "tools")
  /\ UNCHANGED <<boardVars, spawn, dictVars, stopping, slotVars>>

(* The worker has paused, is done, or has failed.                            *)
WorkerReturns(r) ==
  /\ run[r].at = "persisting" /\ ~run[r].cancelled
  /\ run[r].reports = <<>> /\ run[r].last
  /\ Finish(r)
  /\ UNCHANGED <<boardVars, spawn, answers, stopping>>

(* The next model step reads the transcript, and any answer in it.           *)
NextStep(r) ==
  /\ run[r].at = "tools" /\ ~run[r].cancelled
  /\ run[r].steps + 1 < MaxSteps
  /\ run' = [run EXCEPT ![r].at = "stepping", ![r].told = FALSE, ![r].steps = @ + 1]
  /\ UNCHANGED <<boardVars, spawn, dictVars, stopping, slotVars>>

BugStepLimitSilent(r) ==
  /\ run[r].at = "tools" /\ ~run[r].cancelled
  /\ run[r].steps + 1 = MaxSteps
  /\ Finish(r)
  /\ UNCHANGED <<boardVars, spawn, answers, stopping>>

StepLimit(r) ==
  /\ run[r].at = "tools" /\ ~run[r].cancelled
  /\ run[r].steps + 1 = MaxSteps
  /\ Publish(r, "ERROR", <<>>)

(* An exception of the model step, a tool or a write, or task.cancel(): the  *)
(* except clauses publish an ERROR.                                          *)
WorkerFails(r) ==
  /\ \/ run[r].at \in {"stepping", "tools"}
     \/ run[r].at \in {"registering", "persisting"} /\ "db_error" \in Disturbances
     \/ run[r].at \in InWorker \ {"dying"} /\ run[r].cancelled
  /\ Upsert(run[r].id, "ERROR")
  /\ run' = [run EXCEPT ![r].at = "dying", ![r].reports = <<>>, ![r].cancelled = FALSE]
  /\ UNCHANGED <<spawn, dictVars, stopping, slotVars>>

(* That ERROR is stored, or is not, or task.cancel() cuts it short.          *)
WorkerDies(r) ==
  /\ run[r].at = "dying"
  /\ Finish(r)
  /\ UNCHANGED <<boardVars, spawn, answers, stopping>>

(* task.cancel() before SubAgentWorker.run: a run not yet entered never is.  *)
CancelledEarly(r) ==
  /\ run[r].cancelled
  /\ \/ /\ run[r].at \in {"created", "resumed"}
        /\ Moved(r, "gone")
        /\ UNCHANGED <<workers, workerTasks, slotVars>>
     \/ run[r].at = "assigning" /\ Leave(r) /\ UNCHANGED slotVars
     \/ run[r].at = "warming" /\ FreeSlot(run[r].id) /\ Leave(r)
  /\ UNCHANGED <<boardVars, spawn, answers, stopping>>

-----------------------------------------------------------------------------
BugAnswerAnyStatus(id) ==
  /\ "answer" \in Disturbances
  /\ spawn[id].at # "none"
  /\ workers[id] = NoRun
  /\ \E row \in Found(id) : Schedule(id, row.topic, TRUE)
  /\ UNCHANGED <<boardVars, spawn, workers, stopping, slotVars>>

(* apply_answer_to_task: a worker gets the answer in its transcript, a       *)
(* paused task gets a new run; then a paused row is running again.           *)
Answer(id) ==
  /\ "answer" \in Disturbances
  /\ spawn[id].at # "none"
  /\ LET w == workers[id]
     IN  \/ /\ w # NoRun /\ Pending(id)
            /\ run' = [run EXCEPT ![w].told = TRUE]
            /\ UNCHANGED <<workerTasks, answers>>
         \/ /\ w # NoRun /\ ~Pending(id)
            /\ CreateRun(id, run[w].topic, "resumed", TRUE)
            /\ UNCHANGED answers
         \/ /\ w = NoRun
            /\ \E row \in Found(id) :
                 /\ row.status \in {"paused", "waiting_user"}
                 /\ Schedule(id, row.topic, TRUE)
  /\ active' = [i \in DOMAIN active |->
                  IF active[i].id = id /\ active[i].status = "paused"
                    THEN [active[i] EXCEPT !.status = "running"] ELSE active[i]]
  /\ UNCHANGED <<completed, spawn, workers, stopping, slotVars>>

(* cancel_task: a live run is cancelled and waited for; the slot is freed    *)
(* and the row marked only then, or at once if no run is recorded, as while  *)
(* another cancel_task waits for it.                                         *)
StopTask(id) ==
  /\ "stop" \in Disturbances
  /\ spawn[id].at # "none" /\ (Pending(id) => stopping[id] = NoRun)
  /\ workers' = [workers EXCEPT ![id] = NoRun]
  /\ workerTasks' = [workerTasks EXCEPT ![id] = NoRun]
  /\ answers' = answers \ {id}
  /\ \/ /\ Pending(id)
        /\ run' = [run EXCEPT ![workerTasks[id]].cancelled = TRUE]
        /\ stopping' = [stopping EXCEPT ![id] = workerTasks[id]]
        /\ UNCHANGED <<boardVars, slotVars>>
     \/ /\ ~Pending(id)
        /\ FreeSlot(id)
        /\ MarkCancelled(id)
        /\ UNCHANGED <<run, stopping>>
  /\ UNCHANGED spawn

BugStopEndsAtOnce(id) ==
  /\ stopping[id] # NoRun
  /\ stopping' = [stopping EXCEPT ![id] = NoRun]
  /\ FreeSlot(id)
  /\ MarkCancelled(id)
  /\ UNCHANGED <<spawn, run, dictVars>>

StopEnds(id) ==
  /\ stopping[id] # NoRun /\ ~Alive(stopping[id])
  /\ stopping' = [stopping EXCEPT ![id] = NoRun]
  /\ FreeSlot(id)
  /\ MarkCancelled(id)
  /\ UNCHANGED <<spawn, run, dictVars>>

(* Only CancelledError is caught: if the run cannot store its last ERROR,    *)
(* that exception ends cancel_task as well, and the row is not marked.       *)
StopFails(id) ==
  /\ "db_error" \in Disturbances
  /\ stopping[id] # NoRun
  /\ run[stopping[id]].at = "dying" /\ ~run[stopping[id]].cancelled
  /\ Finish(stopping[id])
  /\ stopping' = [stopping EXCEPT ![id] = NoRun]
  /\ UNCHANGED <<boardVars, spawn, answers>>

-----------------------------------------------------------------------------
RunStep(r) ==
  \/ GetsSlot(r) \/ WaitsForSlot(r) \/ BuildFails(r)
  \/ WorkerStarts(r) \/ WorkerResumes(r) \/ Registered(r)
  \/ \E reports \in Outputs : StepReports(r, reports)
  \/ StepReportsNothing(r) \/ NextReport(r) \/ ReportsDone(r) \/ WorkerReturns(r)
  \/ NextStep(r) \/ StepLimit(r) \/ WorkerFails(r) \/ WorkerDies(r) \/ CancelledEarly(r)

SpawnStep(id) == SpawnStores(id) \/ SpawnAborts(id)

Next ==
  \/ \E r \in Runs : RunStep(r)
  \/ \E id \in Ids : (\E topic \in Topics : Spawn(id, topic)) \/ SpawnStep(id)
  \/ \E id \in Ids : Answer(id) \/ StopTask(id) \/ StopEnds(id) \/ StopFails(id)

Spec == Init /\ [][Next]_vars

(* The event loop runs what is ready; llama-server, tools and Postgres       *)
(* answer or fail: of llama-server this is an assumption, since the pool     *)
(* waits for it without a timeout. No turn has to delegate, answer or stop   *)
(* anything.                                                                 *)
Fairness ==
  /\ \A r \in Runs : WF_vars(RunStep(r))
  /\ \A id \in Ids : WF_vars(SpawnStep(id)) /\ WF_vars(StopEnds(id))

FairSpec == Spec /\ Fairness

-----------------------------------------------------------------------------
(* Properties                                                               *)

(* A run that may still work on its task, not one on its way out.            *)
Working(r) == Alive(r) /\ run[r].at # "dying" /\ ~run[r].last /\ ~run[r].cancelled

Attended(id) == spawn[id].at = "registering" \/ RunsOf(id) # {} \/ stopping[id] # NoRun

(* "Release slot on DONE, ERROR, cancel, or worker crash" (doc/step-08.md): a *)
(* slot is recorded only for a task that a run works on, and a slot that is  *)
(* not recorded for a task is free. The second part fails once a task has    *)
(* two runs at a time, of which the later takes the record of the earlier    *)
(* one's slot and the earlier gives back the later one's.                    *)
HeldIsUsed ==
  /\ \A id \in held : RunsOf(id) # {}
  /\ (\A id \in Ids : ~Doubled(id)) => free + Cardinality(held) = SubSlots

(* find_running: "Avoid duplicate background workers for the same goal".      *)
OneRunPerTopic ==
  \A q, r \in Runs : Working(q) /\ Working(r) /\ run[q].topic = run[r].topic
                     => run[q].id = run[r].id

(* "No ghost tasks" (PLAN.md): what the board shows as running is being      *)
(* started, worked on or stopped by somebody.                                *)
RunningIsAttended ==
  \A i \in DOMAIN active : active[i].status = "running" => Attended(active[i].id)

(* [STOP_TASK] finds every run there is to stop, unless its task has, or has  *)
(* had, two at a time: the one that ends forgets the other's entries.        *)
Stoppable ==
  \A r \in Runs : Working(r) => workerTasks[run[r].id] = r \/ Doubled(run[r].id)

(* "[ANSWER_TO ...] resumes worker with injected answer" (doc/step-08.md): a *)
(* run does not end with an answer it has not read.                          *)
AnswersRead == \A r \in Runs : run[r].at = "gone" => ~run[r].told

(* When cancel_task comes back from a run it cancelled, no run that was at    *)
(* work on the task when it was called still is, only one that an answer has *)
(* made since (run numbers grow). The exception is a task that has had two   *)
(* runs at a time. (A stop that finds no run, as while the row is stored,    *)
(* does not keep one from being made.)                                       *)
StopIsFinal ==
  [][\A id \in Ids : stopping[id] # NoRun /\ stopping'[id] = NoRun
        => (\A r \in RunsOf(id)' : r > stopping[id]) \/ Doubled(id)']_vars

(* A task does not stay "running" for ever: it is done, has failed or waits  *)
(* for the user in the end.                                                  *)
RunningSettles ==
  \A id \in Ids :
    (\E row \in Found(id) : row.status = "running")
      ~> (\A row \in Found(id) : row.status # "running")

-----------------------------------------------------------------------------
(* What a task looks like to Main and to the client: the status of its row.  *)
StatusOf(id) ==
  IF spawn[id].at = "none" THEN "new"
  ELSE IF Found(id) = {} THEN "forgotten"
  ELSE (CHOOSE row \in Found(id) : TRUE).status

Lifecycle == INSTANCE TaskLifecycle WITH status <- [id \in Ids |-> StatusOf(id)]
LifecycleSpec == Lifecycle!Spec
=============================================================================
