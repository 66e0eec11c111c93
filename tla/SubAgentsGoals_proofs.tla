------------------------ MODULE SubAgentsGoals_proofs ------------------------
(* A theorem about tasks and their goals in SubAgents: no two runs work on    *)
(* one goal. Tasks are answered, interrupted and fail here, but not stopped;  *)
(* the hypotheses are what the code needs for it, and each is named below.    *)
EXTENDS SubAgents_proofs

(* Nobody stops a task: cancel_task forgets the run it waits for, so that an  *)
(* answer can start another one meanwhile.                                   *)
NoStops == "stop" \notin Disturbances

(* No report is an error the user can act on: a task that waits for the user  *)
(* is not on the board any more, where find_running looks for its goal.       *)
Plain == Kinds \ {"ERROR_USER"}
PlainReports == Outputs \subseteq Seq(Plain)

(* No task is put on a full board, which would drop a task that is running.   *)
Roomy == Len(active) < MaxActive \/ IdsOf(active') \subseteq IdsOf(active)

-----------------------------------------------------------------------------
(* The inductive invariant                                                  *)

NothingStopped == (\A id \in Ids : stopping[id] = NoRun) /\ (\A r \in Runs : ~run[r].cancelled)

ReportsPlain == \A r \in Runs : Alive(r) => run[r].reports \in Seq(Plain)

(* The dictionaries know the run of each task and its worker.                 *)
TaskIsRun ==
  \A id \in Ids : workerTasks[id] # NoRun => run[workerTasks[id]].at # "unused" /\ run[workerTasks[id]].id = id
LiveIsTask == \A r \in Runs : Alive(r) => workerTasks[run[r].id] = r
WorkerIsLive == \A id \in Ids : workers[id] # NoRun => Alive(workers[id]) /\ run[workers[id]].id = id

DictsOK == TaskIsRun /\ LiveIsTask /\ WorkerIsLive

(* The board: what is active runs or is paused, what is completed has ended,  *)
(* and no goal is that of two active tasks.                                  *)
ActiveLives == \A row \in RowsOf(active) : row.status \in {"running", "paused"}
CompletedEnded == \A row \in RowsOf(completed) : row.status \in {"done", "error"}
OneTaskPerTopic == \A p, q \in RowsOf(active) : p.topic = q.topic => p.id = q.id

BoardLives == ActiveLives /\ CompletedEnded /\ OneTaskPerTopic

(* A run that works has its row on the board, and so has a task that is being *)
(* registered, which no run works on yet.                                    *)
HasRow(id, topic) == [id |-> id, topic |-> topic, status |-> "running"] \in RowsOf(active)

WorkingHasRow == \A r \in Runs : Working(r) => HasRow(run[r].id, run[r].topic)
SpawnHasRow ==
  \A id \in Ids : spawn[id].at = "registering" => RunsOf(id) = {} /\ HasRow(id, spawn[id].topic)

GoalInv ==
  /\ ReportsOK /\ ReportsPlain /\ NothingStopped
  /\ DictsOK /\ BoardLives /\ WorkingHasRow /\ SpawnHasRow

LEMMA GoalInvOneRun == ASSUME GoalInv PROVE OneRunPerTopic
<1> SUFFICES ASSUME NEW q \in Runs, NEW r \in Runs, Working(q), Working(r), run[q].topic = run[r].topic
             PROVE  run[q].id = run[r].id
  BY DEF OneRunPerTopic
<1>1. PICK p \in RowsOf(active) : p = [id |-> run[q].id, topic |-> run[q].topic, status |-> "running"]
  BY DEF GoalInv, WorkingHasRow, HasRow
<1>2. PICK s \in RowsOf(active) : s = [id |-> run[r].id, topic |-> run[r].topic, status |-> "running"]
  BY DEF GoalInv, WorkingHasRow, HasRow
<1>3. QED
  BY <1>1, <1>2 DEF GoalInv, BoardLives, OneTaskPerTopic

LEMMA InitGoalInv == ASSUME Init PROVE GoalInv
<1>1. ReportsOK /\ ReportsPlain /\ WorkingHasRow /\ SpawnHasRow
  BY UnusedType DEF Init, ReportsOK, LastIsLast, ReportsEndLast, ReportsPlain, WorkingHasRow, SpawnHasRow, Working, Alive
<1>2. NothingStopped /\ DictsOK
  BY UnusedType DEF Init, NothingStopped, DictsOK, TaskIsRun, LiveIsTask, WorkerIsLive, Alive
<1>3. BoardLives
  BY DEF Init, BoardLives, ActiveLives, CompletedEnded, OneTaskPerTopic, RowsOf
<1>4. QED
  BY <1>1, <1>2, <1>3 DEF GoalInv

-----------------------------------------------------------------------------
(* The steps of a run                                                       *)

LEMMA SaysPlain ==
  ASSUME PlainReports, RunsOK, ReportsPlain, NEW r \in Runs, Alive(r), NEW kind, NEW rest, Says(r, kind, rest)
  PROVE  kind \in Plain /\ rest \in Seq(Plain)
<1>1. CASE run[r].at = "tools" /\ kind = "ERROR" /\ rest = <<>>
  BY <1>1 DEF Plain, Kinds
<1>2. CASE \E reports \in Seq(Plain) : reports # <<>> /\ kind = Head(reports) /\ rest = Tail(reports)
  BY <1>2, HeadTailProperties
<1>3. QED
  BY <1>1, <1>2 DEF Says, PlainReports, ReportsPlain

LEMMA RunStepDicts ==
  ASSUME IInv, NothingStopped, DictsOK, NEW r \in Runs, RunStep(r)
  PROVE  NothingStopped' /\ DictsOK'
<1>1. RunsOK /\ DictTypes /\ RunEffect(r)
  BY RunStepEffect DEF IInv, Effect
<1>2. /\ Alive(r) /\ \A q \in Runs : q # r => run'[q] = run[q]
      /\ run'[r].id = run[r].id /\ run'[r].at # "unused" /\ stopping' = stopping
  BY <1>1 DEF RunEffect, RunChange, RunsOK, RunTypes
<1>3. NothingStopped'
  BY <1>1, <1>2 DEF NothingStopped, RunEffect, RunChange
<1>4. TaskIsRun'
  <2>1. \A id \in Ids : workerTasks'[id] # NoRun => workerTasks'[id] = workerTasks[id]
    BY <1>1 DEF RunEffect, RunChange, DictTypes
  <2>2. QED
    BY <1>1, <1>2, <2>1 DEF DictsOK, TaskIsRun, DictTypes
<1>5. LiveIsTask'
  <2> SUFFICES ASSUME NEW q \in Runs, Alive(q)' PROVE workerTasks'[run'[q].id] = q
    BY DEF LiveIsTask
  <2>1. Alive(q) /\ run'[q].id = run[q].id /\ workerTasks[run[q].id] = q
    BY <1>2 DEF Alive, DictsOK, LiveIsTask
  <2>2. CASE q = r
    BY <1>1, <2>1, <2>2 DEF RunEffect, RunChange, Alive
  <2>3. CASE q # r
    <3>1. run[q].id # run[r].id /\ run[q].id \in Ids
      BY <1>1, <1>2, <2>1, <2>3, RunFields DEF DictsOK, LiveIsTask, Alive
    <3>2. QED
      BY <1>1, <2>1, <3>1 DEF RunEffect, RunChange, DictTypes
  <2>4. QED
    BY <2>2, <2>3
<1>6. WorkerIsLive'
  <2> SUFFICES ASSUME NEW id \in Ids, workers'[id] # NoRun
               PROVE  /\ run'[workers'[id]].at \notin {"unused", "gone"}
                      /\ run'[workers'[id]].id = id
    BY DEF WorkerIsLive, Alive
  <2>1. CASE workers'[id] # r
    <3>1. workers'[id] = workers[id]
      BY <1>1, <2>1 DEF RunEffect, RunChange, DictTypes
    <3>2. workers[id] \in Runs
      BY <1>1, <3>1 DEF DictTypes
    <3>3. QED
      BY <1>2, <2>1, <3>1, <3>2 DEF DictsOK, WorkerIsLive, Alive
  <2>2. CASE workers'[id] = r
    <3>1. run[r].id = id
      BY <1>1, <1>2, <2>2 DEF RunEffect, RunChange, DictTypes, DictsOK, WorkerIsLive
    <3>2. ~Departs(r)
      BY <1>1, <2>2, <3>1 DEF Departs, DictTypes, NothingStopped, Runs, NoRun
    <3>3. run'[r].at # "gone"
      BY <1>1, <3>2, RunStepCases DEF MovesOn, Reenters, Fails, Reports
    <3>4. QED
      BY <1>2, <2>2, <3>1, <3>3 DEF Alive
  <2>3. QED
    BY <2>1, <2>2
<1>7. QED
  BY <1>3, <1>4, <1>5, <1>6 DEF DictsOK

(* A step of a run leaves the board as it is, or changes the row of its task  *)
(* to what a report makes of it: a run that is to register its task finds it  *)
(* registered.                                                               *)
LEMMA RunStepBoard ==
  ASSUME PlainReports, EndsLast, IInv, GoalInv, NEW r \in Runs, RunStep(r)
  PROVE  \/ UNCHANGED boardVars /\ (Working(r)' => Working(r))
         \/ /\ Working(r)
            /\ \E kind \in Plain : Upsert(run[r].id, kind) /\ (Working(r)' => kind = "STEP")
         \/ Upsert(run[r].id, "ERROR") /\ ~Working(r)'
<1>1. RunsOK /\ BoardOK /\ RunEffect(r) /\ Alive(r) /\ ~run[r].cancelled
  BY RunStepEffect DEF IInv, Effect, RunEffect, RunChange, GoalInv, NothingStopped
<1>2. CASE MovesOn(r)
  BY <1>1, <1>2 DEF MovesOn, SameReports, Working
<1>3. CASE Reenters(r)
  <2>1. Working(r)
    BY <1>1, <1>3 DEF Reenters, Working, GoalInv, ReportsOK, LastIsLast
  <2>2. run[r].id \in IdsOf(active)
    <3>1. PICK row \in RowsOf(active) : row = [id |-> run[r].id, topic |-> run[r].topic, status |-> "running"]
      BY <2>1 DEF GoalInv, WorkingHasRow, HasRow
    <3>2. QED
      BY <3>1 DEF IdsOf
  <2>3. Found(run[r].id) = {}
    BY <1>3 DEF Reenters, Registers
  <2>4. QED
    BY <1>1, <2>2, <2>3, FoundNothing
<1>4. CASE Fails(r)
  BY <1>1, <1>4 DEF Fails, Working, InWorker, GoalInv, ReportsOK, LastIsLast
<1>5. CASE Departs(r)
  BY <1>5 DEF Departs, Working, Alive
<1>6. CASE \E kind \in Kinds, rest \in Seq(Kinds) : Reports(r, kind, rest)
  <2>1. PICK kind, rest : Reports(r, kind, rest)
    BY <1>6
  <2>2. Says(r, kind, rest) /\ Upsert(run[r].id, kind) /\ run'[r].last = (run[r].last \/ Ends(kind))
    BY <2>1 DEF Reports
  <2>3. kind \in Plain /\ ~run[r].last
    BY <1>1, <2>2, SaysPlain, SaysLast DEF GoalInv
  <2>4. Working(r)
    BY <1>1, <2>2, <2>3 DEF Working, Says
  <2>5. Working(r)' => kind = "STEP"
    BY <2>2, <2>3 DEF Working, Ends
  <2>6. QED
    BY <2>2, <2>3, <2>4, <2>5
<1>7. QED
  BY <1>1, <1>2, <1>3, <1>4, <1>5, <1>6, RunStepCases

(* Two alive runs are of two tasks, and a task being registered has none.     *)
LEMMA OtherTasks ==
  ASSUME IInv, GoalInv, NEW r \in Runs, Alive(r)
  PROVE  /\ run[r].id \in Ids
         /\ \A q \in Runs : Alive(q) /\ q # r => run[q].id # run[r].id
         /\ spawn[run[r].id].at # "registering"
  BY RunFields DEF IInv, GoalInv, DictsOK, LiveIsTask, SpawnHasRow, RunsOf, Alive

LEMMA HadRow ==
  ASSUME BoardOK, NEW id, NEW topic, HasRow(id, topic)
  PROVE  \E row \in RowsOf(active) : row.id = id /\ row.topic = topic /\ row.status = "running"
  BY DEF HasRow

LEMMA RunStepGoalInv ==
  ASSUME PlainReports, EndsLast, IInv, GoalInv, NEW r \in Runs, RunStep(r)
  PROVE  GoalInv'
<1>1. RunsOK /\ BoardOK /\ RunEffect(r) /\ Alive(r)
  BY RunStepEffect DEF IInv, Effect, RunEffect, RunChange
<1>2. /\ \A q \in Runs : q # r => run'[q] = run[q]
      /\ run'[r].id = run[r].id /\ (Alive(r)' => run'[r].topic = run[r].topic) /\ spawn' = spawn
  BY <1>1 DEF RunEffect, RunChange, RunsOK, RunTypes, Alive
<1>3. ReportsOK' /\ NothingStopped' /\ DictsOK'
  BY <1>1, RunStepReportsOK, RunStepDicts DEF GoalInv
<1>4. ReportsPlain'
  <2> SUFFICES ASSUME Alive(r)' PROVE run'[r].reports \in Seq(Plain)
    BY <1>2 DEF GoalInv, ReportsPlain, Alive
  <2>1. CASE MovesOn(r) \/ Reenters(r)
    BY <1>1, <2>1 DEF MovesOn, Reenters, SameReports, GoalInv, ReportsPlain
  <2>2. CASE Fails(r)
    BY <2>2, EmptySeq DEF Fails
  <2>3. CASE Departs(r)
    BY <2>3 DEF Departs, Alive
  <2>4. CASE \E kind \in Kinds, rest \in Seq(Kinds) : Reports(r, kind, rest)
    BY <1>1, <2>4, SaysPlain DEF Reports, GoalInv
  <2>5. QED
    BY <1>1, <2>1, <2>2, <2>3, <2>4, RunStepCases
<1>5. /\ run[r].id \in Ids /\ \A q \in Runs : Alive(q) /\ q # r => run[q].id # run[r].id
      /\ spawn[run[r].id].at # "registering"
  BY <1>1, OtherTasks
<1>6. \A id \in Ids : RunsOf(id) = {} => RunsOf(id)' = {}
  BY <1>1, <1>2 DEF RunsOf, Alive
<1>7. CASE UNCHANGED boardVars /\ (Working(r)' => Working(r))
  <2>1. BoardLives'
    BY <1>7 DEF GoalInv, BoardLives, ActiveLives, CompletedEnded, OneTaskPerTopic, RowsOf, boardVars
  <2>2. WorkingHasRow'
    BY <1>2, <1>7 DEF GoalInv, WorkingHasRow, HasRow, Working, Alive, RowsOf, boardVars
  <2>3. SpawnHasRow'
    BY <1>2, <1>6, <1>7 DEF GoalInv, SpawnHasRow, HasRow, RowsOf, boardVars
  <2>4. QED
    BY <1>3, <1>4, <2>1, <2>2, <2>3 DEF GoalInv
<1>8. ASSUME NEW kind \in Plain, Upsert(run[r].id, kind), ~Finalizes(kind) => Working(r),
             Working(r)' => kind = "STEP"
      PROVE  GoalInv'
  <2>1. kind \in Kinds
    BY DEF Plain
  <2> DEFINE Row1(topic) == [id |-> run[r].id, topic |-> topic, status |-> StatusAfter(kind)]
  <2>2. PICK topic \in Topics \cup {Unknown} :
          /\ \A q \in RowsOf(active) : q.id = run[r].id => q.topic = topic
          /\ RowsOf(active') = Others(active, run[r].id) \cup (IF Finalizes(kind) THEN {} ELSE {Row1(topic)})
          /\ RowsOf(completed') \subseteq RowsOf(completed) \cup {Row1(topic)}
          /\ ~Finalizes(kind) => UNCHANGED completed
    BY <1>1, <1>5, <1>8, <2>1, UpsertStep
  <2>3. ~Finalizes(kind) => /\ topic = run[r].topic
                       /\ \E row \in RowsOf(active) : row.id = run[r].id /\ row.topic = topic
    <3> SUFFICES ASSUME ~Finalizes(kind)
                 PROVE  /\ topic = run[r].topic
                        /\ \E row \in RowsOf(active) : row.id = run[r].id /\ row.topic = topic
      OBVIOUS
    <3>1. HasRow(run[r].id, run[r].topic)
      BY <1>8 DEF GoalInv, WorkingHasRow
    <3>2. QED
      BY <1>1, <2>2, <3>1, HadRow
  <2>4. ActiveLives'
    BY <2>1, <2>2 DEF GoalInv, BoardLives, ActiveLives, Others, Finalizes, Kinds, StatusAfter
  <2>5. CompletedEnded'
    BY <2>1, <2>2 DEF GoalInv, BoardLives, CompletedEnded, Finalizes, Plain, Kinds, StatusAfter
  <2>6. OneTaskPerTopic'
    BY <2>2, <2>3 DEF GoalInv, BoardLives, OneTaskPerTopic, Others
  <2>7. WorkingHasRow'
    <3> SUFFICES ASSUME NEW q \in Runs, Working(q)' PROVE HasRow(run[q].id, run[q].topic)'
      BY DEF WorkingHasRow
    <3>1. CASE q # r
      <4>1. Working(q) /\ run'[q] = run[q] /\ run[q].id # run[r].id
        BY <1>2, <1>5, <3>1 DEF Working, Alive
      <4>2. HasRow(run[q].id, run[q].topic)
        BY <4>1 DEF GoalInv, WorkingHasRow
      <4>3. QED
        BY <2>2, <4>1, <4>2 DEF HasRow, Others
    <3>2. CASE q = r
      <4>1. kind = "STEP" /\ ~Finalizes(kind) /\ StatusAfter(kind) = "running"
        BY <1>8, <3>2 DEF Finalizes, StatusAfter
      <4>2. run'[r].id = run[r].id /\ run'[r].topic = topic
        BY <1>2, <2>3, <3>2, <4>1 DEF Working
      <4>3. QED
        BY <2>2, <3>2, <4>1, <4>2 DEF HasRow
    <3>3. QED
      BY <3>1, <3>2
  <2>8. SpawnHasRow'
    <3> SUFFICES ASSUME NEW id \in Ids, spawn[id].at = "registering"
                 PROVE  RunsOf(id)' = {} /\ HasRow(id, spawn[id].topic)'
      BY <1>2 DEF SpawnHasRow
    <3>1. RunsOf(id) = {} /\ HasRow(id, spawn[id].topic) /\ id # run[r].id
      BY <1>5 DEF GoalInv, SpawnHasRow
    <3>2. QED
      BY <1>2, <1>6, <2>2, <3>1 DEF HasRow, Others
  <2>9. QED
    BY <1>3, <1>4, <2>4, <2>5, <2>6, <2>7, <2>8 DEF GoalInv, BoardLives
<1>9. "ERROR" \in Plain /\ Finalizes("ERROR")
  BY DEF Plain, Kinds, Finalizes
<1>10. QED
  BY <1>7, <1>8, <1>9, RunStepBoard

-----------------------------------------------------------------------------
(* The steps of a turn                                                      *)

(* What is spawned comes onto the board and pushes nothing out of it.         *)
LEMMA SpawnBoard ==
  ASSUME IInv, Roomy, NEW id \in Ids, NEW topic \in Topics, Spawn(id, topic)
  PROVE  /\ RowsOf(active') = RowsOf(active) \cup {[id |-> id, topic |-> topic, status |-> "running"]}
         /\ active' = Append(active, [id |-> id, topic |-> topic, status |-> "running"])
         /\ UNCHANGED completed
<1> DEFINE row == [id |-> id, topic |-> topic, status |-> "running"]
<1>1. BoardOK
  BY DEF IInv
<1>2. row \in Row /\ row.id = id /\ id \notin IdsOf(active) /\ Register(row)
  BY DEF Spawn, Row, Statuses, IInv, RowsOfTasks
<1>3. id \in IdsOf(active')
  BY <1>1, <1>2, RegisterStep DEF IdsOf
<1>4. Len(active) < MaxActive
  BY <1>2, <1>3 DEF Roomy
<1>5. active' = Append(active, row) /\ completed' = completed
  BY <1>1, <1>2, <1>4, RegisterStep
<1>6. QED
  BY <1>1, <1>2, <1>5, RowsOfAppend DEF BoardOK

LEMMA SpawnGoalInv ==
  ASSUME IInv, GoalInv, Roomy, NEW id \in Ids, NEW topic \in Topics, Spawn(id, topic)
  PROVE  GoalInv'
<1> DEFINE row == [id |-> id, topic |-> topic, status |-> "running"]
<1>1. RunsOK
  BY DEF IInv
<1>2. RowsOf(active') = RowsOf(active) \cup {row} /\ UNCHANGED completed
  BY SpawnBoard
<1>3. /\ spawn[id].at = "none" /\ spawn' = [spawn EXCEPT ![id] = [at |-> "registering", topic |-> topic]]
      /\ FoundRunning(topic) = {} /\ UNCHANGED <<run, workers, workerTasks, stopping>>
  BY DEF Spawn, dictVars
<1>4. \A p \in RowsOf(active) : p.topic # topic
  BY <1>3 DEF FoundRunning, GoalInv, BoardLives, ActiveLives, Terminal
<1>5. BoardLives'
  BY <1>2, <1>4 DEF GoalInv, BoardLives, ActiveLives, CompletedEnded, OneTaskPerTopic, RowsOf
<1>6. RunsOf(id) = {}
  BY <1>1, <1>3, RunFields DEF RunsOf, Alive
<1>7. SpawnHasRow'
  <2>1. spawn'[id].topic = topic /\ \A i : i # id => spawn'[i] = spawn[i]
    BY <1>1, <1>3 DEF RunsOK, RunTypes
  <2>2. HasRow(id, spawn[id].topic)'
    BY <1>2, <2>1 DEF HasRow
  <2>3. QED
    BY <1>2, <1>3, <1>6, <2>1, <2>2 DEF GoalInv, SpawnHasRow, HasRow, RunsOf, Alive
<1>8. WorkingHasRow'
  BY <1>2, <1>3 DEF GoalInv, WorkingHasRow, HasRow, Working, Alive
<1>9. QED
  BY <1>3, <1>5, <1>7, <1>8 DEF GoalInv, ReportsOK, LastIsLast, ReportsEndLast, ReportsPlain, NothingStopped,
                                DictsOK, TaskIsRun, LiveIsTask, WorkerIsLive, Alive

(* A row that is running stays so, unless its task reports something.         *)
RunningStays == \A row \in RowsOf(active) : row.status = "running" => row \in RowsOf(active')

(* A run is created for a task that has none, and whose row is running.       *)
LEMMA CreateRunGoalInv ==
  ASSUME IInv, GoalInv, NEW id \in Ids, NEW topic \in Topics \cup {Unknown},
         NEW at \in {"created", "resumed"}, NEW told \in BOOLEAN, CreateRun(id, topic, at, told),
         RunsOf(id) = {}, RunningStays, HasRow(id, topic)', UNCHANGED <<workers, stopping>>
  PROVE  /\ ReportsOK' /\ ReportsPlain' /\ NothingStopped' /\ DictsOK' /\ WorkingHasRow'
         /\ \A i \in Ids : i # id => RunsOf(i)' = RunsOf(i)
<1> DEFINE new == NewRun(id, topic, at, told)
<1>1. RunsOK /\ DictTypes
  BY DEF IInv
<1>2. PICK r \in Runs :
        /\ run[r].at = "unused" /\ run' = [run EXCEPT ![r] = new]
        /\ new.at = at /\ new.id = id /\ new.topic = topic /\ ~new.cancelled /\ ~new.last /\ new.reports = <<>>
        /\ workerTasks' = [workerTasks EXCEPT ![id] = r]
  BY <1>1, CreateRunStep
<1> HIDE DEF new
<1>3. run'[r] = new /\ \A q \in Runs : q # r => run'[q] = run[q]
  BY <1>1, <1>2 DEF RunsOK, RunTypes
<1>4. \A q \in Runs : Alive(q) => q # r /\ run[q].id # id /\ run[q].id \in Ids
  BY <1>1, <1>2, RunFields DEF RunsOf, Alive
<1>5. workerTasks'[id] = r /\ \A i \in Ids : i # id => workerTasks'[i] = workerTasks[i]
  BY <1>1, <1>2 DEF DictTypes
<1>6. ReportsOK' /\ ReportsPlain' /\ NothingStopped'
  <2>1. <<>> \in Seq(Plain) /\ EndsAtLast(<<>>)
    BY EmptySeq DEF EndsAtLast
  <2>2. QED
    BY <1>2, <1>3, <2>1 DEF GoalInv, ReportsOK, LastIsLast, ReportsEndLast, ReportsPlain, NothingStopped, Alive
<1>7. TaskIsRun'
  BY <1>1, <1>2, <1>3, <1>5 DEF GoalInv, DictsOK, TaskIsRun, DictTypes
<1>8. LiveIsTask'
  BY <1>2, <1>3, <1>4, <1>5 DEF GoalInv, DictsOK, LiveIsTask, Alive
<1>9. WorkerIsLive'
  BY <1>1, <1>2, <1>3 DEF GoalInv, DictsOK, WorkerIsLive, Alive, DictTypes
<1>10. WorkingHasRow'
  <2> SUFFICES ASSUME NEW q \in Runs, Working(q)' PROVE HasRow(run[q].id, run[q].topic)'
    BY DEF WorkingHasRow
  <2>1. CASE q = r
    BY <1>2, <1>3, <2>1
  <2>2. CASE q # r
    BY <1>3, <2>2 DEF GoalInv, WorkingHasRow, Working, Alive, HasRow, RunningStays
  <2>3. QED
    BY <2>1, <2>2
<1>11. \A i \in Ids : i # id => RunsOf(i)' = RunsOf(i)
  BY <1>2, <1>3 DEF RunsOf, Alive
<1>12. QED
  BY <1>6, <1>7, <1>8, <1>9, <1>10, <1>11 DEF DictsOK

LEMMA SpawnStoresGoalInv ==
  ASSUME IInv, GoalInv, NEW id \in Ids, SpawnStores(id)
  PROVE  GoalInv'
<1>1. RunsOK /\ DictTypes
  BY DEF IInv
<1>2. /\ spawn[id].at = "registering" /\ spawn' = [spawn EXCEPT ![id].at = "over"]
      /\ Schedule(id, spawn[id].topic, FALSE) /\ UNCHANGED <<boardVars, workers, stopping>>
  BY DEF SpawnStores
<1>3. RunsOf(id) = {} /\ HasRow(id, spawn[id].topic)
  BY <1>2 DEF GoalInv, SpawnHasRow
<1>4. ~Pending(id)
  BY <1>1, <1>3 DEF GoalInv, DictsOK, TaskIsRun, Pending, DictTypes, RunsOf
<1>5. PICK topic \in Topics \cup {Unknown} : topic = spawn[id].topic
  BY <1>1 DEF RunsOK, RunTypes, Spawning
<1>6. PICK at \in {"created", "resumed"}, told \in BOOLEAN : CreateRun(id, topic, at, told)
  BY <1>2, <1>4, <1>5 DEF Schedule
<1>7. RunningStays /\ HasRow(id, topic)'
  BY <1>2, <1>3, <1>5 DEF RunningStays, HasRow, boardVars, RowsOf
<1>8. /\ ReportsOK' /\ ReportsPlain' /\ NothingStopped' /\ DictsOK' /\ WorkingHasRow'
      /\ \A i \in Ids : i # id => RunsOf(i)' = RunsOf(i)
  BY <1>2, <1>3, <1>6, <1>7, CreateRunGoalInv
<1>9. BoardLives'
  BY <1>2 DEF GoalInv, BoardLives, ActiveLives, CompletedEnded, OneTaskPerTopic, RowsOf, boardVars
<1>10. SpawnHasRow'
  <2>1. spawn'[id].at = "over" /\ \A i : i # id => spawn'[i] = spawn[i]
    BY <1>1, <1>2 DEF RunsOK, RunTypes, Spawning
  <2>2. QED
    BY <1>2, <1>8, <2>1 DEF GoalInv, SpawnHasRow, HasRow, RowsOf, boardVars
<1>11. QED
  BY <1>8, <1>9, <1>10 DEF GoalInv

LEMMA SpawnAbortsGoalInv ==
  ASSUME IInv, GoalInv, NEW id \in Ids, SpawnAborts(id)
  PROVE  GoalInv'
<1>1. /\ spawn' = [spawn EXCEPT ![id].at = "over"]
      /\ UNCHANGED <<active, completed, run, workers, workerTasks, stopping>>
  BY DEF SpawnAborts, boardVars, dictVars
<1>2. SpawnHasRow'
  <2>1. spawn'[id].at = "over" /\ \A i : i # id => spawn'[i] = spawn[i]
    BY <1>1 DEF IInv, RunsOK, RunTypes, Spawning
  <2>2. QED
    BY <1>1, <2>1 DEF GoalInv, SpawnHasRow, HasRow, RowsOf, RunsOf, Alive
<1>3. QED
  BY <1>1, <1>2 DEF GoalInv, ReportsOK, LastIsLast, ReportsEndLast, ReportsPlain, NothingStopped, DictsOK,
     TaskIsRun, LiveIsTask, WorkerIsLive, BoardLives, ActiveLives, CompletedEnded, OneTaskPerTopic,
     WorkingHasRow, HasRow, RowsOf, Working, Alive

(* An answer wakes the task of a paused row, or is told to the run or stored. *)
LEMMA AnswerBoardGoal ==
  ASSUME IInv, GoalInv, NEW id \in Ids, Answer(id)
  PROVE  RunningStays /\ BoardLives'
<1>1. BoardOK
  BY DEF IInv
<1>2. /\ UNCHANGED completed
      /\ RowsOf(active') = {Woken(row, id) : row \in RowsOf(active)}
      /\ \A row \in Row : Woken(row, id) \in Row /\ Woken(row, id).id = row.id
                          /\ Woken(row, id).topic = row.topic
  BY <1>1, AnswerBoard
<1>3. \A row \in RowsOf(active) : row \in Row
  BY <1>1, RowsAreRows DEF BoardOK
<1>4. RunningStays
  BY <1>2 DEF RunningStays, Woken
<1>5. \A row \in Row : row.status \in {"running", "paused"} => Woken(row, id).status \in {"running", "paused"}
  BY DEF Woken, Row
<1>6. ActiveLives'
  BY <1>2, <1>3, <1>5 DEF GoalInv, BoardLives, ActiveLives
<1>7. CompletedEnded'
  BY <1>2 DEF GoalInv, BoardLives, CompletedEnded, RowsOf
<1>8. OneTaskPerTopic'
  BY <1>2, <1>3 DEF GoalInv, BoardLives, OneTaskPerTopic
<1>9. QED
  BY <1>4, <1>6, <1>7, <1>8 DEF BoardLives

(* A paused row that an answer finds is on the board, and runs then.          *)
LEMMA PausedIsActive ==
  ASSUME IInv, GoalInv, NEW id \in Ids, NEW row \in Found(id), row.status \in {"paused", "waiting_user"},
         Answer(id)
  PROVE  /\ row \in RowsOf(active) /\ row.id = id /\ row.status = "paused" /\ HasRow(id, row.topic)'
         /\ spawn[id].at # "registering"
<1>1. BoardOK
  BY DEF IInv
<1>2. row \in Row /\ row.id = id /\ row \in RowsOf(active)
  BY <1>1, FoundRows DEF GoalInv, BoardLives, CompletedEnded
<1>3. row.status = "paused"
  BY <1>2 DEF GoalInv, BoardLives, ActiveLives
<1>4. Woken(row, id) = [id |-> id, topic |-> row.topic, status |-> "running"]
  BY <1>2, <1>3 DEF Woken, Row
<1>5. HasRow(id, row.topic)'
  BY <1>1, <1>2, <1>4, AnswerBoard DEF HasRow
<1>6. ASSUME spawn[id].at = "registering" PROVE FALSE
  <2>1. PICK p \in RowsOf(active) : p.id = id /\ p.status = "running"
    BY <1>1, <1>6, HadRow DEF GoalInv, SpawnHasRow
  <2>2. p = row
    BY <1>1, <1>2, <2>1 DEF BoardOK, OneRowEach, RowsOf
  <2>3. QED
    BY <1>3, <2>1, <2>2
<1>7. QED
  BY <1>2, <1>3, <1>5, <1>6

OnlyTold ==
  \A q \in Runs : /\ run'[q].id = run[q].id /\ run'[q].at = run[q].at /\ run'[q].topic = run[q].topic
                  /\ run'[q].last = run[q].last /\ run'[q].reports = run[q].reports
                  /\ run'[q].cancelled = run[q].cancelled

LEMMA AnswerGoalInv ==
  ASSUME IInv, GoalInv, NEW id \in Ids, Answer(id)
  PROVE  GoalInv'
<1>1. RunsOK /\ DictTypes /\ BoardOK
  BY DEF IInv
<1>2. RunningStays /\ BoardLives'
  BY AnswerBoardGoal
<1>3. UNCHANGED <<spawn, workers, stopping>>
  BY DEF Answer
<1> DEFINE w == workers[id]
<1>4. CASE OnlyTold /\ UNCHANGED workerTasks
  <2>1. \A q \in Runs : /\ run'[q].id = run[q].id /\ run'[q].at = run[q].at /\ run'[q].topic = run[q].topic
                        /\ run'[q].last = run[q].last /\ run'[q].reports = run[q].reports
                        /\ run'[q].cancelled = run[q].cancelled
    BY <1>4 DEF OnlyTold
  <2>2. \A i \in Ids : RunsOf(i)' = RunsOf(i)
    BY <2>1 DEF RunsOf, Alive
  <2>3. ReportsOK' /\ ReportsPlain'
    BY <2>1 DEF GoalInv, ReportsOK, LastIsLast, ReportsEndLast, ReportsPlain, Alive
  <2>4. NothingStopped'
    BY <1>3, <2>1 DEF GoalInv, NothingStopped
  <2>5. DictsOK'
    BY <1>1, <1>3, <1>4, <2>1 DEF GoalInv, DictsOK, TaskIsRun, LiveIsTask, WorkerIsLive, Alive, DictTypes
  <2>6. WorkingHasRow'
    <3> SUFFICES ASSUME NEW q \in Runs, Working(q)' PROVE HasRow(run[q].id, run[q].topic)'
      BY DEF WorkingHasRow
    <3>1. Working(q)
      BY <2>1 DEF Working, Alive, GoalInv, NothingStopped
    <3>2. QED
      BY <1>2, <2>1, <3>1 DEF GoalInv, WorkingHasRow, HasRow, RunningStays
  <2>7. SpawnHasRow'
    BY <1>2, <1>3, <2>2 DEF GoalInv, SpawnHasRow, HasRow, RunningStays
  <2>8. QED
    BY <1>2, <2>3, <2>4, <2>5, <2>6, <2>7 DEF GoalInv
<1>5. CASE w # NoRun /\ Pending(id) /\ run' = [run EXCEPT ![w].told = TRUE] /\ UNCHANGED workerTasks
  <2>1. w \in Runs
    BY <1>1, <1>5 DEF DictTypes
  <2>2. OnlyTold
    BY <1>1, <1>5, <2>1 DEF OnlyTold, RunsOK, RunTypes, Run
  <2>3. QED
    BY <1>4, <1>5, <2>2
<1>6. CASE w # NoRun /\ ~Pending(id)
  <2>1. w \in Runs /\ Alive(w) /\ run[w].id = id
    BY <1>1, <1>6 DEF DictTypes, GoalInv, DictsOK, WorkerIsLive
  <2>2. workerTasks[id] = w
    BY <2>1 DEF GoalInv, DictsOK, LiveIsTask
  <2>3. QED
    BY <1>6, <2>1, <2>2 DEF Pending
<1>7. CASE \E row \in Found(id) : row.status \in {"paused", "waiting_user"} /\ Schedule(id, row.topic, TRUE)
  <2>1. PICK row \in Found(id) : row.status \in {"paused", "waiting_user"} /\ Schedule(id, row.topic, TRUE)
    BY <1>7
  <2>2. row \in RowsOf(active) /\ row \in Row /\ HasRow(id, row.topic)' /\ spawn[id].at # "registering"
    BY <1>1, <2>1, PausedIsActive, RowsAreRows DEF BoardOK
  <2>3. CASE UNCHANGED <<run, workerTasks>>
    <3>1. OnlyTold
      BY <2>3 DEF OnlyTold
    <3>2. QED
      BY <1>4, <2>3, <3>1
  <2>4. CASE ~Pending(id) /\ CreateRun(id, row.topic, "created", TRUE)
    <3>1. RunsOf(id) = {}
      BY <1>1, <2>4 DEF RunsOf, GoalInv, DictsOK, LiveIsTask, Pending, Runs, NoRun
    <3>2. PICK topic \in Topics \cup {Unknown} : topic = row.topic
      BY <2>2 DEF Row
    <3>3. PICK at \in {"created", "resumed"}, told \in BOOLEAN : CreateRun(id, topic, at, told)
      BY <2>4, <3>2
    <3>4. HasRow(id, topic)'
      BY <2>2, <3>2 DEF HasRow
    <3>5. /\ ReportsOK' /\ ReportsPlain' /\ NothingStopped' /\ DictsOK' /\ WorkingHasRow'
          /\ \A i \in Ids : i # id => RunsOf(i)' = RunsOf(i)
      BY <1>2, <1>3, <3>1, <3>3, <3>4, CreateRunGoalInv
    <3>6. SpawnHasRow'
      BY <1>2, <1>3, <2>2, <3>5 DEF GoalInv, SpawnHasRow, HasRow, RunningStays
    <3>7. QED
      BY <1>2, <3>5, <3>6 DEF GoalInv
  <2>5. QED
    BY <2>1, <2>3, <2>4 DEF Schedule
<1>8. QED
  BY <1>5, <1>6, <1>7 DEF Answer

LEMMA NextGoalInv ==
  ASSUME NoStops, PlainReports, EndsLast, IInv, GoalInv, Roomy, [Next]_vars
  PROVE  GoalInv'
<1>1. CASE \E r \in Runs : RunStep(r)
  BY <1>1, RunStepGoalInv
<1>2. CASE \E id \in Ids : (\E topic \in Topics : Spawn(id, topic)) \/ SpawnStep(id)
  BY <1>2, SpawnGoalInv, SpawnStoresGoalInv, SpawnAbortsGoalInv DEF SpawnStep
<1>3. CASE \E id \in Ids : Answer(id) \/ StopTask(id) \/ StopEnds(id) \/ StopFails(id)
  BY <1>3, AnswerGoalInv DEF NoStops, StopTask, StopEnds, StopFails, GoalInv, NothingStopped
<1>4. CASE UNCHANGED vars
  BY <1>4 DEF vars, GoalInv, ReportsOK, LastIsLast, ReportsEndLast, ReportsPlain, NothingStopped, DictsOK,
     TaskIsRun, LiveIsTask, WorkerIsLive, BoardLives, ActiveLives, CompletedEnded, OneTaskPerTopic,
     WorkingHasRow, SpawnHasRow, HasRow, RowsOf, RunsOf, Working, Alive
<1>5. QED
  BY <1>1, <1>2, <1>3, <1>4 DEF Next

LEMMA GoalInductive ==
  ASSUME NoStops, PlainReports, EndsLast PROVE Spec /\ [][Roomy]_vars => []GoalInv
<1>1. Init => GoalInv
  BY InitGoalInv
<1>2. IInv /\ GoalInv /\ [Next]_vars /\ [Roomy]_vars => GoalInv'
  <2>1. UNCHANGED vars => Roomy
    BY DEF vars, Roomy, IdsOf, RowsOf
  <2>2. QED
    BY <2>1, NextGoalInv
<1>3. QED
  BY <1>1, <1>2, Inductive, PTL DEF Spec

(* A board with room for every task there is never is full when one comes.    *)
BoardForAll == IsFiniteSet(Ids) /\ Cardinality(Ids) <= MaxActive

LEMMA EnoughRoom == ASSUME BoardForAll, IInv, IInv' PROVE Roomy
<1> SUFFICES ASSUME NEW id \in IdsOf(active'), id \notin IdsOf(active) PROVE Len(active) < MaxActive
  BY DEF Roomy
<1>1. active \in Seq(Row) /\ DOMAIN active = 1 .. Len(active) /\ Len(active) \in Nat /\ OneRowEach(active)
  BY LenProperties DEF IInv, BoardOK
<1>2. id \in Ids
  BY RowsAreRows DEF IInv, BoardOK, IdsOf, Row
<1> DEFINE f == [i \in 1 .. Len(active) |-> active[i].id]
           others == Ids \ {id}
<1>3. f \in Injection(1 .. Len(active), others)
  <2>1. \A i \in 1 .. Len(active) : active[i] \in Row /\ active[i].id # id
    BY <1>1, ElementOfSeq DEF IdsOf, RowsOf
  <2>2. f \in [1 .. Len(active) -> others]
    BY <2>1 DEF Row
  <2>3. IsInjective(f)
    BY <1>1 DEF OneRowEach, IsInjective
  <2>4. QED
    BY <2>2, <2>3 DEF Injection
<1>4. IsFiniteSet(others) /\ Cardinality(others) = Cardinality(Ids) - 1 /\ Cardinality(Ids) \in Nat
  BY <1>2, FS_RemoveElement, FS_CardinalityType DEF BoardForAll
<1>5. Cardinality(1 .. Len(active)) = Len(active)
  BY <1>1, FS_Interval
<1>6. Cardinality(1 .. Len(active)) <= Cardinality(others)
  BY <1>3, <1>4, FS_Injection
<1>7. QED
  BY <1>1, <1>4, <1>5, <1>6, BoardAssumption DEF BoardForAll

LEMMA AlwaysRoomy == ASSUME BoardForAll PROVE Spec => [][Roomy]_vars
<1>1. IInv /\ IInv' => [Roomy]_vars
  BY EnoughRoom
<1>2. QED
  BY <1>1, Inductive, PTL

(* "Avoid duplicate background workers for the same goal" (find_running): the *)
(* runs that work on one goal are runs of one task. It is so in every         *)
(* behaviour in which no task is put on a full board, whatever is answered,   *)
(* interrupted or fails, if nothing is stopped and each step reports its end, *)
(* which is no error for the user to act on, in its last report.             *)
THEOREM OneRunEachGoal ==
  ASSUME NoStops, PlainReports, EndsLast PROVE Spec /\ [][Roomy]_vars => []OneRunPerTopic
<1>1. GoalInv => OneRunPerTopic
  BY GoalInvOneRun
<1>2. QED
  BY <1>1, GoalInductive, PTL

(* With a board that has room for every task, that holds without more.        *)
COROLLARY RoomForAll ==
  ASSUME NoStops, PlainReports, EndsLast, BoardForAll PROVE Spec => []OneRunPerTopic
<1>1. QED
  BY OneRunEachGoal, AlwaysRoomy, PTL
==============================================================================
