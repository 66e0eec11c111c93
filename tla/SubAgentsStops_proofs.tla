----------------------- MODULE SubAgentsStops_proofs -----------------------
(* Theorems about the slots and the stops of SubAgents. Those of the first   *)
(* part hold for every disturbance; they are about a task as long as it has  *)
(* one run at a time. The last one, that no row is left behind which nobody  *)
(* attends to, has hypotheses, which are named below.                        *)
EXTENDS SubAgents_proofs

-----------------------------------------------------------------------------
(* The inductive invariant                                                  *)

Started(r) == run[r].at # "unused"

(* The runs are numbered in the order in which they are made, and a new one  *)
(* has not been made beside another.                                         *)
InOrder == \A q, r \in Runs : q < r /\ Started(r) => Started(q)
UnusedIsSingle == \A r \in Runs : ~Started(r) => ~run[r].double

(* Two runs of a task at a time make it a doubled one.                        *)
OneAtATime ==
  \A q, r \in Runs : Alive(q) /\ Alive(r) /\ run[q].id = run[r].id => q = r \/ Doubled(run[r].id)

(* Both dictionaries hold runs of the task under which they hold them; the    *)
(* run that works on a task is in one, and once cancelled in the other.       *)
RecordedIsRun ==
  \A id \in Ids : workerTasks[id] # NoRun => Started(workerTasks[id]) /\ run[workerTasks[id]].id = id

StoppingIsRun ==
  \A id \in Ids : stopping[id] # NoRun => Started(stopping[id]) /\ run[stopping[id]].id = id

LiveIsRecorded ==
  \A r \in Runs : Alive(r) /\ ~run[r].cancelled /\ run[r].at # "dying"
                  => workerTasks[run[r].id] = r \/ Doubled(run[r].id)

CancelledIsAwaited ==
  \A r \in Runs : Alive(r) /\ run[r].cancelled => stopping[run[r].id] = r \/ Doubled(run[r].id)

(* No run is older than the one cancel_task waits for.                        *)
StoppingIsOldest ==
  \A r \in Runs : Alive(r) /\ stopping[run[r].id] # NoRun
                  => r >= stopping[run[r].id] \/ Doubled(run[r].id)

AllSingle == \A id \in Ids : ~Doubled(id)
AllSlotsCount == AllSingle => free + Cardinality(held) = SubSlots

RunsInv == InOrder /\ UnusedIsSingle /\ OneAtATime
StopInv ==
  /\ RunsInv /\ RecordedIsRun /\ StoppingIsRun
  /\ LiveIsRecorded /\ CancelledIsAwaited /\ StoppingIsOldest /\ AllSlotsCount

LEMMA InitStopInv == ASSUME Init PROVE StopInv
<1>1. Cardinality({}) = 0
  BY FS_EmptySet
<1>2. AllSlotsCount
  BY <1>1, RunsAssumption DEF Init, AllSlotsCount
<1>3. RunsInv
  BY UnusedType DEF Init, RunsInv, InOrder, UnusedIsSingle, OneAtATime, Started, Alive
<1>4. QED
  BY <1>2, <1>3, UnusedType
     DEF Init, StopInv, RecordedIsRun, StoppingIsRun, LiveIsRecorded, CancelledIsAwaited, StoppingIsOldest,
         Alive

-----------------------------------------------------------------------------
(* What the steps have in common                                             *)

(* A run that has been made stays one of its task.                            *)
Keeps(q) == Started(q) => Started(q)' /\ run'[q].id = run[q].id /\ run'[q].double = run[q].double

LEMMA StaysDoubled ==
  ASSUME UnusedIsSingle, \A q \in Runs : Keeps(q), NEW id, Doubled(id)
  PROVE  Doubled(id)'
  BY DEF UnusedIsSingle, Keeps, Doubled

LEMMA NoLongerSingle ==
  ASSUME StopInv, RunsOK, RunsOK', \A q \in Runs : Keeps(q), AllSingle' PROVE AllSingle
  BY StaysDoubled DEF AllSingle, StopInv, RunsInv

LEMMA SlotsStayCounted ==
  ASSUME StopInv, \A q \in Runs : Keeps(q), UNCHANGED slotVars PROVE AllSlotsCount'
  BY StaysDoubled DEF AllSlotsCount, AllSingle, StopInv, RunsInv, slotVars

LEMMA FreedSlotCounts ==
  ASSUME StopInv, SlotsOK, \A q \in Runs : Keeps(q), NEW id, FreeSlot(id) PROVE AllSlotsCount'
<1> SUFFICES ASSUME AllSingle' PROVE free' + Cardinality(held') = SubSlots
  BY DEF AllSlotsCount
<1>1. free + Cardinality(held) = SubSlots
  BY StaysDoubled DEF AllSlotsCount, AllSingle, StopInv, RunsInv
<1>2. CASE id \in held
  <2>1. Cardinality(held \ {id}) = Cardinality(held) - 1 /\ Cardinality(held) \in Nat /\ free \in Nat
    BY <1>2, FS_RemoveElement, FS_CardinalityType, RunsAssumption DEF SlotsOK, SlotsCounted, SlotTypes
  <2>2. held' = held \ {id} /\ free' = free + 1
    BY <1>2 DEF FreeSlot
  <2>3. QED
    BY <1>1, <2>1, <2>2, RunsAssumption
<1>3. CASE id \notin held
  <2>1. held' = held /\ free' = free
    BY <1>3 DEF FreeSlot
  <2>2. QED
    BY <1>1, <2>1
<1>4. QED
  BY <1>2, <1>3

(* What a step says about the dictionaries and the flags of runs that neither *)
(* come nor go.                                                              *)
LEMMA MarkedStopInv ==
  ASSUME IInv, StopInv, UNCHANGED <<workerTasks, stopping, slotVars>>,
         \A q \in Runs : /\ run'[q].at = run[q].at /\ run'[q].id = run[q].id
                         /\ run'[q].cancelled = run[q].cancelled /\ run'[q].double = run[q].double
  PROVE  StopInv'
<1>1. \A id : Doubled(id)' <=> Doubled(id)
  BY DEF Doubled
<1>2. \A q \in Runs : (Alive(q)' <=> Alive(q)) /\ (Started(q)' <=> Started(q)) /\ Keeps(q)
  BY DEF Alive, Started, Keeps
<1>3. RunsInv'
  BY <1>1, <1>2 DEF StopInv, RunsInv, InOrder, UnusedIsSingle, OneAtATime
<1>4. RecordedIsRun' /\ StoppingIsRun'
  BY <1>2 DEF StopInv, RecordedIsRun, StoppingIsRun, IInv, DictTypes
<1>5. LiveIsRecorded' /\ CancelledIsAwaited' /\ StoppingIsOldest'
  BY <1>1, <1>2 DEF StopInv, LiveIsRecorded, CancelledIsAwaited, StoppingIsOldest
<1>6. AllSlotsCount'
  BY <1>2, SlotsStayCounted
<1>7. QED
  BY <1>3, <1>4, <1>5, <1>6 DEF StopInv

(* A new run makes its task a doubled one, or is the only one of it.          *)
LEMMA CreateRunStopInv ==
  ASSUME IInv, StopInv, UNCHANGED <<stopping, slotVars>>,
         NEW id \in Ids, NEW topic \in Topics \cup {Unknown}, NEW at \in {"created", "resumed"},
         NEW told \in BOOLEAN, CreateRun(id, topic, at, told)
  PROVE  StopInv'
<1>1. RunsOK /\ DictTypes
  BY DEF IInv
<1> DEFINE new == NewRun(id, topic, at, told)
<1>2. PICK r \in Runs :
        /\ NextRun(r) /\ run[r].at = "unused" /\ run' = [run EXCEPT ![r] = new]
        /\ new.at = at /\ new.id = id /\ ~new.cancelled /\ new.double = (RunsOf(id) # {})
        /\ workerTasks' = [workerTasks EXCEPT ![id] = r]
  BY <1>1, CreateRunStep
<1> HIDE DEF new
<1>3. /\ run'[r] = new /\ \A q \in Runs : q # r => run'[q] = run[q]
      /\ workerTasks'[id] = r /\ \A i \in Ids : i # id => workerTasks'[i] = workerTasks[i]
  BY <1>1, <1>2 DEF RunsOK, RunTypes, DictTypes
<1>4. /\ Alive(r)' /\ Started(r)' /\ ~Started(r) /\ ~Alive(r)
      /\ \A q \in Runs : q # r => (Alive(q)' <=> Alive(q)) /\ (Started(q)' <=> Started(q))
      /\ \A q \in Runs : Keeps(q)
  BY <1>2, <1>3 DEF Alive, Started, Keeps
<1>5. \A i : Doubled(i) => Doubled(i)'
  BY <1>4, StaysDoubled DEF StopInv, RunsInv
<1>6. \A q \in Runs : Alive(q) /\ run[q].id = id => Doubled(id)'
  BY <1>2, <1>3 DEF RunsOf, Doubled
<1>7. RunsInv'
  <2>1. InOrder'
    BY <1>2, <1>3, <1>4 DEF StopInv, RunsInv, InOrder, NextRun, Started, Runs
  <2>2. UnusedIsSingle'
    BY <1>3, <1>4 DEF StopInv, RunsInv, UnusedIsSingle
  <2>3. OneAtATime'
    BY <1>2, <1>3, <1>4, <1>5, <1>6 DEF StopInv, RunsInv, OneAtATime
  <2>4. QED
    BY <2>1, <2>2, <2>3 DEF RunsInv
<1>8. RecordedIsRun' /\ StoppingIsRun'
  BY <1>1, <1>2, <1>3, <1>4 DEF StopInv, RecordedIsRun, StoppingIsRun, DictTypes
<1>9. \A q \in Runs : q # r /\ Alive(q)' => run[q].id \in Ids /\ Alive(q)
  BY <1>1, <1>4, RunFields DEF Alive
<1>10. LiveIsRecorded'
  BY <1>2, <1>3, <1>4, <1>5, <1>6, <1>9 DEF StopInv, LiveIsRecorded
<1>11. CancelledIsAwaited'
  BY <1>2, <1>3, <1>4, <1>5, <1>9 DEF StopInv, CancelledIsAwaited
<1>12. StoppingIsOldest'
  <2>1. stopping[id] # NoRun => stopping[id] \in Runs /\ Started(stopping[id])
    BY <1>1 DEF StopInv, StoppingIsRun, DictTypes
  <2>2. stopping[id] # NoRun => ~(r < stopping[id])
    BY <1>4, <2>1 DEF StopInv, RunsInv, InOrder
  <2>3. stopping[id] # NoRun => r >= stopping[id]
    BY <2>1, <2>2, RunsAssumption DEF Runs
  <2>4. QED
    BY <1>2, <1>3, <1>4, <1>5, <1>9, <2>3 DEF StopInv, StoppingIsOldest
<1>13. AllSlotsCount'
  BY <1>4, SlotsStayCounted
<1>14. QED
  BY <1>7, <1>8, <1>10, <1>11, <1>12, <1>13 DEF StopInv

LEMMA ScheduleStopInv ==
  ASSUME IInv, StopInv, UNCHANGED <<stopping, slotVars>>,
         NEW id \in Ids, NEW topic \in Topics \cup {Unknown}, NEW answered \in BOOLEAN,
         Schedule(id, topic, answered)
  PROVE  StopInv'
  BY MarkedStopInv, CreateRunStopInv DEF Schedule

(* A step of a run, or of a cancel_task that ends with it.                    *)
LEMMA ChangeStopInv ==
  ASSUME IInv, StopInv, NEW r \in Runs, RunChange(r), SlotEffect(r),
         \/ stopping' = stopping
         \/ /\ run'[r].at = "gone" /\ stopping[run[r].id] = r
            /\ stopping' = [stopping EXCEPT ![run[r].id] = NoRun]
  PROVE  StopInv'
<1>1. RunsOK /\ DictTypes /\ SlotsOK
  BY DEF IInv
<1>2. /\ \A q \in Runs : q # r => run'[q] = run[q]
      /\ Alive(r) /\ Started(r) /\ Started(r)'
      /\ run'[r].id = run[r].id /\ run'[r].double = run[r].double /\ run[r].id \in Ids
  BY <1>1, RunFields DEF RunChange, Alive, Started, RunsOK, RunTypes
<1>3. /\ \A q \in Runs : (Started(q)' <=> Started(q)) /\ Keeps(q)
      /\ \A q \in Runs : run'[q].id = run[q].id /\ run'[q].double = run[q].double
      /\ \A q \in Runs : Alive(q)' => Alive(q)
  BY <1>2 DEF Started, Keeps, Alive
<1>4. \A i : Doubled(i)' <=> Doubled(i)
  BY <1>3 DEF Doubled
<1>5. RunsInv'
  BY <1>3, <1>4 DEF StopInv, RunsInv, InOrder, UnusedIsSingle, OneAtATime
<1>6. \A q \in Runs : q # r /\ Alive(q) /\ run[q].id = run[r].id => Doubled(run[q].id)
  BY <1>2 DEF StopInv, RunsInv, OneAtATime
<1>7. \A q \in Runs : Alive(q) => run[q].id \in Ids
  BY <1>1, RunFields DEF Alive
<1>8. RecordedIsRun'
  <2>1. \A id \in Ids : workerTasks'[id] # NoRun => workerTasks'[id] = workerTasks[id]
    BY <1>1 DEF RunChange, DictTypes
  <2>2. QED
    BY <1>1, <1>3, <2>1 DEF StopInv, RecordedIsRun, DictTypes
<1>9. /\ \A id \in Ids : stopping'[id] # NoRun => stopping'[id] = stopping[id]
      /\ \A id \in Ids : id # run[r].id => stopping'[id] = stopping[id]
      /\ Alive(r)' => stopping' = stopping
  BY <1>1, <1>2 DEF DictTypes, Alive
<1>10. StoppingIsRun'
  BY <1>1, <1>3, <1>9 DEF StopInv, StoppingIsRun, DictTypes
<1>11. StoppingIsOldest'
  BY <1>3, <1>4, <1>7, <1>9 DEF StopInv, StoppingIsOldest
<1>12. LiveIsRecorded'
  <2> SUFFICES ASSUME NEW q \in Runs, Alive(q)', ~run'[q].cancelled, run'[q].at # "dying",
                      ~Doubled(run[q].id)
               PROVE  workerTasks'[run[q].id] = q
    BY <1>3, <1>4 DEF LiveIsRecorded
  <2>1. CASE q = r
    <3>1. Alive(r) /\ ~run[r].cancelled /\ run[r].at # "dying" /\ workerTasks' = workerTasks
      BY <2>1 DEF RunChange, Alive
    <3>2. QED
      BY <1>2, <2>1, <3>1 DEF StopInv, LiveIsRecorded
  <2>2. CASE q # r
    <3>1. Alive(q) /\ run[q].id # run[r].id /\ workerTasks[run[q].id] = q
      BY <1>2, <1>3, <1>6, <2>2 DEF StopInv, LiveIsRecorded
    <3>2. QED
      BY <1>1, <1>2, <1>7, <2>2, <3>1 DEF RunChange, DictTypes
  <2>3. QED
    BY <2>1, <2>2
<1>13. CancelledIsAwaited'
  <2> SUFFICES ASSUME NEW q \in Runs, Alive(q)', run'[q].cancelled, ~Doubled(run[q].id)
               PROVE  stopping'[run[q].id] = q
    BY <1>3, <1>4 DEF CancelledIsAwaited
  <2>1. run[q].cancelled /\ Alive(q)
    BY <1>2, <1>3 DEF RunChange
  <2>2. stopping[run[q].id] = q
    BY <2>1 DEF StopInv, CancelledIsAwaited
  <2>3. CASE q = r
    BY <1>9, <2>2, <2>3
  <2>4. CASE q # r
    BY <1>6, <1>7, <1>9, <2>1, <2>2, <2>4
  <2>5. QED
    BY <2>3, <2>4
<1>14. AllSlotsCount'
  <2>1. CASE UNCHANGED slotVars
    BY <1>3, <2>1, SlotsStayCounted
  <2>2. CASE FreeSlot(run[r].id)
    BY <1>1, <1>3, <2>2, FreedSlotCounts
  <2>3. CASE TakesSlot(r)
    <3> SUFFICES ASSUME AllSingle' PROVE free' + Cardinality(held') = SubSlots
      BY DEF AllSlotsCount
    <3>1. AllSingle
      BY <1>4 DEF AllSingle
    <3>2. free + Cardinality(held) = SubSlots
      BY <3>1 DEF StopInv, AllSlotsCount
    <3>3. run[r].id \notin held
      <4> SUFFICES ASSUME run[r].id \in held PROVE FALSE
        OBVIOUS
      <4>1. PICK q \in Runs : run[q].id = run[r].id /\ run[q].at \in Slotted
        BY <1>1 DEF SlotsOK, HeldIsSlotted
      <4>2. q # r /\ Alive(q)
        BY <2>3, <4>1 DEF TakesSlot, Alive, Slotted, InWorker
      <4>3. QED
        BY <1>2, <1>6, <3>1, <4>1, <4>2 DEF AllSingle
    <3>4. Cardinality(held \cup {run[r].id}) = Cardinality(held) + 1 /\ Cardinality(held) \in Nat
      BY <1>1, <3>3, FS_AddElement, FS_CardinalityType DEF SlotsOK, SlotsCounted
    <3>5. free \in Nat /\ free' = free - 1 /\ held' = held \cup {run[r].id}
      BY <1>1, <2>3, RunsAssumption DEF TakesSlot, SlotsOK, SlotTypes
    <3>6. QED
      BY <3>2, <3>4, <3>5, RunsAssumption
  <2>4. QED
    BY <2>1, <2>2, <2>3 DEF SlotEffect
<1>15. QED
  BY <1>5, <1>8, <1>10, <1>11, <1>12, <1>13, <1>14 DEF StopInv

LEMMA RunStepStopInv ==
  ASSUME IInv, StopInv, NEW r \in Runs, RunStep(r) PROVE StopInv'
<1>1. Effect(r)
  BY RunStepEffect DEF IInv
<1>2. QED
  BY <1>1, ChangeStopInv DEF Effect, RunEffect

LEMMA StopFailsStopInv ==
  ASSUME IInv, StopInv, NEW id \in Ids, StopFails(id) PROVE StopInv'
<1>1. run[stopping[id]].id = id
  BY DEF StopFails, StopInv, StoppingIsRun
<1>2. QED
  BY <1>1, StopFailsEffect, ChangeStopInv

LEMMA SpawnStopInv ==
  ASSUME IInv, StopInv, NEW id \in Ids, NEW topic \in Topics, Spawn(id, topic) PROVE StopInv'
  BY MarkedStopInv DEF Spawn, dictVars

LEMMA SpawnStoresStopInv ==
  ASSUME IInv, StopInv, NEW id \in Ids, SpawnStores(id) PROVE StopInv'
<1>1. spawn[id].topic \in Topics \cup {Unknown}
  BY DEF IInv, RunsOK, RunTypes, Spawning
<1>2. QED
  BY <1>1, ScheduleStopInv DEF SpawnStores

LEMMA SpawnAbortsStopInv ==
  ASSUME IInv, StopInv, NEW id \in Ids, SpawnAborts(id) PROVE StopInv'
  BY MarkedStopInv DEF SpawnAborts, dictVars

LEMMA AnswerStopInv ==
  ASSUME IInv, StopInv, NEW id \in Ids, Answer(id) PROVE StopInv'
<1>1. RunsOK /\ DictTypes /\ BoardOK /\ UNCHANGED <<stopping, slotVars>>
  BY DEF IInv, Answer
<1> DEFINE w == workers[id]
<1>2. CASE w # NoRun /\ run' = [run EXCEPT ![w].told = TRUE] /\ UNCHANGED workerTasks
  <2>1. w \in Runs /\ run[w] \in Run
    BY <1>1, <1>2 DEF DictTypes, RunsOK, RunTypes
  <2> HIDE DEF w
  <2>2. \A q \in Runs : /\ run'[q].at = run[q].at /\ run'[q].id = run[q].id
                        /\ run'[q].cancelled = run[q].cancelled /\ run'[q].double = run[q].double
    BY <1>1, <1>2, <2>1 DEF RunsOK, RunTypes, Run
  <2>3. QED
    BY <1>1, <1>2, <2>2, MarkedStopInv
<1>3. CASE w # NoRun /\ CreateRun(id, run[w].topic, "resumed", TRUE)
  <2>1. run[w].topic \in Topics \cup {Unknown}
    BY <1>1, <1>3 DEF DictTypes, RunsOK, RunTypes, Run
  <2>2. QED
    BY <1>1, <1>3, <2>1, CreateRunStopInv
<1>4. CASE \E row \in Found(id) : Schedule(id, row.topic, TRUE)
  <2>1. PICK row \in Found(id) : Schedule(id, row.topic, TRUE)
    BY <1>4
  <2>2. row.topic \in Topics \cup {Unknown}
    BY <1>1, FoundRows DEF Row
  <2>3. QED
    BY <1>1, <2>1, <2>2, ScheduleStopInv
<1>5. QED
  BY <1>2, <1>3, <1>4 DEF Answer

(* A stop finds the run of the task, or there is none but one that is dying.  *)
LEMMA StopTaskStopInv ==
  ASSUME IInv, StopInv, NEW id \in Ids, StopTask(id) PROVE StopInv'
<1>1. RunsOK /\ DictTypes /\ SlotsOK
  BY DEF IInv
<1>2. workerTasks' = [workerTasks EXCEPT ![id] = NoRun] /\ (Pending(id) => stopping[id] = NoRun)
  BY DEF StopTask
<1>3. \A q \in Runs : Alive(q) => run[q].id \in Ids
  BY <1>1, RunFields DEF Alive
<1> DEFINE w == workerTasks[id]
<1>4. CASE Pending(id) /\ run' = [run EXCEPT ![w].cancelled = TRUE]
           /\ stopping' = [stopping EXCEPT ![id] = w] /\ UNCHANGED slotVars
  <2>1. w \in Runs /\ Alive(w) /\ Started(w) /\ run[w].id = id
    BY <1>1, <1>4 DEF Pending, DictTypes, StopInv, RecordedIsRun
  <2> HIDE DEF w
  <2>2. /\ \A q \in Runs : q # w => run'[q] = run[q]
        /\ \A q \in Runs : run'[q].id = run[q].id /\ run'[q].at = run[q].at /\ run'[q].double = run[q].double
        /\ run'[w].cancelled
    BY <1>1, <1>4, <2>1 DEF RunsOK, RunTypes, Run
  <2>3. /\ \A q \in Runs : (Alive(q)' <=> Alive(q)) /\ (Started(q)' <=> Started(q)) /\ Keeps(q)
        /\ \A i : Doubled(i)' <=> Doubled(i)
    BY <2>2 DEF Alive, Started, Keeps, Doubled
  <2>4. \A q \in Runs : Alive(q) /\ run[q].id = id => q = w \/ Doubled(id)
    BY <2>1 DEF StopInv, RunsInv, OneAtATime
  <2>5. RunsInv'
    BY <2>2, <2>3 DEF StopInv, RunsInv, InOrder, UnusedIsSingle, OneAtATime
  <2>6. /\ stopping'[id] = w /\ \A i \in Ids : i # id => stopping'[i] = stopping[i]
        /\ workerTasks'[id] = NoRun /\ \A i \in Ids : i # id => workerTasks'[i] = workerTasks[i]
    BY <1>1, <1>2, <1>4 DEF DictTypes
  <2>7. RecordedIsRun' /\ StoppingIsRun'
    BY <1>1, <2>1, <2>2, <2>3, <2>6 DEF StopInv, RecordedIsRun, StoppingIsRun, DictTypes
  <2>8. LiveIsRecorded' /\ CancelledIsAwaited'
    <3>1. ASSUME NEW q \in Runs, Alive(q), ~run'[q].cancelled, run[q].at # "dying", ~Doubled(run[q].id)
          PROVE  workerTasks'[run[q].id] = q
      <4>1. q # w /\ ~run[q].cancelled /\ workerTasks[run[q].id] = q
        BY <2>2, <3>1 DEF StopInv, LiveIsRecorded
      <4>2. run[q].id # id
        BY <2>4, <3>1, <4>1
      <4>3. QED
        BY <1>3, <2>6, <3>1, <4>1, <4>2
    <3>2. ASSUME NEW q \in Runs, Alive(q), run'[q].cancelled, ~Doubled(run[q].id)
          PROVE  stopping'[run[q].id] = q
      <4>1. CASE run[q].id = id
        BY <2>4, <2>6, <3>2, <4>1
      <4>2. CASE run[q].id # id
        BY <1>3, <2>1, <2>2, <2>6, <3>2, <4>2 DEF StopInv, CancelledIsAwaited
      <4>3. QED
        BY <4>1, <4>2
    <3>3. QED
      BY <2>2, <2>3, <3>1, <3>2 DEF LiveIsRecorded, CancelledIsAwaited
  <2>9. StoppingIsOldest'
    BY <1>3, <2>1, <2>2, <2>3, <2>4, <2>6, RunsAssumption DEF StopInv, StoppingIsOldest, Runs
  <2>10. AllSlotsCount'
    BY <1>4, <2>3, SlotsStayCounted
  <2>11. QED
    BY <2>5, <2>7, <2>8, <2>9, <2>10 DEF StopInv
<1>5. CASE ~Pending(id) /\ FreeSlot(id) /\ UNCHANGED <<run, stopping>>
  <2>1. \A q \in Runs : Alive(q) /\ ~run[q].cancelled /\ run[q].at # "dying"
                        => run[q].id # id \/ Doubled(run[q].id)
    BY <1>5 DEF StopInv, LiveIsRecorded, Pending, Runs, NoRun
  <2>2. \A q \in Runs : (Alive(q)' <=> Alive(q)) /\ (Started(q)' <=> Started(q)) /\ Keeps(q)
    BY <1>5 DEF Alive, Started, Keeps
  <2>3. \A i : Doubled(i)' <=> Doubled(i)
    BY <1>5 DEF Doubled
  <2>4. RunsInv' /\ StoppingIsRun' /\ CancelledIsAwaited' /\ StoppingIsOldest'
    BY <1>5, <2>2, <2>3 DEF StopInv, RunsInv, InOrder, UnusedIsSingle, OneAtATime, StoppingIsRun,
                            CancelledIsAwaited, StoppingIsOldest, Started
  <2>5. LiveIsRecorded'
    BY <1>1, <1>2, <1>3, <1>5, <2>1, <2>2, <2>3 DEF StopInv, LiveIsRecorded, DictTypes
  <2>6. RecordedIsRun'
    BY <1>1, <1>2, <1>5 DEF StopInv, RecordedIsRun, Started, DictTypes
  <2>7. AllSlotsCount'
    BY <1>1, <1>5, <2>2, FreedSlotCounts
  <2>8. QED
    BY <2>4, <2>5, <2>6, <2>7 DEF StopInv
<1>6. QED
  BY <1>4, <1>5 DEF StopTask

LEMMA StopEndsStopInv ==
  ASSUME IInv, StopInv, NEW id \in Ids, StopEnds(id) PROVE StopInv'
<1>1. RunsOK /\ DictTypes /\ SlotsOK
  BY DEF IInv
<1>2. /\ ~Alive(stopping[id]) /\ stopping' = [stopping EXCEPT ![id] = NoRun]
      /\ UNCHANGED <<run, workerTasks>> /\ FreeSlot(id)
  BY DEF StopEnds, dictVars
<1>3. \A q \in Runs : (Alive(q)' <=> Alive(q)) /\ (Started(q)' <=> Started(q)) /\ Keeps(q)
  BY <1>2 DEF Alive, Started, Keeps
<1>4. \A i : Doubled(i)' <=> Doubled(i)
  BY <1>2 DEF Doubled
<1>5. \A q \in Runs : Alive(q) => run[q].id \in Ids
  BY <1>1, RunFields DEF Alive
<1>6. RunsInv' /\ LiveIsRecorded'
  BY <1>2, <1>3, <1>4 DEF StopInv, RunsInv, InOrder, UnusedIsSingle, OneAtATime, LiveIsRecorded
<1>7. RecordedIsRun' /\ StoppingIsRun'
  BY <1>1, <1>2 DEF StopInv, RecordedIsRun, StoppingIsRun, Started, DictTypes
<1>8. CancelledIsAwaited' /\ StoppingIsOldest'
  BY <1>1, <1>2, <1>3, <1>4, <1>5 DEF StopInv, CancelledIsAwaited, StoppingIsOldest, DictTypes
<1>9. AllSlotsCount'
  BY <1>1, <1>2, <1>3, FreedSlotCounts
<1>10. QED
  BY <1>6, <1>7, <1>8, <1>9 DEF StopInv

LEMMA NextStopInv == ASSUME IInv, StopInv, [Next]_vars PROVE StopInv'
<1>1. CASE \E r \in Runs : RunStep(r)
  BY <1>1, RunStepStopInv
<1>2. CASE \E id \in Ids : (\E topic \in Topics : Spawn(id, topic)) \/ SpawnStep(id)
  BY <1>2, SpawnStopInv, SpawnStoresStopInv, SpawnAbortsStopInv DEF SpawnStep
<1>3. CASE \E id \in Ids : Answer(id) \/ StopTask(id) \/ StopEnds(id) \/ StopFails(id)
  BY <1>3, AnswerStopInv, StopTaskStopInv, StopEndsStopInv, StopFailsStopInv
<1>4. CASE UNCHANGED vars
  BY <1>4, MarkedStopInv DEF vars, slotVars
<1>5. QED
  BY <1>1, <1>2, <1>3, <1>4 DEF Next

THEOREM StopInductive == Spec => []StopInv
<1>1. Init => StopInv
  BY InitStopInv
<1>2. IInv /\ StopInv /\ [Next]_vars => StopInv'
  BY NextStopInv
<1>3. QED
  BY <1>1, <1>2, Inductive, PTL DEF Spec

-----------------------------------------------------------------------------
(* "Release slot on DONE, ERROR, cancel, or worker crash" (doc/step-08.md):   *)
(* _run_with_slot and cancel_task leave no slot recorded for a task that no   *)
(* run works on, and lose none, whatever fails, is stopped, answered or       *)
(* interrupted, as long as no task has two runs at a time.                    *)
THEOREM SlotsAreUsed == Spec => []HeldIsUsed
<1>1. ASSUME IInv, StopInv PROVE HeldIsUsed
  BY <1>1, HeldIsWorkedOn DEF HeldIsUsed, StopInv, AllSlotsCount, AllSingle
<1>2. QED
  BY <1>1, Inductive, StopInductive, PTL

(* [STOP_TASK] finds every run there is to stop: _worker_tasks holds each run *)
(* that works (Supervisor.cancel_task), whatever fails, is interrupted,       *)
(* answered or stopped, but for a task that has had two runs at a time.       *)
THEOREM RunsAreStoppable == Spec => []Stoppable
<1>1. StopInv => Stoppable
  BY DEF StopInv, LiveIsRecorded, Stoppable, Working
<1>2. QED
  BY <1>1, StopInductive, PTL

(* When cancel_task comes back from a run it cancelled, no run that was there *)
(* before is at work on the task, but for one that has had two at a time.     *)
LEMMA StopStep ==
  ASSUME IInv, StopInv, [Next]_vars, NEW id \in Ids, stopping[id] # NoRun, stopping'[id] = NoRun
  PROVE  (\A r \in RunsOf(id)' : r > stopping[id]) \/ Doubled(id)'
<1>1. DictTypes /\ RunsOK
  BY DEF IInv
<1>2. StopEnds(id) \/ StopFails(id)
  <2>1. CASE \E r \in Runs : RunStep(r)
    BY <2>1, RunStepEffect DEF IInv, Effect, RunEffect
  <2>2. CASE \E i \in Ids : (\E topic \in Topics : Spawn(i, topic)) \/ SpawnStep(i)
    BY <2>2 DEF Spawn, SpawnStep, SpawnStores, SpawnAborts
  <2>3. CASE \E i \in Ids : Answer(i)
    BY <2>3 DEF Answer
  <2>4. CASE \E i \in Ids : StopTask(i)
    BY <1>1, <2>4 DEF StopTask, DictTypes, Pending
  <2>5. CASE \E i \in Ids : StopEnds(i) \/ StopFails(i)
    BY <1>1, <2>5 DEF StopEnds, StopFails, DictTypes
  <2>6. QED
    BY <2>1, <2>2, <2>3, <2>4, <2>5 DEF Next, vars
<1> DEFINE w == stopping[id]
<1>3. /\ w \in Runs /\ run'[w].at \in {"gone", "unused"}
      /\ \A r \in Runs : r # w => run'[r] = run[r]
      /\ \A r \in Runs : Keeps(r)
  <2>1. CASE StopEnds(id)
    <3>1. w \in Runs /\ ~Alive(w) /\ run' = run
      BY <1>1, <2>1 DEF StopEnds, DictTypes
    <3>2. QED
      BY <3>1 DEF Alive, Keeps, Started
  <2>2. CASE StopFails(id)
    <3>1. w \in Runs /\ RunChange(w) /\ run'[w].at = "gone"
      BY <2>2, StopFailsEffect
    <3> HIDE DEF w
    <3>2. QED
      BY <1>1, <3>1 DEF RunChange, Alive, Keeps, Started, RunsOK, RunTypes
  <2>3. QED
    BY <1>2, <2>1, <2>2
<1>4. Doubled(id) => Doubled(id)'
  BY <1>3, StaysDoubled DEF StopInv, RunsInv
<1>5. ASSUME NEW r \in RunsOf(id)', ~Doubled(id) PROVE r > w
  <2>1. r \in Runs /\ run'[r].id = id /\ run'[r].at \notin {"unused", "gone"}
    BY DEF RunsOf, Alive
  <2>2. r # w /\ Alive(r) /\ run[r].id = id
    BY <1>3, <2>1 DEF Alive
  <2>3. r >= w
    BY <1>5, <2>1, <2>2 DEF StopInv, StoppingIsOldest
  <2>4. QED
    BY <1>3, <2>1, <2>2, <2>3, RunsAssumption DEF Runs
<1>6. QED
  BY <1>4, <1>5

THEOREM StopsAreFinal == Spec => StopIsFinal
<1> DEFINE A == \A id \in Ids : stopping[id] # NoRun /\ stopping'[id] = NoRun
                  => (\A r \in RunsOf(id)' : r > stopping[id]) \/ Doubled(id)'
<1>1. IInv /\ StopInv /\ [Next]_vars => [A]_vars
  BY StopStep
<1>2. Spec => [][A]_vars
  BY <1>1, Inductive, StopInductive, PTL DEF Spec
<1>3. QED
  BY <1>2 DEF StopIsFinal

-----------------------------------------------------------------------------
(* No ghost tasks. If a model step may report the end of a task before its    *)
(* last report, or a write may fail, or the turn that spawns a task be cut    *)
(* short, a row can stay "running" with nobody at work on it: those are the   *)
(* hypotheses.                                                               *)

OnlyStops == Disturbances \subseteq {"stop"}

(* A task has one run at most then, which comes after its spawn.              *)
OneRunPerTask == \A q, r \in Runs : Started(q) /\ Started(r) /\ run[q].id = run[r].id => q = r

RunsAreSpawned ==
  \A r \in Runs : Started(r) => /\ spawn[run[r].id].at = "over" /\ run[r].at # "resumed"
                                /\ Alive(r) => run[r].topic \in Topics
                                /\ ~run[r].double

SpawnsATopic == \A id \in Ids : spawn[id].at = "registering" => spawn[id].topic \in Topics

OnceInv == OneRunPerTask /\ RunsAreSpawned /\ SpawnsATopic

LEMMA NoneDoubled == ASSUME StopInv, OnceInv, NEW id PROVE ~Doubled(id)
  BY DEF StopInv, RunsInv, UnusedIsSingle, OnceInv, RunsAreSpawned, Doubled

LEMMA MarkedOnceInv ==
  ASSUME RunsOK, OnceInv, \A q \in Runs : /\ run'[q].at = run[q].at /\ run'[q].id = run[q].id
                                          /\ run'[q].topic = run[q].topic /\ run'[q].double = run[q].double,
         \A id \in Ids : spawn'[id].topic = spawn[id].topic
                         /\ spawn'[id].at \in {spawn[id].at, "over"}
  PROVE  OnceInv'
<1>1. \A q \in Runs : (Alive(q)' <=> Alive(q)) /\ (Started(q)' <=> Started(q))
  BY DEF Alive, Started
<1>2. \A q \in Runs : Started(q) => run[q].id \in Ids
  BY RunFields DEF Started
<1>3. QED
  BY <1>1, <1>2 DEF OnceInv, OneRunPerTask, RunsAreSpawned, SpawnsATopic

LEMMA RunStepOnceInv ==
  ASSUME IInv, OnceInv, NEW r \in Runs, RunStep(r) PROVE OnceInv'
<1>1. RunsOK /\ RunEffect(r)
  BY RunStepEffect DEF IInv, Effect
<1>2. /\ \A q \in Runs : q # r => run'[q] = run[q]
      /\ Started(r) /\ Alive(r) /\ run'[r].at # "unused" /\ run'[r].double = run[r].double
      /\ run'[r].id = run[r].id /\ spawn' = spawn
  BY <1>1 DEF RunEffect, RunChange, Alive, Started, RunsOK, RunTypes
<1>3. \A q \in Runs : (Started(q)' <=> Started(q)) /\ run'[q].id = run[q].id
  BY <1>2 DEF Started
<1>4. OneRunPerTask' /\ SpawnsATopic'
  BY <1>2, <1>3 DEF OnceInv, OneRunPerTask, SpawnsATopic
<1>5. run'[r].at # "resumed" /\ (Alive(r)' => run'[r].topic = run[r].topic)
  BY <1>1, <1>2 DEF RunEffect, RunChange, Alive, OnceInv, RunsAreSpawned
<1>6. RunsAreSpawned'
  BY <1>2, <1>3, <1>5 DEF OnceInv, RunsAreSpawned, Alive
<1>7. QED
  BY <1>4, <1>6 DEF OnceInv

LEMMA SpawnOnceInv ==
  ASSUME IInv, OnceInv, NEW id \in Ids, NEW topic \in Topics, Spawn(id, topic) PROVE OnceInv'
<1>1. RunsOK
  BY DEF IInv
<1>2. /\ spawn[id].at = "none" /\ spawn' = [spawn EXCEPT ![id] = [at |-> "registering", topic |-> topic]]
      /\ run' = run
  BY DEF Spawn
<1>3. \A r \in Runs : Started(r) => run[r].id # id
  BY <1>2 DEF OnceInv, RunsAreSpawned
<1>4. RunsAreSpawned' /\ SpawnsATopic'
  BY <1>1, <1>2, <1>3 DEF OnceInv, RunsAreSpawned, SpawnsATopic, Started, Alive, RunsOK, RunTypes, RunsOfTasks
<1>5. QED
  BY <1>2, <1>4 DEF OnceInv, OneRunPerTask, Started

(* The run of a spawn that is over is the first of its task.                  *)
LEMMA SpawnStoresCreates ==
  ASSUME IInv, StopInv, OnceInv, NEW id \in Ids, SpawnStores(id)
  PROVE  /\ RunsOf(id) = {} /\ \A r \in Runs : Started(r) => run[r].id # id
         /\ \E topic \in Topics : topic = spawn[id].topic /\ CreateRun(id, topic, "created", FALSE)
<1>1. DictTypes /\ spawn[id].at = "registering" /\ Schedule(id, spawn[id].topic, FALSE)
  BY DEF IInv, SpawnStores
<1>2. \A r \in Runs : Started(r) => run[r].id # id
  BY <1>1 DEF OnceInv, RunsAreSpawned
<1>3. ~Pending(id)
  BY <1>1, <1>2 DEF StopInv, RecordedIsRun, Pending, DictTypes
<1>4. QED
  BY <1>1, <1>2, <1>3 DEF OnceInv, SpawnsATopic, Schedule, RunsOf, Alive, Started

LEMMA SpawnStoresOnceInv ==
  ASSUME IInv, StopInv, OnceInv, NEW id \in Ids, SpawnStores(id) PROVE OnceInv'
<1>1. RunsOK /\ spawn' = [spawn EXCEPT ![id].at = "over"]
  BY DEF IInv, SpawnStores
<1>2. PICK topic \in Topics, at \in {"created", "resumed"}, told \in BOOLEAN :
        at = "created" /\ CreateRun(id, topic, at, told)
  BY SpawnStoresCreates
<1>3. RunsOf(id) = {} /\ \A r \in Runs : Started(r) => run[r].id # id
  BY SpawnStoresCreates
<1> DEFINE new == NewRun(id, topic, at, told)
<1>4. PICK r \in Runs :
        /\ run[r].at = "unused" /\ run' = [run EXCEPT ![r] = new]
        /\ new.at = "created" /\ new.id = id /\ new.topic = topic
        /\ new.double = (RunsOf(id) # {})
  BY <1>1, <1>2, CreateRunStep
<1> HIDE DEF new
<1>5. /\ run'[r] = new /\ \A q \in Runs : q # r => run'[q] = run[q]
      /\ spawn'[id].at = "over" /\ \A i \in Ids : i # id => spawn'[i] = spawn[i]
      /\ ~new.double
  BY <1>1, <1>3, <1>4 DEF RunsOK, RunTypes, Spawning
<1>6. OneRunPerTask'
  BY <1>3, <1>4, <1>5 DEF OnceInv, OneRunPerTask, Started
<1>7. RunsAreSpawned' /\ SpawnsATopic'
  BY <1>1, <1>3, <1>4, <1>5 DEF OnceInv, RunsAreSpawned, SpawnsATopic, Started, Alive, RunsOK, RunsOfTasks
<1>8. QED
  BY <1>6, <1>7 DEF OnceInv

LEMMA StopOnceInv ==
  ASSUME IInv, OnceInv, NEW id \in Ids, StopTask(id) \/ StopEnds(id) PROVE OnceInv'
<1>1. RunsOK /\ DictTypes
  BY DEF IInv
<1>2. CASE run' = run
  BY <1>1, <1>2, MarkedOnceInv DEF StopTask, StopEnds
<1>3. CASE Pending(id) /\ run' = [run EXCEPT ![workerTasks[id]].cancelled = TRUE]
  <2>1. \A q \in Runs : /\ run'[q].at = run[q].at /\ run'[q].id = run[q].id
                        /\ run'[q].topic = run[q].topic /\ run'[q].double = run[q].double
    BY <1>1, <1>3 DEF Pending, DictTypes, RunsOK, RunTypes, Run
  <2>2. QED
    BY <1>1, <2>1, MarkedOnceInv DEF StopTask, StopEnds
<1>4. QED
  BY <1>2, <1>3 DEF StopTask, StopEnds

LEMMA NextOnceInv == ASSUME OnlyStops, IInv, StopInv, OnceInv, [Next]_vars PROVE OnceInv'
<1>1. CASE \E r \in Runs : RunStep(r)
  BY <1>1, RunStepOnceInv
<1>2. CASE \E id \in Ids : (\E topic \in Topics : Spawn(id, topic)) \/ SpawnStep(id)
  BY <1>2, SpawnOnceInv, SpawnStoresOnceInv DEF SpawnStep, SpawnAborts, OnlyStops
<1>3. CASE \E id \in Ids : Answer(id) \/ StopTask(id) \/ StopEnds(id) \/ StopFails(id)
  BY <1>3, StopOnceInv DEF OnlyStops, Answer, StopFails
<1>4. CASE UNCHANGED vars
  BY <1>4, MarkedOnceInv DEF vars, IInv
<1>5. QED
  BY <1>1, <1>2, <1>3, <1>4 DEF Next

LEMMA OnceInductive == ASSUME OnlyStops PROVE Spec => []OnceInv
<1>1. Init => OnceInv
  BY UnusedType DEF Init, OnceInv, OneRunPerTask, RunsAreSpawned, SpawnsATopic, Started
<1>2. IInv /\ StopInv /\ OnceInv /\ [Next]_vars => OnceInv'
  BY NextOnceInv
<1>3. QED
  BY <1>1, <1>2, Inductive, StopInductive, PTL DEF Spec

(* A task that ended, or failed, is not on the board as a running one while   *)
(* its run goes, so that nothing is lost when the run is gone.                *)
EndedNotRunning ==
  \A r \in Runs : Alive(r) /\ (run[r].last \/ run[r].at = "dying") =>
    \A row \in RowsOf(active) : row.id = run[r].id => row.status # "running"

RunningRowsAttended == \A row \in RowsOf(active) : row.status = "running" => Attended(row.id)

AttendInv == ReportsOK /\ EndedNotRunning /\ RunningRowsAttended

LEMMA AttendInvAttended == ASSUME AttendInv PROVE RunningIsAttended
  BY DEF AttendInv, RunningRowsAttended, RunningIsAttended, RowsOf

LEMMA InitAttendInv == ASSUME Init PROVE AttendInv
  BY DEF Init, AttendInv, ReportsOK, LastIsLast, ReportsEndLast, EndedNotRunning, RunningRowsAttended, Alive,
         Unused, RowsOf

LEMMA RunStepAttended ==
  ASSUME OnlyStops, EndsLast, IInv, StopInv, OnceInv, AttendInv, NEW r \in Runs, RunStep(r)
  PROVE  AttendInv'
<1>1. RunsOK /\ BoardOK /\ RunEffect(r) /\ ReportsOK
  BY RunStepEffect DEF IInv, Effect, AttendInv
<1>2. /\ Alive(r) /\ \A q \in Runs : q # r => run'[q] = run[q]
      /\ run'[r].id = run[r].id /\ spawn' = spawn /\ stopping' = stopping
  BY <1>1 DEF RunEffect, RunChange, RunsOK, RunTypes
<1>3. ReportsOK'
  BY <1>1, RunStepReportsOK
<1>4. \/ MovesOn(r) \/ Reenters(r) \/ Fails(r) \/ Departs(r)
      \/ \E kind \in Kinds, rest \in Seq(Kinds) : Reports(r, kind, rest)
  BY <1>1, RunStepCases
<1>5. EndedNotRunning'
  <2> SUFFICES ASSUME NEW q \in Runs, Alive(q)', run'[q].last \/ run'[q].at = "dying",
                      NEW row \in RowsOf(active'), row.id = run'[q].id
               PROVE  row.status # "running"
    BY DEF EndedNotRunning
  <2>1. CASE q # r
    <3>1. run'[q] = run[q] /\ Alive(q)
      BY <1>2, <2>1 DEF Alive
    <3>2. run[q].id # run[r].id
      BY <1>2, <2>1, <3>1 DEF OnceInv, OneRunPerTask, Started, Alive
    <3>3. row \in RowsOf(active)
      BY <3>1, <3>2, OtherRows
    <3>4. QED
      BY <3>1, <3>3 DEF AttendInv, EndedNotRunning
  <2>2. CASE q = r
    <3>1. CASE MovesOn(r) \/ Reenters(r)
      BY <1>1, <1>2, <2>2, <3>1 DEF MovesOn, Reenters, SameReports, ReportsOK, LastIsLast
    <3>2. CASE Fails(r)
      <4>1. "ERROR" \in Kinds /\ Finalizes("ERROR")
        BY DEF Kinds, Finalizes
      <4>2. QED
        BY <1>2, <2>2, <3>2, <4>1, ReportedRow DEF Fails
    <3>3. CASE Departs(r)
      BY <2>2, <3>3 DEF Departs, Alive
    <3>4. CASE \E kind \in Kinds, rest \in Seq(Kinds) : Reports(r, kind, rest)
      <4>1. PICK kind \in Kinds, rest \in Seq(Kinds) : Reports(r, kind, rest)
        BY <3>4
      <4>2. ~run[r].last /\ Says(r, kind, rest) /\ Upsert(run[r].id, kind)
        BY <1>1, <1>2, <4>1, SaysLast DEF Reports
      <4>3. Ends(kind)
        BY <2>2, <4>1, <4>2 DEF Reports
      <4>4. ~Finalizes(kind) /\ row.status = StatusAfter(kind)
        BY <1>2, <2>2, <4>2, ReportedRow
      <4>5. QED
        BY <4>3, <4>4 DEF Ends, Finalizes, Kinds, StatusAfter
    <3>5. QED
      BY <1>4, <3>1, <3>2, <3>3, <3>4
  <2>3. QED
    BY <2>1, <2>2
<1>6. RunningRowsAttended'
  <2> SUFFICES ASSUME NEW row \in RowsOf(active'), row.status = "running"
               PROVE  Attended(row.id)'
    BY DEF RunningRowsAttended
  <2>1. CASE row.id # run[r].id
    <3>1. row \in RowsOf(active)
      BY <2>1, OtherRows
    <3>2. Attended(row.id)
      BY <3>1 DEF AttendInv, RunningRowsAttended
    <3>3. \A q \in Runs : q \in RunsOf(row.id) => run'[q] = run[q]
      BY <1>2, <2>1 DEF RunsOf
    <3>4. QED
      BY <1>2, <3>2, <3>3 DEF Attended, RunsOf, Alive
  <2>2. CASE row.id = run[r].id /\ Alive(r)'
    BY <1>2, <2>2 DEF Attended, RunsOf
  <2>3. CASE row.id = run[r].id /\ ~Alive(r)'
    <3>1. Departs(r)
      BY <1>4, <2>3, <1>1 DEF Alive, MovesOn, Reenters, Fails, Reports, RunEffect, RunChange
    <3>2. row \in RowsOf(active)
      BY <3>1 DEF Departs, boardVars
    <3>3. ~run[r].last /\ run[r].at # "dying"
      BY <1>2, <2>3, <3>2 DEF AttendInv, EndedNotRunning
    <3>4. run[r].topic \in Topics /\ "build_error" \notin Disturbances
      BY <1>2 DEF OnlyStops, OnceInv, RunsAreSpawned, Started, Alive
    <3>5. run[r].cancelled
      BY <3>1, <3>3, <3>4, TopicsAssumption DEF Departs
    <3>6. stopping[row.id] = r
      BY <1>2, <2>3, <3>5, NoneDoubled DEF StopInv, CancelledIsAwaited
    <3>7. QED
      BY <1>2, <3>6 DEF Attended, Runs, NoRun
  <2>4. QED
    BY <2>1, <2>2, <2>3
<1>7. QED
  BY <1>3, <1>5, <1>6 DEF AttendInv

LEMMA SpawnAttended ==
  ASSUME IInv, StopInv, OnceInv, AttendInv, NEW id \in Ids, NEW topic \in Topics, Spawn(id, topic)
  PROVE  AttendInv'
<1> DEFINE new == [id |-> id, topic |-> topic, status |-> "running"]
<1>1. BoardOK /\ RunsOK
  BY DEF IInv
<1>2. /\ spawn[id].at = "none" /\ spawn' = [spawn EXCEPT ![id] = [at |-> "registering", topic |-> topic]]
      /\ UNCHANGED <<run, stopping>> /\ Register(new)
  BY DEF Spawn
<1>3. new \in Row /\ new.id = id /\ id \notin IdsOf(active)
  BY <1>2 DEF Row, Statuses, IInv, RowsOfTasks
<1>4. RowsOf(active') \subseteq RowsOf(active) \cup {new}
  BY <1>1, <1>2, <1>3, RegisterStep
<1>5. \A r \in Runs : Started(r) => run[r].id # id
  BY <1>2 DEF OnceInv, RunsAreSpawned
<1>6. ReportsOK'
  BY <1>2 DEF AttendInv, ReportsOK, LastIsLast, ReportsEndLast, Alive
<1>7. EndedNotRunning'
  BY <1>2, <1>4, <1>5 DEF AttendInv, EndedNotRunning, Alive, Started
<1>8. spawn'[id].at = "registering" /\ \A i : i # id => spawn'[i] = spawn[i]
  BY <1>1, <1>2 DEF RunsOK, RunTypes
<1>9. RunningRowsAttended'
  BY <1>2, <1>4, <1>8 DEF AttendInv, RunningRowsAttended, Attended, RunsOf, Alive
<1>10. QED
  BY <1>6, <1>7, <1>9 DEF AttendInv

LEMMA SpawnStoresAttended ==
  ASSUME IInv, StopInv, OnceInv, AttendInv, NEW id \in Ids, SpawnStores(id)
  PROVE  AttendInv'
<1>1. RunsOK /\ DictTypes
  BY DEF IInv
<1>2. /\ spawn[id].at = "registering" /\ spawn' = [spawn EXCEPT ![id].at = "over"]
      /\ UNCHANGED <<active, stopping>>
  BY DEF SpawnStores, boardVars
<1>6. PICK topic \in Topics, at \in {"created", "resumed"}, told \in BOOLEAN :
        CreateRun(id, topic, at, told)
  BY SpawnStoresCreates
<1> DEFINE new == NewRun(id, topic, at, told)
<1>7. PICK r \in Runs :
        /\ run[r].at = "unused" /\ run' = [run EXCEPT ![r] = new]
        /\ new.at = at /\ new.id = id /\ ~new.last /\ new.reports = <<>>
  BY <1>1, <1>6, CreateRunStep
<1> HIDE DEF new
<1>8. run'[r] = new /\ \A q \in Runs : q # r => run'[q] = run[q]
  BY <1>1, <1>7 DEF RunsOK, RunTypes
<1>9. ReportsOK'
  <2>1. EndsAtLast(<<>>)
    BY EmptySeq DEF EndsAtLast
  <2>2. QED
    BY <1>7, <1>8, <2>1 DEF AttendInv, ReportsOK, LastIsLast, ReportsEndLast, Alive
<1>10. EndedNotRunning'
  BY <1>2, <1>6, <1>7, <1>8 DEF AttendInv, EndedNotRunning, Alive
<1>11. RunningRowsAttended'
  <2>1. \A q \in Runs : Alive(q) => Alive(q)' /\ run'[q].id = run[q].id
    BY <1>7, <1>8 DEF Alive
  <2>2. Alive(r)' /\ run'[r].id = id
    BY <1>6, <1>7, <1>8 DEF Alive
  <2>3. \A i : i # id => spawn'[i] = spawn[i]
    BY <1>1, <1>2 DEF RunsOK, RunTypes
  <2>4. QED
    BY <1>2, <2>1, <2>2, <2>3 DEF AttendInv, RunningRowsAttended, Attended, RunsOf
<1>12. QED
  BY <1>9, <1>10, <1>11 DEF AttendInv

(* What is left of the board is not touched.                                  *)
LEMMA StopAttended ==
  ASSUME IInv, AttendInv, NEW id \in Ids, StopTask(id) \/ StopEnds(id)
  PROVE  AttendInv'
<1>1. RunsOK /\ DictTypes /\ BoardOK
  BY DEF IInv
<1>2. spawn' = spawn
  BY DEF StopTask, StopEnds
<1>3. CASE /\ Pending(id) /\ stopping' = [stopping EXCEPT ![id] = workerTasks[id]]
           /\ run' = [run EXCEPT ![workerTasks[id]].cancelled = TRUE]
           /\ UNCHANGED <<boardVars, slotVars>>
  <2>1. workerTasks[id] \in Runs /\ workerTasks[id] # NoRun
    BY <1>1, <1>3 DEF Pending, DictTypes
  <2>2. \A q \in Runs : /\ run'[q].id = run[q].id /\ run'[q].at = run[q].at
                        /\ run'[q].last = run[q].last /\ run'[q].reports = run[q].reports
    BY <1>1, <1>3, <2>1 DEF RunsOK, RunTypes, Run
  <2>3. ReportsOK'
    BY <2>2 DEF AttendInv, ReportsOK, LastIsLast, ReportsEndLast, Alive
  <2>4. EndedNotRunning'
    BY <1>3, <2>2 DEF AttendInv, EndedNotRunning, Alive, boardVars
  <2>5. RunningRowsAttended'
    BY <1>1, <1>2, <1>3, <2>1, <2>2
       DEF AttendInv, RunningRowsAttended, Attended, RunsOf, Alive, boardVars, DictTypes
  <2>6. QED
    BY <2>3, <2>4, <2>5 DEF AttendInv
<1>4. CASE MarkCancelled(id) /\ run' = run /\ \A i \in Ids \ {id} : stopping'[i] = stopping[i]
  <2>1. RowsOf(active') = Others(active, id)
    BY <1>1, <1>4, MarkCancelledStep
  <2>2. \A row \in RowsOf(active) : row.id \in Ids
    BY <1>1, RowsAreRows DEF BoardOK, Row
  <2>3. ReportsOK' /\ EndedNotRunning'
    BY <1>4, <2>1 DEF AttendInv, ReportsOK, LastIsLast, ReportsEndLast, EndedNotRunning, Alive, Others
  <2>4. RunningRowsAttended'
    BY <1>2, <1>4, <2>1, <2>2 DEF AttendInv, RunningRowsAttended, Attended, RunsOf, Alive, Others
  <2>5. QED
    BY <2>3, <2>4 DEF AttendInv
<1>5. QED
  BY <1>1, <1>3, <1>4 DEF StopTask, StopEnds, DictTypes

LEMMA NextAttendInv ==
  ASSUME OnlyStops, EndsLast, IInv, StopInv, OnceInv, AttendInv, [Next]_vars
  PROVE  AttendInv'
<1>1. CASE \E r \in Runs : RunStep(r)
  BY <1>1, RunStepAttended
<1>2. CASE \E id \in Ids : (\E topic \in Topics : Spawn(id, topic)) \/ SpawnStep(id)
  BY <1>2, SpawnAttended, SpawnStoresAttended DEF SpawnStep, SpawnAborts, OnlyStops
<1>3. CASE \E id \in Ids : Answer(id) \/ StopTask(id) \/ StopEnds(id) \/ StopFails(id)
  BY <1>3, StopAttended DEF OnlyStops, Answer, StopFails
<1>4. CASE UNCHANGED vars
  BY <1>4 DEF vars, AttendInv, ReportsOK, LastIsLast, ReportsEndLast, EndedNotRunning, RunningRowsAttended,
              Attended, RunsOf, Alive, RowsOf
<1>5. QED
  BY <1>1, <1>2, <1>3, <1>4 DEF Next

(* "No ghost tasks" (PLAN.md): a row that says "running" is being registered, *)
(* has a run at work on it, or a cancel_task that waits for its run. It is so *)
(* for every task, board, number of slots and of steps when the turns only    *)
(* spawn and stop tasks, no write fails, and a model step says that a task    *)
(* ends, or pauses, in its last report.                                      *)
THEOREM NoGhostTasks == ASSUME OnlyStops, EndsLast PROVE Spec => []RunningIsAttended
<1>1. Init => AttendInv
  BY InitAttendInv
<1>2. IInv /\ StopInv /\ OnceInv /\ AttendInv /\ [Next]_vars => AttendInv'
  BY NextAttendInv
<1>3. AttendInv => RunningIsAttended
  BY AttendInvAttended
<1>4. QED
  BY <1>1, <1>2, <1>3, Inductive, StopInductive, OnceInductive, PTL DEF Spec
=============================================================================
