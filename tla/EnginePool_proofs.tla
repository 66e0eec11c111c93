-------------------------- MODULE EnginePool_proofs --------------------------
(* Theorems about EnginePool, for any number of slots, jobs, chats and       *)
(* tasks and any set of disturbances.                                        *)
EXTENDS EnginePool, TLAPS

(* What the proofs use of the constants.                                     *)
LEMMA ConstantFacts ==
  /\ ParallelSlots \in Nat \ {0} /\ MaxJobs \in Nat /\ MaxRuns \in Nat /\ MaxTokens \in Nat
  /\ Slots \subseteq Nat /\ NoSlot \notin Slots /\ NoHint \notin Slots
  /\ SubmitHints \subseteq Slots \cup {NoHint} /\ ChatHints \subseteq Slots \cup {NoHint}
  /\ SubmitPriorities \subseteq 0 .. 2
  /\ Jobs \subseteq Nat /\ NoJob \notin Jobs
  BY SlotsAssumption, BoundsAssumption, HintsAssumption, PrioritiesAssumption
  DEF Slots, NoSlot, NoHint, Jobs, NoJob, P0_MAIN, P1_SUBAGENT, P2_SUMMARIZER

(* A claim yields a slot of the pool, and the slot assign_slot picks is free  *)
(* and is not Main's.                                                        *)
LEMMA ClaimedSlots ==
  /\ \A h \in Slots \cup {NoHint} : Available(h) \subseteq Slots
  /\ Assignable \subseteq (Slots \ {0}) \ busy
  BY DEF Available, Assignable

-----------------------------------------------------------------------------
(* Type correctness                                                          *)

(* A new pool is well typed.                                                 *)
LEMMA InitType == Init => TypeOK
  BY ConstantFacts
  DEF Init, TypeOK, JobRecord, JobState, Handle, Chat, P0_MAIN

(* Steps of a job and of the dispatcher keep the types.                      *)
LEMMA JobType ==
  ASSUME TypeOK, NEW j \in Jobs, JobStep(j)
  PROVE  TypeOK'
<1> USE ConstantFacts DEF TypeOK, JobRecord, JobState, Handle, queueVars, jobVars, workerVars
<1>1. ASSUME NEW p \in SubmitPriorities, NEW h \in SubmitHints, Submit(j, p, h)
      PROVE  TypeOK'
  <2>1. [priority |-> p, hint |-> h, hold |-> FALSE] \in JobRecord
    BY DEF JobRecord
  <2>2. job' \in [Jobs -> JobRecord] /\ sequence' \in 0 .. MaxJobs
    BY <1>1, <2>1 DEF Submit, Enqueue, Jobs
  <2>3. QED
    BY <1>1, <2>2 DEF Submit, Enqueue, StartDispatcher
<1>a. Available(job[j].hint) \subseteq Slots
  BY ClaimedSlots
<1>2. CASE Dispatch(j)
  <2>1. CASE Available(job[j].hint) = {}
    BY <1>2, <2>1 DEF Dispatch
  <2>2. ASSUME NEW s \in Available(job[j].hint),
               st' = [st EXCEPT ![j] = "spawned"], slot' = [slot EXCEPT ![j] = s],
               busy' = busy \cup {s}, UNCHANGED dispatcher
        PROVE  TypeOK'
    BY <1>2, <1>a, <2>2 DEF Dispatch
  <2>3. QED
    BY <1>2, <2>1, <2>2 DEF Dispatch
<1>3. CASE DispatchWakes(j)
  <2>1. PICK s \in Available(job[j].hint) :
               /\ st' = [st EXCEPT ![j] = "spawned"] /\ slot' = [slot EXCEPT ![j] = s]
               /\ busy' = busy \cup {s}
    BY <1>3 DEF DispatchWakes
  <2>2. QED
    BY <1>3, <1>a, <2>1 DEF DispatchWakes
<1>4. CASE JobStarts(j)
  BY <1>4 DEF JobStarts
<1>5. CASE Token(j)
  BY <1>5 DEF Token
<1>6. ASSUME NEW how \in {"ended", "failed"}, JobEnds(j, how)
      PROVE  TypeOK'
  <2>1. End(handle[j], how) \in Handle
    BY <1>6 DEF End
  <2>2. handle' \in [Jobs -> Handle]
    BY <1>6, <2>1 DEF JobEnds
  <2>3. QED
    BY <1>6, <2>2 DEF JobEnds
<1>7. CASE CancelHandle(j)
  <2>0. End(handle[j], "ended") \in Handle
    BY DEF End
  <2>1. [End(handle[j], "ended") EXCEPT !.cancelled = TRUE] \in Handle
    BY <2>0
  <2>2. handle' \in [Jobs -> Handle]
    BY <1>7, <2>1 DEF CancelHandle
  <2>3. QED
    BY <1>7, <2>2 DEF CancelHandle
<1>8. QED
  BY <1>1, <1>2, <1>3, <1>4, <1>5, <1>6, <1>7
  DEF JobStep, StreamEnds, StreamFails, AbortJob

(* Steps of a complete_chat call keep the types.                             *)
LEMMA ChatType ==
  ASSUME TypeOK, NEW c \in Chats, ChatStep(c)
  PROVE  TypeOK'
<1> USE ConstantFacts DEF TypeOK, Chat, queueVars, jobVars, workerVars
<1>1. ASSUME NEW h \in ChatHints, ChatCalls(c, h)
      PROVE  TypeOK'
  <2>1. Available(h) \subseteq Slots
    BY ClaimedSlots
  <2>2. ASSUME NEW s \in Slots
        PROVE  [st |-> "running", hint |-> h, slot |-> s] \in Chat
    OBVIOUS
  <2>3. [st |-> "waiting", hint |-> h, slot |-> NoSlot] \in Chat
    OBVIOUS
  <2>4. chat' \in [Chats -> Chat] /\ busy' \subseteq Slots
    <3>1. CASE Available(h) = {}
      <4> HIDE DEF Chat
      <4> QED
        BY <1>1, <2>3, <3>1 DEF ChatCalls
    <3>2. ASSUME NEW s \in Available(h),
                 chat' = [chat EXCEPT ![c] = [st |-> "running", hint |-> h, slot |-> s]],
                 busy' = busy \cup {s}
          PROVE  chat' \in [Chats -> Chat] /\ busy' \subseteq Slots
      <4> HIDE DEF Chat
      <4> QED
        BY <2>1, <2>2, <3>2
    <3>3. QED
      BY <1>1, <3>1, <3>2 DEF ChatCalls
  <2>5. QED
    BY <1>1, <2>4 DEF ChatCalls, StartDispatcher
<1>2. CASE ChatWakes(c)
  <2>1. Available(chat[c].hint) \subseteq Slots
    BY ClaimedSlots
  <2>2. PICK s \in Available(chat[c].hint) :
          /\ chat' = [chat EXCEPT ![c].st = "running", ![c].slot = s]
          /\ busy' = busy \cup {s}
    BY <1>2 DEF ChatWakes
  <2>3. [chat[c] EXCEPT !.st = "running", !.slot = s] \in Chat
    <3>1. chat[c] \in Chat /\ s \in Slots
      BY <2>1
    <3> HIDE DEF TypeOK
    <3> QED
      BY <3>1
  <2>4. chat' \in [Chats -> Chat]
    <3> HIDE DEF Chat
    <3> QED
      BY <2>2, <2>3
  <2>5. QED
    BY <1>2, <2>1, <2>2, <2>4 DEF ChatWakes
<1>3. CASE ChatEnds(c)
  BY <1>3 DEF ChatEnds
<1>4. CASE ChatLeaves(c)
  BY <1>4 DEF ChatLeaves
<1>5. QED
  BY <1>1, <1>2, <1>3, <1>4 DEF ChatStep

(* Steps of a sub-agent, started, stopped or ended, keep the types.          *)
LEMMA TaskType ==
  ASSUME TypeOK, NEW t \in Tasks, TaskStep(t)
  PROVE  TypeOK'
<1> USE ConstantFacts DEF TypeOK, queueVars, jobVars, workerVars
<1>1. CASE WorkerStarts(t)
  <2>1. ASSUME NEW s \in Assignable, AssignSlot(t, s)
        PROVE  TypeOK'
    BY <1>1, <2>1, ClaimedSlots DEF WorkerStarts, AssignSlot
  <2>2. CASE UNCHANGED <<busy, taskSlot>> /\ worker' = [worker EXCEPT ![t] = "assigning"]
    BY <1>1, <2>2 DEF WorkerStarts
  <2>3. QED
    BY <1>1, <2>1, <2>2 DEF WorkerStarts
<1>2. CASE WorkerWakes(t)
  BY <1>2, ClaimedSlots DEF WorkerWakes, AssignSlot
<1>3. ASSUME NEW j \in Jobs, SubmitAssigned(t, j)
      PROVE  TypeOK'
  <2>1. [priority |-> P1_SUBAGENT, hint |-> taskSlot[t], hold |-> TRUE] \in JobRecord
    BY <1>3 DEF SubmitAssigned, JobRecord, P1_SUBAGENT
  <2>2. job' \in [Jobs -> JobRecord] /\ sequence' \in 0 .. MaxJobs
    BY <1>3, <2>1 DEF SubmitAssigned, Enqueue, Jobs
  <2>3. QED
    BY <1>3, <2>2 DEF SubmitAssigned, Enqueue, StartDispatcher, JobState
<1>4. CASE ModelStepReturns(t)
  BY <1>4 DEF ModelStepReturns
<1>5. CASE WorkerEnds(t)
  BY <1>5 DEF WorkerEnds, FreeSlot
<1>6. CASE StopTask(t)
  BY <1>6 DEF StopTask, FreeSlot
<1>7. QED
  BY <1>1, <1>2, <1>3, <1>4, <1>5, <1>6 DEF TaskStep

(* close() keeps the types.                                                  *)
LEMMA CloseType == TypeOK /\ (Close \/ CancelJobs) => TypeOK'
  BY DEF TypeOK, Close, CancelJobs, JobState, queueVars, workerVars

(* Every variable keeps its type: in particular sequence numbers, slots and  *)
(* hints stay in range, so _validate_slot never fails inside the pool.       *)
THEOREM TypeCorrect == Spec => []TypeOK
<1>1. TypeOK /\ [Next]_vars => TypeOK'
  <2> SUFFICES ASSUME TypeOK, [Next]_vars PROVE TypeOK'
    OBVIOUS
  <2>1. CASE UNCHANGED vars
    BY <2>1 DEF TypeOK, vars
  <2>2. QED
    BY <2>1, JobType, ChatType, TaskType, CloseType DEF Next
<1>2. QED
  BY InitType, <1>1, PTL DEF Spec

-----------------------------------------------------------------------------
(* Reservations. The inductive invariant says of every slot in use, other    *)
(* than those that are hinted, whose release is whose: streams without a     *)
(* reservation and chats hold a slot that is busy, that no task has reserved *)
(* and that they share with nobody, so that what they release is never a     *)
(* task's.                                                                   *)

Releasing(j) == st[j] \in {"spawned", "streaming"} /\ ~job[j].hold
Running(c) == chat[c].st = "running"

TaskPart ==
  /\ \A t \in Tasks : taskSlot[t] # 0
  /\ ReservedUntilFreed /\ ReservationsExclusive

JobPart ==
  /\ \A j \in Jobs : Releasing(j) /\ slot[j] \notin HintedSlots => slot[j] \in busy /\ slot[j] \notin Reserved
  /\ \A j, k \in Jobs : Releasing(j) /\ Releasing(k) /\ slot[j] = slot[k] /\ slot[j] \notin HintedSlots => j = k

ChatPart ==
  /\ \A c \in Chats : Running(c) /\ chat[c].slot \notin HintedSlots
                      => chat[c].slot \in busy /\ chat[c].slot \notin Reserved
  /\ \A c, d \in Chats : Running(c) /\ Running(d) /\ chat[c].slot = chat[d].slot
                         /\ chat[c].slot \notin HintedSlots => c = d
  /\ \A c \in Chats, j \in Jobs : Running(c) /\ Releasing(j) /\ chat[c].slot = slot[j]
                                   => slot[j] \in HintedSlots

(* What a claim may ask for: nothing, Main's slot, or a hinted one.           *)
Asked == {NoHint, 0} \cup HintedSlots

HintPart ==
  /\ \A j \in Jobs : st[j] \in {"queued", "claiming"} =>
       IF job[j].hold THEN job[j].hint \in Slots \ {0} ELSE job[j].hint \in Asked
  /\ \A c \in Chats : chat[c].st = "waiting" => chat[c].hint \in Asked

OwnershipInv == TypeOK /\ TaskPart /\ JobPart /\ ChatPart /\ HintPart

(* A claim without a hint, or with Main's, only ever gets a free slot; one    *)
(* with another hint gets a hinted slot.                                     *)
LEMMA ClaimIsExclusive ==
  ASSUME TypeOK, TaskPart, NEW h \in Asked, NEW s \in Available(h)
  PROVE  s \in Slots /\ (s \notin busy \/ s \in HintedSlots)
<1>1. 0 \notin Reserved
  BY DEF TaskPart, Reserved, NoSlot
<1>2. CASE h = NoHint
  BY <1>2 DEF Available
<1>3. CASE h = 0
  BY <1>1, <1>3, ConstantFacts DEF Available, NoHint, Slots
<1>4. CASE h \in HintedSlots
  BY <1>4, ConstantFacts DEF Available, HintedSlots
<1>5. QED
  BY <1>2, <1>3, <1>4 DEF Asked

(* Hints are slots, or none.                                                 *)
LEMMA HintsAsked == \A h \in SubmitHints \cup ChatHints : h \in Asked
  BY DEF Asked, HintedSlots

(* A new pool has no reservations to violate.                                *)
LEMMA InitOwnership == Init => OwnershipInv
  BY InitType, ConstantFacts
  DEF Init, OwnershipInv, TaskPart, ReservedUntilFreed, ReservationsExclusive, JobPart, ChatPart,
      HintPart, Releasing, Running, NoSlot

(* A job that gets slot s on its way from the queue: a reserved job on its   *)
(* task's slot or a free one, any other on a free slot only.                 *)
LEMMA ClaimForJob ==
  ASSUME OwnershipInv, TypeOK', NEW j \in Jobs, st[j] \in {"queued", "claiming"},
         NEW s \in Available(job[j].hint),
         st' = [st EXCEPT ![j] = "spawned"], slot' = [slot EXCEPT ![j] = s],
         busy' = busy \cup {s}, UNCHANGED <<job, taskSlot, chat>>
  PROVE  TaskPart' /\ JobPart' /\ ChatPart' /\ HintPart'
<1> USE DEF OwnershipInv
<1>1. ~job[j].hold => s \notin busy \/ s \in HintedSlots
  BY ClaimIsExclusive DEF HintPart
<1>2. Reserved' = Reserved
  BY DEF Reserved
<1>3. \A k \in Jobs \ {j} : (Releasing(k)' <=> Releasing(k)) /\ slot'[k] = slot[k]
  BY DEF Releasing, TypeOK
<1>4. Releasing(j)' => ~job[j].hold /\ slot'[j] = s
  BY DEF Releasing, TypeOK
<1>5. Reserved \ HintedSlots \subseteq busy
  BY DEF TaskPart, ReservedUntilFreed, Reserved
<1>6. TaskPart'
  BY DEF TaskPart, ReservedUntilFreed, ReservationsExclusive
<1>7. JobPart'
  BY <1>1, <1>2, <1>3, <1>4, <1>5 DEF JobPart
<1>8. ChatPart'
  BY <1>1, <1>2, <1>3, <1>4 DEF ChatPart, Running
<1>9. HintPart'
  BY DEF HintPart, TypeOK
<1>10. QED
  BY <1>6, <1>7, <1>8, <1>9

(* Steps of a job keep ownership: a stream releases no reserved slot.        *)
LEMMA JobOwnership ==
  ASSUME OwnershipInv, TypeOK', NEW j \in Jobs, JobStep(j)
  PROVE  OwnershipInv'
<1> USE DEF OwnershipInv
<1>1. ASSUME NEW p \in SubmitPriorities, NEW h \in SubmitHints, Submit(j, p, h)
      PROVE  OwnershipInv'
  <2>1. TaskPart'
    BY <1>1 DEF Submit, Enqueue, TaskPart, ReservedUntilFreed, ReservationsExclusive
  <2>2. \A k \in Jobs : Releasing(k)' => Releasing(k)
    BY <1>1 DEF Submit, Enqueue, Releasing, TypeOK
  <2>3. JobPart' /\ ChatPart'
    BY <1>1, <2>2 DEF Submit, Enqueue, JobPart, ChatPart, Running, Reserved
  <2>4. HintPart'
    BY <1>1, HintsAsked DEF Submit, Enqueue, HintPart, TypeOK
  <2>5. QED
    BY <2>1, <2>3, <2>4
<1>2. CASE Dispatch(j)
  <2>1. CASE Available(job[j].hint) = {}
    BY <1>2, <2>1
    DEF Dispatch, NextItem, Queue, queueVars, workerVars, TaskPart, ReservedUntilFreed, ReservationsExclusive, JobPart,
        ChatPart, HintPart, Releasing, Running, Reserved, TypeOK
  <2>2. ASSUME NEW s \in Available(job[j].hint),
               st' = [st EXCEPT ![j] = "spawned"], slot' = [slot EXCEPT ![j] = s],
               busy' = busy \cup {s}
        PROVE  OwnershipInv'
    BY <1>2, <2>2, ClaimForJob DEF Dispatch, NextItem, Queue, queueVars
  <2>3. QED
    BY <1>2, <2>1, <2>2 DEF Dispatch
<1>3. CASE DispatchWakes(j)
  <2>1. PICK s \in Available(job[j].hint) :
               /\ st' = [st EXCEPT ![j] = "spawned"] /\ slot' = [slot EXCEPT ![j] = s]
               /\ busy' = busy \cup {s}
    BY <1>3 DEF DispatchWakes
  <2>2. QED
    BY <1>3, <2>1, ClaimForJob DEF DispatchWakes, queueVars
<1>4. CASE JobStarts(j)
  BY <1>4
  DEF JobStarts, queueVars, workerVars, TaskPart, ReservedUntilFreed, ReservationsExclusive, JobPart,
      ChatPart, HintPart, Releasing, Running, Reserved, TypeOK
<1>5. CASE Token(j) \/ CancelHandle(j)
  BY <1>5
  DEF Token, CancelHandle, queueVars, workerVars, TaskPart, ReservedUntilFreed, ReservationsExclusive, JobPart,
      ChatPart, HintPart, Releasing, Running, Reserved
<1>6. ASSUME NEW how \in {"ended", "failed"}, JobEnds(j, how)
      PROVE  OwnershipInv'
  <2>1. Reserved' = Reserved
    BY <1>6 DEF JobEnds, Reserved
  <2>2. \A k \in Jobs : Releasing(k)' => Releasing(k) /\ k # j
    BY <1>6 DEF JobEnds, queueVars, Releasing, TypeOK
  <2>3. Releasing(j) <=> ~job[j].hold
    BY <1>6 DEF JobEnds, Releasing
  <2>4. TaskPart'
    <3>1. UNCHANGED taskSlot /\ st[j] = "streaming"
      BY <1>6 DEF JobEnds, workerVars
    <3>2. \A s \in busy \ busy' : s = slot[j] /\ Releasing(j)
      BY <1>6, <2>3 DEF JobEnds
    <3>3. \A t \in Tasks : taskSlot[t] \in Reserved \cup {NoSlot}
      BY DEF Reserved
    <3>4. ReservedUntilFreed'
      BY <3>1, <3>2, <3>3 DEF ReservedUntilFreed, TaskPart, JobPart
    <3>5. ReservationsExclusive'
      BY <3>1 DEF ReservationsExclusive, TaskPart
    <3>6. QED
      BY <3>1, <3>4, <3>5 DEF TaskPart
  <2>5. JobPart' /\ ChatPart'
    BY <1>6, <2>1, <2>2, <2>3 DEF JobEnds, queueVars, JobPart, ChatPart, Running
  <2>6. HintPart'
    BY <1>6 DEF JobEnds, queueVars, HintPart, TypeOK
  <2>7. QED
    BY <2>4, <2>5, <2>6
<1>7. QED
  BY <1>1, <1>2, <1>3, <1>4, <1>5, <1>6
  DEF JobStep, StreamEnds, StreamFails, AbortJob

(* A chat that is given a slot gets one that nobody has reserved.            *)
LEMMA ClaimForChat ==
  ASSUME OwnershipInv, TypeOK', NEW c \in Chats, NEW s \in Slots, s \notin busy \/ s \in HintedSlots,
         ~Running(c), chat' \in [Chats -> Chat],
         \A d \in Chats \ {c} : chat'[d] = chat[d],
         chat'[c].st = "running", chat'[c].slot = s,
         busy' = busy \cup {s}, UNCHANGED <<job, taskSlot, st, slot>>
  PROVE  TaskPart' /\ JobPart' /\ ChatPart' /\ HintPart'
<1> USE DEF OwnershipInv
<1>1. Reserved' = Reserved /\ Reserved \ HintedSlots \subseteq busy
  BY DEF Reserved, TaskPart, ReservedUntilFreed
<1>2. \A j \in Jobs : Releasing(j)' <=> Releasing(j)
  BY DEF Releasing
<1>3. TaskPart' /\ JobPart'
  BY <1>1, <1>2 DEF TaskPart, ReservedUntilFreed, ReservationsExclusive, JobPart
<1>4. \A d \in Chats \ {c} : Running(d)' => Running(d) /\ (chat'[d].slot \in busy \/ chat'[d].slot \in HintedSlots)
  BY DEF Running, ChatPart
<1>5. ChatPart'
  BY <1>1, <1>2, <1>4 DEF ChatPart, JobPart, Running
<1>6. HintPart'
  BY DEF HintPart
<1>7. QED
  BY <1>3, <1>5, <1>6

(* Steps of a chat keep ownership.                                           *)
LEMMA ChatOwnership ==
  ASSUME OwnershipInv, TypeOK', NEW c \in Chats, ChatStep(c)
  PROVE  OwnershipInv'
<1> USE DEF OwnershipInv
<1>1. ASSUME NEW h \in ChatHints, ChatCalls(c, h)
      PROVE  OwnershipInv'
  <2>1. h \in Asked
    BY HintsAsked
  <2>2. ASSUME NEW s \in Available(h),
               chat' = [chat EXCEPT ![c] = [st |-> "running", hint |-> h, slot |-> s]],
               busy' = busy \cup {s}
        PROVE  OwnershipInv'
    <3>1. s \in Slots /\ (s \notin busy \/ s \in HintedSlots)
      BY <2>1, ClaimIsExclusive
    <3>2. chat' \in [Chats -> Chat] /\ ~Running(c)
      BY <1>1 DEF TypeOK, ChatCalls, Running
    <3>3. chat'[c].st = "running" /\ chat'[c].slot = s /\ \A d \in Chats \ {c} : chat'[d] = chat[d]
      BY <2>2 DEF TypeOK
    <3>4. QED
      BY <1>1, <2>2, <3>1, <3>2, <3>3, ClaimForChat DEF ChatCalls, queueVars, jobVars
  <2>3. CASE /\ chat' = [chat EXCEPT ![c] = [st |-> "waiting", hint |-> h, slot |-> NoSlot]]
             /\ UNCHANGED busy
    <3>1. UNCHANGED <<job, st, slot, taskSlot, busy>>
      BY <1>1, <2>3 DEF ChatCalls, queueVars, jobVars
    <3>2. \A d \in Chats : Running(d)' => Running(d) /\ chat'[d] = chat[d]
      BY <2>3 DEF Running, TypeOK
    <3>3. HintPart'
      BY <2>1, <2>3, <3>1 DEF HintPart, TypeOK
    <3>4. QED
      BY <3>1, <3>2, <3>3
      DEF TaskPart, ReservedUntilFreed, ReservationsExclusive, JobPart, ChatPart, Releasing, Reserved
  <2>4. QED
    BY <1>1, <2>2, <2>3 DEF ChatCalls
<1>2. CASE ChatWakes(c)
  <2>1. chat[c].hint \in Asked /\ ~Running(c)
    BY <1>2 DEF ChatWakes, HintPart, Running
  <2>2. PICK s \in Available(chat[c].hint) :
          /\ chat' = [chat EXCEPT ![c].st = "running", ![c].slot = s]
          /\ busy' = busy \cup {s}
    BY <1>2 DEF ChatWakes
  <2>3. s \in Slots /\ (s \notin busy \/ s \in HintedSlots)
    BY <2>1, ClaimIsExclusive
  <2>4. chat[c] \in Chat /\ chat' \in [Chats -> Chat]
    BY DEF TypeOK
  <2>5. chat'[c].st = "running" /\ chat'[c].slot = s /\ \A d \in Chats \ {c} : chat'[d] = chat[d]
    BY <2>2, <2>4 DEF TypeOK, Chat
  <2>6. QED
    BY <1>2, <2>1, <2>2, <2>3, <2>4, <2>5, ClaimForChat DEF ChatWakes, queueVars, jobVars
<1>3. CASE ChatEnds(c)
  <2>1. UNCHANGED <<job, st, slot, taskSlot>> /\ busy' = busy \ {chat[c].slot} /\ Running(c)
    BY <1>3 DEF ChatEnds, queueVars, jobVars, Running
  <2>2. \A d \in Chats : Running(d)' => d # c /\ Running(d) /\ chat'[d] = chat[d]
    BY <1>3 DEF ChatEnds, Running, TypeOK, Chat
  <2>3. \A d \in Chats : chat'[d].st = "waiting" => chat'[d] = chat[d]
    BY <1>3 DEF ChatEnds, TypeOK, Chat
  <2>4. TaskPart'
    BY <2>1 DEF TaskPart, ReservedUntilFreed, ReservationsExclusive, ChatPart, Reserved
  <2>5. JobPart' /\ ChatPart'
    BY <2>1, <2>2 DEF JobPart, ChatPart, Releasing, Reserved
  <2>6. HintPart'
    BY <2>1, <2>3 DEF HintPart
  <2>7. QED
    BY <2>4, <2>5, <2>6
<1>4. CASE ChatLeaves(c)
  <2>1. UNCHANGED <<job, st, slot, taskSlot, busy>>
    BY <1>4 DEF ChatLeaves, queueVars, jobVars
  <2>2. \A d \in Chats : d # c => chat'[d] = chat[d]
    BY <1>4 DEF ChatLeaves, TypeOK
  <2>3. chat'[c].st = "done"
    BY <1>4 DEF ChatLeaves, TypeOK, Chat
  <2>4. QED
    BY <2>1, <2>2, <2>3
    DEF TaskPart, ReservedUntilFreed, ReservationsExclusive, JobPart, ChatPart, HintPart, Releasing, Running, Reserved
<1>5. QED
  BY <1>1, <1>2, <1>3, <1>4 DEF ChatStep

(* assign_slot and free_slot keep ownership, also when a stream of the       *)
(* worker they stop goes on.                                                 *)
LEMMA TaskOwnership ==
  ASSUME OwnershipInv, TypeOK', NEW t \in Tasks, TaskStep(t)
  PROVE  OwnershipInv'
<1> USE DEF OwnershipInv
<1>1. ASSUME NEW s \in Assignable, AssignSlot(t, s), UNCHANGED <<job, st, slot, chat>>
      PROVE  OwnershipInv'
  <2>1. s \in Slots /\ s # 0 /\ s \notin busy
    BY ClaimedSlots
  <2>2. Reserved' \subseteq Reserved \cup {s} /\ Reserved \ HintedSlots \subseteq busy
    BY <1>1 DEF AssignSlot, Reserved, TypeOK, TaskPart, ReservedUntilFreed
  <2>3. TaskPart'
    BY <1>1, <2>1 DEF AssignSlot, TaskPart, ReservedUntilFreed, ReservationsExclusive, TypeOK
  <2>4. JobPart' /\ ChatPart'
    BY <1>1, <2>1, <2>2 DEF AssignSlot, JobPart, ChatPart, Releasing, Running
  <2>5. HintPart'
    BY <1>1 DEF HintPart
  <2>6. QED
    BY <2>3, <2>4, <2>5
<1>2. CASE WorkerStarts(t)
  <2>1. CASE UNCHANGED <<busy, taskSlot>>
    BY <1>2, <2>1
    DEF WorkerStarts, queueVars, jobVars, TaskPart, ReservedUntilFreed, ReservationsExclusive, JobPart, ChatPart,
        HintPart, Releasing, Running, Reserved
  <2>2. QED
    BY <1>1, <1>2, <2>1 DEF WorkerStarts, queueVars, jobVars
<1>3. CASE WorkerWakes(t)
  BY <1>1, <1>3 DEF WorkerWakes, queueVars, jobVars
<1>4. ASSUME NEW j \in Jobs, SubmitAssigned(t, j)
      PROVE  OwnershipInv'
  <2>1. taskSlot[t] \in Slots \ {0}
    BY <1>4 DEF SubmitAssigned, TypeOK, TaskPart
  <2>2. \A k \in Jobs : Releasing(k)' => Releasing(k)
    BY <1>4 DEF SubmitAssigned, Enqueue, Releasing, TypeOK
  <2>3. TaskPart'
    BY <1>4 DEF SubmitAssigned, Enqueue, TaskPart, ReservedUntilFreed, ReservationsExclusive
  <2>4. JobPart' /\ ChatPart'
    BY <1>4, <2>2 DEF SubmitAssigned, Enqueue, JobPart, ChatPart, Running, Reserved
  <2>5. HintPart'
    BY <1>4, <2>1 DEF SubmitAssigned, Enqueue, HintPart, TypeOK
  <2>6. QED
    BY <2>3, <2>4, <2>5
<1>5. CASE ModelStepReturns(t)
  BY <1>5
  DEF ModelStepReturns, queueVars, jobVars, TaskPart, ReservedUntilFreed, ReservationsExclusive, JobPart, ChatPart,
      HintPart, Releasing, Running, Reserved
<1>6. ASSUME FreeSlot(t), UNCHANGED <<job, st, slot, chat>>
      PROVE  OwnershipInv'
  <2>1. \A u \in Tasks : u # t => taskSlot'[u] = taskSlot[u]
    BY <1>6 DEF FreeSlot, TypeOK
  <2>2. taskSlot'[t] = NoSlot /\ busy' = busy \ {taskSlot[t]}
    BY <1>6 DEF FreeSlot, TypeOK
  <2>3. \A s \in Slots : s \notin Reserved => s # taskSlot[t] /\ s \notin Reserved'
    BY <2>1, <2>2, ConstantFacts DEF Reserved
  <2>4. TaskPart'
    <3>1. NoSlot # 0
      BY DEF NoSlot
    <3>2. ReservedUntilFreed'
      <4> SUFFICES ASSUME NEW u \in Tasks, taskSlot'[u] \notin HintedSlots \cup {NoSlot}
                   PROVE  taskSlot'[u] \in busy'
        BY DEF ReservedUntilFreed
      <4>1. u # t /\ taskSlot'[u] = taskSlot[u] /\ taskSlot[u] \in busy
        BY <2>1, <2>2 DEF TaskPart, ReservedUntilFreed
      <4>2. taskSlot[u] # taskSlot[t]
        BY <4>1 DEF TaskPart, ReservationsExclusive
      <4>3. QED
        BY <2>2, <4>1, <4>2
    <3>3. ReservationsExclusive'
      BY <2>1, <2>2 DEF ReservationsExclusive, TaskPart
    <3>4. QED
      BY <2>1, <2>2, <3>1, <3>2, <3>3 DEF TaskPart
  <2>5. JobPart' /\ ChatPart'
    BY <1>6, <2>2, <2>3 DEF JobPart, ChatPart, Releasing, Running, TypeOK
  <2>6. HintPart'
    BY <1>6 DEF HintPart
  <2>7. QED
    BY <2>4, <2>5, <2>6
<1>7. CASE WorkerEnds(t) \/ StopTask(t)
  BY <1>6, <1>7 DEF WorkerEnds, StopTask, queueVars, jobVars
<1>8. QED
  BY <1>2, <1>3, <1>4, <1>5, <1>7 DEF TaskStep

(* close() keeps ownership: it releases nothing itself.                      *)
LEMMA CloseOwnership ==
  ASSUME OwnershipInv, TypeOK', Close \/ CancelJobs
  PROVE  OwnershipInv'
<1>1. UNCHANGED <<job, slot, busy, taskSlot, chat>>
  BY DEF Close, CancelJobs, queueVars
<1>2. \A j \in Jobs : st'[j] = st[j] \/ st'[j] = "lost"
  BY DEF Close, CancelJobs, OwnershipInv, TypeOK
<1>3. QED
  BY <1>1, <1>2
  DEF OwnershipInv, TaskPart, ReservedUntilFreed, ReservationsExclusive, JobPart, ChatPart, HintPart, Releasing,
      Running, Reserved

(* Ownership holds in every reachable state.                                 *)
LEMMA OwnershipCorrect == Spec => []OwnershipInv
<1>1. OwnershipInv /\ TypeOK' /\ [Next]_vars => OwnershipInv'
  <2> SUFFICES ASSUME OwnershipInv, TypeOK', [Next]_vars PROVE OwnershipInv'
    OBVIOUS
  <2>1. CASE UNCHANGED vars
    BY <2>1
    DEF vars, OwnershipInv, TaskPart, ReservedUntilFreed, ReservationsExclusive, JobPart, ChatPart, HintPart,
        Releasing, Running, Reserved
  <2>2. QED
    BY <2>1, JobOwnership, ChatOwnership, TaskOwnership, CloseOwnership DEF Next
<1>2. QED
  BY InitOwnership, TypeCorrect, <1>1, PTL DEF Spec

(* A slot stays reserved for its task until free_slot, and no two tasks have *)
(* the same slot, unless somebody else asks for that slot by its number. In  *)
(* the code the summarizers do, for the last slot: the others are safe.       *)
THEOREM ReservationsHold == Spec => [](ReservedUntilFreed /\ ReservationsExclusive)
<1>1. OwnershipInv => ReservedUntilFreed /\ ReservationsExclusive
  BY DEF OwnershipInv, TaskPart
<1>2. QED
  BY OwnershipCorrect, <1>1, PTL

-----------------------------------------------------------------------------
(* Numbering: the jobs submitted so far are those up to the counter.         *)

Numbered == \A j \in Jobs : st[j] # "new" <=> j <= sequence

(* A new request gets the next sequence number.                              *)
LEMMA EnqueueNumbered ==
  ASSUME TypeOK, Numbered, NEW j \in Jobs, NEW p, NEW h, NEW hold, Enqueue(j, p, h, hold)
  PROVE  Numbered' /\ st[j] = "new"
  BY DEF TypeOK, Numbered, Enqueue, Jobs

(* No request beyond the sequence counter has been submitted.                *)
LEMMA NumberedCorrect == Spec => []Numbered
<1>1. Init => Numbered
  BY ConstantFacts DEF Init, Numbered, Jobs
<1>2. TypeOK /\ Numbered /\ [Next]_vars => Numbered'
  <2> SUFFICES ASSUME TypeOK, Numbered, [Next]_vars PROVE Numbered'
    OBVIOUS
  <2>1. ASSUME NEW j \in Jobs, JobStep(j)
        PROVE  Numbered'
    <3>1. ASSUME NEW p \in SubmitPriorities, NEW h \in SubmitHints, Submit(j, p, h)
          PROVE  Numbered'
      BY <3>1, EnqueueNumbered DEF Submit
    <3>2. CASE Dispatch(j) \/ DispatchWakes(j) \/ JobStarts(j) \/ Token(j) \/ CancelHandle(j)
      BY <3>2
      DEF Dispatch, NextItem, Queue, DispatchWakes, JobStarts, Token, CancelHandle, queueVars,
          TypeOK, Numbered
    <3>3. ASSUME NEW how, JobEnds(j, how)
          PROVE  Numbered'
      BY <3>3 DEF JobEnds, queueVars, TypeOK, Numbered
    <3>4. QED
      BY <2>1, <3>1, <3>2, <3>3 DEF JobStep, StreamEnds, StreamFails, AbortJob
  <2>2. ASSUME NEW c \in Chats, ChatStep(c)
        PROVE  Numbered'
    BY <2>2 DEF ChatStep, ChatCalls, ChatWakes, ChatEnds, ChatLeaves, queueVars, jobVars, Numbered
  <2>3. ASSUME NEW t \in Tasks, TaskStep(t)
        PROVE  Numbered'
    <3>1. ASSUME NEW j \in Jobs, SubmitAssigned(t, j)
          PROVE  Numbered'
      BY <3>1, EnqueueNumbered DEF SubmitAssigned
    <3>2. QED
      BY <2>3, <3>1
      DEF TaskStep, WorkerStarts, WorkerWakes, ModelStepReturns, WorkerEnds, StopTask,
          queueVars, jobVars, Numbered
  <2>4. CASE Close \/ CancelJobs \/ UNCHANGED vars
    BY <2>4 DEF Close, CancelJobs, queueVars, vars, TypeOK, Numbered
  <2>5. QED
    BY <2>1, <2>2, <2>3, <2>4 DEF Next
<1>3. QED
  BY <1>1, <1>2, TypeCorrect, PTL DEF Spec

-----------------------------------------------------------------------------
(* Main's slot. Tasks and the jobs that keep their slot never have slot 0.   *)

MainInv ==
  /\ TypeOK
  /\ \A t \in Tasks : taskSlot[t] # 0
  /\ \A j \in Jobs : job[j].hold => job[j].hint \in Slots \ {0}
  /\ MainSlotComesBack

(* In a new pool slot 0 is free.                                             *)
LEMMA InitMain == Init => MainInv
  BY InitType DEF Init, MainInv, NoSlot, MainSlotComesBack

(* A dispatched job takes its slot: Main's slot only if it will release it.  *)
LEMMA JobTakesSlot ==
  ASSUME MainInv, TypeOK', NEW j \in Jobs, NEW s \in Available(job[j].hint),
         st' = [st EXCEPT ![j] = "spawned"], slot' = [slot EXCEPT ![j] = s],
         st[j] \in {"queued", "claiming"},
         busy' = busy \cup {s}, UNCHANGED <<job, taskSlot, chat, phase>>
  PROVE  MainInv'
<1> USE DEF MainInv
<1>1. job[j].hold => s # 0
  BY ConstantFacts DEF Available
<1>2. HeldByJob(0) => HeldByJob(0)'
  BY DEF HeldByJob, Live, TypeOK
<1>3. s = 0 => HeldByJob(0)'
  BY <1>1 DEF HeldByJob, Live, TypeOK
<1>4. HeldByChat(0) => HeldByChat(0)'
  BY DEF HeldByChat
<1>5. MainSlotComesBack'
  BY <1>2, <1>3, <1>4 DEF MainSlotComesBack, closed
<1>6. QED
  BY <1>5

(* Steps of a job keep slot 0 accounted for.                                 *)
LEMMA JobMain ==
  ASSUME MainInv, TypeOK', Numbered, NEW j \in Jobs, JobStep(j)
  PROVE  MainInv'
<1> USE DEF MainInv
<1>1. ASSUME NEW p \in SubmitPriorities, NEW h \in SubmitHints, Submit(j, p, h)
      PROVE  MainInv'
  <2>1. \A k \in Live : k \in Live' /\ (job'[k].hold => job[k].hold) /\ slot'[k] = slot[k]
    BY <1>1, EnqueueNumbered DEF Submit, Enqueue, Live, TypeOK
  <2>2. \A k \in Jobs : job'[k].hold => job[k].hold /\ job'[k].hint = job[k].hint
    BY <1>1 DEF Submit, Enqueue, TypeOK
  <2>3. UNCHANGED <<busy, chat, phase, taskSlot>>
    BY <1>1 DEF Submit, Enqueue
  <2>4. MainSlotComesBack'
    BY <2>1, <2>3 DEF MainSlotComesBack, HeldByJob, HeldByChat, closed
  <2>5. QED
    BY <2>2, <2>3, <2>4
<1>2. CASE Dispatch(j)
  <2>1. CASE Available(job[j].hint) = {}
    <3>1. UNCHANGED <<job, slot, busy, chat, phase, taskSlot>>
      BY <1>2, <2>1 DEF Dispatch, queueVars
    <3>2. Live' = Live
      BY <1>2, <2>1 DEF Dispatch, NextItem, Queue, Live, TypeOK
    <3>3. QED
      BY <3>1, <3>2 DEF MainSlotComesBack, HeldByJob, HeldByChat, closed
  <2>2. QED
    BY <1>2, <2>1, JobTakesSlot DEF Dispatch, NextItem, Queue, queueVars
<1>3. CASE DispatchWakes(j)
  BY <1>3, JobTakesSlot DEF DispatchWakes, queueVars
<1>4. CASE JobStarts(j) \/ Token(j) \/ CancelHandle(j)
  <2>1. UNCHANGED <<job, slot, busy, chat, phase, taskSlot>> /\ Live' = Live
    BY <1>4 DEF JobStarts, Token, CancelHandle, queueVars, Live, TypeOK
  <2>2. QED
    BY <2>1 DEF MainSlotComesBack, HeldByJob, HeldByChat, closed
<1>5. ASSUME NEW how \in {"ended", "failed"}, JobEnds(j, how)
      PROVE  MainInv'
  <2>1. UNCHANGED <<job, slot, chat, phase, taskSlot>> /\ Live' = Live \ {j}
    BY <1>5 DEF JobEnds, queueVars, Live, TypeOK
  <2>2. HeldByJob(0) => HeldByJob(0)' \/ (~job[j].hold /\ slot[j] = 0)
    BY <2>1 DEF HeldByJob
  <2>3. 0 \in busy' => 0 \in busy /\ ~(~job[j].hold /\ slot[j] = 0)
    BY <1>5 DEF JobEnds
  <2>4. MainSlotComesBack'
    BY <2>1, <2>2, <2>3 DEF MainSlotComesBack, HeldByChat, closed
  <2>5. QED
    BY <2>1, <2>4
<1>6. QED
  BY <1>1, <1>2, <1>3, <1>4, <1>5 DEF JobStep, StreamEnds, StreamFails, AbortJob

(* Steps of a chat keep slot 0 accounted for.                                *)
LEMMA ChatMain ==
  ASSUME MainInv, TypeOK', NEW c \in Chats, ChatStep(c)
  PROVE  MainInv'
<1> USE DEF MainInv
<1>1. UNCHANGED <<job, st, slot, phase, taskSlot>>
  BY DEF ChatStep, ChatCalls, ChatWakes, ChatEnds, ChatLeaves, queueVars, jobVars
<1>2. \A d \in Chats \ {c} : chat'[d] = chat[d]
  BY DEF ChatStep, ChatCalls, ChatWakes, ChatEnds, ChatLeaves, TypeOK
<1>3. 0 \in busy' /\ HeldByChat(0) => HeldByChat(0)'
  <2> SUFFICES ASSUME 0 \in busy', chat[c].st = "running", chat[c].slot = 0
               PROVE  HeldByChat(0)'
    BY <1>2 DEF HeldByChat
  <2>1. ChatEnds(c)
    BY DEF ChatStep, ChatCalls, ChatWakes, ChatLeaves
  <2>2. QED
    BY <2>1 DEF ChatEnds
<1>4. 0 \in busy' => 0 \in busy \/ HeldByChat(0)'
  <2>1. ASSUME NEW h \in ChatHints, ChatCalls(c, h), 0 \in busy', 0 \notin busy
        PROVE  chat'[c].st = "running" /\ chat'[c].slot = 0
    BY <2>1 DEF ChatCalls, TypeOK
  <2>2. ASSUME ChatWakes(c), 0 \in busy', 0 \notin busy
        PROVE  chat'[c].st = "running" /\ chat'[c].slot = 0
    BY <2>2 DEF ChatWakes, TypeOK, Chat
  <2>3. QED
    BY <2>1, <2>2 DEF ChatStep, ChatEnds, ChatLeaves, HeldByChat
<1>5. HeldByJob(0) => HeldByJob(0)'
  BY <1>1 DEF HeldByJob, Live
<1>6. MainSlotComesBack'
  BY <1>1, <1>3, <1>4, <1>5 DEF MainSlotComesBack, closed
<1>7. QED
  BY <1>1, <1>6

(* No step of a sub-agent takes slot 0 or lets it go.                        *)
LEMMA TaskMain ==
  ASSUME MainInv, TypeOK', Numbered, NEW t \in Tasks, TaskStep(t)
  PROVE  MainInv'
<1> USE DEF MainInv
<1>1. UNCHANGED <<slot, phase, chat>>
  BY DEF TaskStep, WorkerStarts, WorkerWakes, SubmitAssigned, Enqueue, ModelStepReturns,
         WorkerEnds, StopTask, queueVars, jobVars
<1>2. ASSUME NEW j \in Jobs, SubmitAssigned(t, j)
      PROVE  MainInv'
  <2>1. taskSlot[t] \in Slots \ {0} /\ UNCHANGED <<busy, taskSlot>>
    BY <1>2 DEF SubmitAssigned, Enqueue, TypeOK
  <2>2. \A k \in Jobs : job'[k].hold => job'[k].hint \in Slots \ {0}
    BY <1>2, <2>1 DEF SubmitAssigned, Enqueue, TypeOK
  <2>3. \A k \in Live : k \in Live' /\ k # j
    BY <1>2, EnqueueNumbered DEF SubmitAssigned, Enqueue, Live, TypeOK
  <2>4. HeldByJob(0) => HeldByJob(0)'
    BY <1>1, <1>2, <2>3 DEF SubmitAssigned, Enqueue, HeldByJob, TypeOK
  <2>5. QED
    BY <1>1, <2>1, <2>2, <2>4 DEF MainSlotComesBack, HeldByChat, closed
<1>3. ASSUME UNCHANGED <<job, st>>,
             busy' = busy \/ (\E s \in Assignable : AssignSlot(t, s)) \/ FreeSlot(t),
             taskSlot' = taskSlot \/ (\E s \in Assignable : AssignSlot(t, s)) \/ FreeSlot(t)
      PROVE  MainInv'
  <2>1. 0 \in busy' => 0 \in busy
    BY <1>3, ClaimedSlots DEF AssignSlot, FreeSlot
  <2>2. \A u \in Tasks : taskSlot'[u] # 0
    BY <1>3, ClaimedSlots DEF AssignSlot, FreeSlot, TypeOK, NoSlot
  <2>3. MainSlotComesBack'
    BY <1>1, <1>3, <2>1 DEF MainSlotComesBack, HeldByJob, HeldByChat, Live, closed
  <2>4. QED
    BY <1>3, <2>2, <2>3
<1>4. QED
  BY <1>2, <1>3
  DEF TaskStep, WorkerStarts, WorkerWakes, ModelStepReturns, WorkerEnds, StopTask, queueVars, jobVars

(* The live conversation's slot is never kept: whatever the sub-agents do,   *)
(* slot 0 is busy only while a stream or chat that will release it lasts.    *)
THEOREM MainSlotReturns == Spec => []MainSlotComesBack
<1>1. MainInv /\ TypeOK' /\ Numbered /\ [Next]_vars => MainInv'
  <2> SUFFICES ASSUME MainInv, TypeOK', Numbered, [Next]_vars PROVE MainInv'
    OBVIOUS
  <2>1. CASE UNCHANGED vars
    BY <2>1 DEF vars, MainInv, MainSlotComesBack, HeldByJob, HeldByChat, Live, closed
  <2>2. CASE Close \/ CancelJobs
    BY <2>2 DEF Close, CancelJobs, queueVars, MainInv, MainSlotComesBack, closed
  <2>3. QED
    BY <2>1, <2>2, JobMain, ChatMain, TaskMain DEF Next
<1>2. MainInv => MainSlotComesBack
  BY DEF MainInv
<1>3. QED
  BY InitMain, TypeCorrect, NumberedCorrect, <1>1, <1>2, PTL DEF Spec

-----------------------------------------------------------------------------
(* Order. The dispatcher waits for at most one job, and that job precedes    *)
(* everything of its priority that is still queued.                          *)

FifoInv ==
  /\ FifoWithinPriority
  /\ \A k \in Jobs : st[k] = "claiming" => dispatcher = "claiming"
  /\ \A j, k \in Jobs : st[j] = "claiming" /\ st[k] = "claiming" => j = k
  /\ \A j, k \in Jobs :
       st[j] = "queued" /\ st[k] = "claiming" /\ job[j].priority = job[k].priority => k < j

(* A new job comes after all the others.                                     *)
LEMMA EnqueueFifo ==
  ASSUME TypeOK, Numbered, FifoInv, NEW j \in Jobs, NEW p, NEW h, NEW hold,
         Enqueue(j, p, h, hold)
  PROVE  FifoInv'
<1>1. st[j] = "new" /\ st' = [st EXCEPT ![j] = "queued"]
  BY EnqueueNumbered DEF Enqueue
<1>2. \A k \in Jobs : st[k] # "new" => k < j
  BY DEF Numbered, Enqueue, TypeOK, Jobs
<1>3. \A k \in Jobs \ {j} : job'[k] = job[k] /\ st'[k] = st[k]
  BY <1>1 DEF Enqueue, TypeOK
<1>4. st'[j] = "queued"
  BY <1>1 DEF TypeOK
<1>5. dispatcher = "claiming" => dispatcher' = "claiming"
  BY DEF Enqueue, StartDispatcher
<1>6. QED
  BY <1>1, <1>2, <1>3, <1>4, <1>5 DEF FifoInv, FifoWithinPriority

(* The dispatcher keeps the order of requests of one priority.               *)
LEMMA JobFifo ==
  ASSUME TypeOK, Numbered, FifoInv, NEW j \in Jobs, JobStep(j)
  PROVE  FifoInv'
<1>1. ASSUME NEW p \in SubmitPriorities, NEW h \in SubmitHints, Submit(j, p, h)
      PROVE  FifoInv'
  BY <1>1, EnqueueFifo DEF Submit
<1>2. CASE Dispatch(j)
  <2>1. /\ st[j] = "queued" /\ UNCHANGED job
        /\ \A k \in Jobs : st[k] # "claiming"
    BY <1>2 DEF Dispatch, NextItem, Queue, queueVars, FifoInv
  <2>2. \A k \in Jobs \ {j} : st[k] = "queued" /\ job[k].priority = job[j].priority => j < k
    BY <1>2 DEF Dispatch, NextItem, Queue, Before, TypeOK, JobRecord
  <2>3. \/ st' = [st EXCEPT ![j] = "spawned"] /\ UNCHANGED dispatcher
        \/ st' = [st EXCEPT ![j] = "claiming"] /\ dispatcher' = "claiming"
    BY <1>2 DEF Dispatch
  <2>4. QED
    BY <2>1, <2>2, <2>3 DEF FifoInv, FifoWithinPriority, TypeOK
<1>3. CASE DispatchWakes(j)
  <2>1. st[j] = "claiming" /\ st' = [st EXCEPT ![j] = "spawned"] /\ UNCHANGED job
    BY <1>3 DEF DispatchWakes, queueVars
  <2>2. QED
    BY <2>1 DEF FifoInv, FifoWithinPriority, TypeOK
<1>4. CASE JobStarts(j) \/ Token(j) \/ CancelHandle(j)
  BY <1>4 DEF JobStarts, Token, CancelHandle, queueVars, FifoInv, FifoWithinPriority, TypeOK
<1>5. ASSUME NEW how, JobEnds(j, how)
      PROVE  FifoInv'
  BY <1>5 DEF JobEnds, queueVars, FifoInv, FifoWithinPriority, TypeOK
<1>6. QED
  BY <1>1, <1>2, <1>3, <1>4, <1>5 DEF JobStep, StreamEnds, StreamFails, AbortJob

(* Requests of one priority are started in the order of submission.          *)
THEOREM FifoHolds == Spec => []FifoWithinPriority
<1>1. Init => FifoInv
  BY DEF Init, FifoInv, FifoWithinPriority
<1>2. TypeOK /\ Numbered /\ FifoInv /\ [Next]_vars => FifoInv'
  <2> SUFFICES ASSUME TypeOK, Numbered, FifoInv, [Next]_vars PROVE FifoInv'
    OBVIOUS
  <2>1. ASSUME NEW c \in Chats, ChatStep(c)
        PROVE  FifoInv'
    <3>1. UNCHANGED <<job, st>> /\ (dispatcher = "claiming" => dispatcher' = "claiming")
      BY <2>1
      DEF ChatStep, ChatCalls, StartDispatcher, ChatWakes, ChatEnds, ChatLeaves, queueVars, jobVars
    <3>2. QED
      BY <3>1 DEF FifoInv, FifoWithinPriority
  <2>2. ASSUME NEW t \in Tasks, TaskStep(t)
        PROVE  FifoInv'
    <3>1. ASSUME NEW j \in Jobs, SubmitAssigned(t, j)
          PROVE  FifoInv'
      BY <3>1, EnqueueFifo DEF SubmitAssigned
    <3>2. CASE UNCHANGED <<job, st, dispatcher>>
      BY <3>2 DEF FifoInv, FifoWithinPriority
    <3>3. QED
      BY <2>2, <3>1, <3>2
      DEF TaskStep, WorkerStarts, WorkerWakes, ModelStepReturns, WorkerEnds, StopTask,
          queueVars, jobVars
  <2>3. CASE Close \/ CancelJobs
    <3>1. UNCHANGED job /\ \A j \in Jobs :
            st'[j] = st[j] \/ st'[j] = "lost"
      BY <2>3 DEF Close, CancelJobs, queueVars, TypeOK
    <3>2. \A j \in Jobs : st'[j] # "claiming" \/ dispatcher' = "claiming"
      BY <2>3 DEF Close, CancelJobs, FifoInv, TypeOK
    <3>3. QED
      BY <3>1, <3>2 DEF FifoInv, FifoWithinPriority
  <2>4. CASE UNCHANGED vars
    BY <2>4 DEF vars, FifoInv, FifoWithinPriority
  <2>5. QED
    BY <2>1, <2>2, <2>3, <2>4, JobFifo DEF Next
<1>3. FifoInv => FifoWithinPriority
  BY DEF FifoInv
<1>4. QED
  BY <1>1, <1>2, <1>3, TypeCorrect, NumberedCorrect, PTL DEF Spec

-----------------------------------------------------------------------------
(* Shutdown: once close() has begun there is no dispatcher any more.         *)

Stopped == closed => dispatcher = "stopped"

(* While the job tasks are being cancelled there is no dispatcher.           *)
LEMMA StoppedCorrect == Spec => []Stopped
<1>1. Init => Stopped
  BY DEF Init, Stopped, closed
<1>2. Stopped /\ [Next]_vars => Stopped'
  BY DEF Stopped, closed, vars, Next, Close, CancelJobs,
         JobStep, Submit, Enqueue, StartDispatcher, Dispatch, DispatchWakes, JobStarts, Token,
         StreamEnds, StreamFails, AbortJob, JobEnds, CancelHandle,
         ChatStep, ChatCalls, ChatWakes, ChatEnds, ChatLeaves,
         TaskStep, WorkerStarts, WorkerWakes, SubmitAssigned, ModelStepReturns, WorkerEnds, StopTask
<1>3. QED
  BY <1>1, <1>2, PTL DEF Spec

(* After close() has cancelled the job tasks no stream is ever started.      *)
THEOREM CloseHolds == Spec => CloseIsFinal
<1>1. TypeOK /\ Stopped /\ [Next]_vars => [phase = "cancelling" => Live' \subseteq Live]_vars
  <2> SUFFICES ASSUME TypeOK, Stopped, Next, phase = "cancelling" PROVE Live' \subseteq Live
    OBVIOUS
  <2>1. closed /\ dispatcher = "stopped"
    BY DEF Stopped, closed
  <2>2. ASSUME NEW j \in Jobs, JobStep(j)
        PROVE  Live' \subseteq Live
    <3>1. Token(j) \/ CancelHandle(j) \/ JobEnds(j, "ended")
      BY <2>1, <2>2
      DEF JobStep, Submit, Enqueue, Dispatch, DispatchWakes, JobStarts, StreamEnds, StreamFails, AbortJob
    <3>2. QED
      BY <3>1 DEF Token, CancelHandle, JobEnds, Live, TypeOK
  <2>3. ASSUME NEW c \in Chats, ChatStep(c)
        PROVE  Live' \subseteq Live
    BY <2>3 DEF ChatStep, ChatCalls, ChatWakes, ChatEnds, ChatLeaves, jobVars, Live
  <2>4. ASSUME NEW t \in Tasks, TaskStep(t)
        PROVE  Live' \subseteq Live
    BY <2>1, <2>4
    DEF TaskStep, WorkerStarts, WorkerWakes, SubmitAssigned, Enqueue, ModelStepReturns, WorkerEnds,
        StopTask, jobVars, Live
  <2>5. CASE Close \/ CancelJobs
    BY <2>5 DEF Close, CancelJobs
  <2>6. QED
    BY <2>2, <2>3, <2>4, <2>5 DEF Next
<1>2. QED
  BY <1>1, TypeCorrect, StoppedCorrect, PTL DEF Spec, CloseIsFinal

-----------------------------------------------------------------------------
(* Without [STOP_TASK] a sub-agent waits for its model step to the end, so    *)
(* that a job that keeps its slot runs on the slot of a task that waits.      *)

NoStops == "stop_task" \notin Disturbances

UnderWay(j) == st[j] \in {"queued", "claiming", "spawned", "streaming"}
Awaited(j) == \E t \in Tasks : call[t] = j /\ worker[t] = "running" /\ taskSlot[t] = job[j].hint

KeeperOK(j) ==
  /\ job[j].hold /\ UnderWay(j) => handle[j].end = "open" /\ Awaited(j) /\ job[j].hint \in Slots
  /\ job[j].hold /\ j \in Live => slot[j] = job[j].hint
  /\ st[j] = "new" => handle[j].end = "open"

KeepersOK == \A j \in Jobs : KeeperOK(j)

(* A job the step does nothing to keeps its task, unless the step ends that.  *)
LEMMA OtherKeepers ==
  ASSUME NEW k \in Jobs, KeeperOK(k), job'[k] = job[k], handle'[k] = handle[k],
         UnderWay(k)' => UnderWay(k), k \in Live' => k \in Live, slot'[k] = slot[k],
         st'[k] = "new" => st[k] = "new",
         \A t \in Tasks : call[t] = k => call'[t] = k /\ worker'[t] = worker[t] /\ taskSlot'[t] = taskSlot[t]
  PROVE  KeeperOK(k)'
  BY DEF KeeperOK, Awaited

(* A claim for a job that keeps its slot yields the slot of its task.         *)
LEMMA KeeperClaims ==
  ASSUME TypeOK, KeepersOK, NEW j \in Jobs, job[j].hold, UnderWay(j)
  PROVE  Available(job[j].hint) = {job[j].hint}
<1>1. PICK t \in Tasks : taskSlot[t] = job[j].hint
  BY DEF KeepersOK, KeeperOK, Awaited
<1>2. job[j].hint \in Slots /\ job[j].hint # NoHint /\ job[j].hint # NoSlot
  BY ConstantFacts DEF KeepersOK, KeeperOK
<1>3. job[j].hint \in Reserved
  BY <1>1, <1>2 DEF Reserved
<1>4. QED
  BY <1>2, <1>3 DEF Available

LEMMA JobKeepers ==
  ASSUME TypeOK, Numbered, KeepersOK, NEW j \in Jobs, JobStep(j)
  PROVE  KeepersOK'
<1>1. UNCHANGED <<taskSlot, workerVars>>
  BY DEF JobStep, Submit, Enqueue, Dispatch, DispatchWakes, JobStarts, Token, CancelHandle, StreamEnds,
         StreamFails, AbortJob, JobEnds
<1>2. \A k \in Jobs \ {j} :
        job'[k] = job[k] /\ handle'[k] = handle[k] /\ st'[k] = st[k] /\ slot'[k] = slot[k]
  BY DEF JobStep, Submit, Enqueue, Dispatch, DispatchWakes, JobStarts, Token, CancelHandle, StreamEnds,
         StreamFails, AbortJob, JobEnds, queueVars, TypeOK
<1>3. \A k \in Jobs \ {j} : KeeperOK(k)'
  BY <1>1, <1>2, OtherKeepers DEF KeepersOK, UnderWay, Live, workerVars
<1>4. KeeperOK(j)'
  <2>0. KeeperOK(j)
    BY DEF KeepersOK
  <2>1. ASSUME NEW p \in SubmitPriorities, NEW h \in SubmitHints, Submit(j, p, h)
        PROVE  KeeperOK(j)'
    BY <2>1 DEF Submit, Enqueue, KeeperOK, TypeOK
  <2>2. CASE Dispatch(j) \/ DispatchWakes(j)
    <3>1. UNCHANGED <<job, handle>> /\ UnderWay(j) /\ Awaited(j)' = Awaited(j)
      BY <2>2, <1>1 DEF Dispatch, DispatchWakes, NextItem, Queue, queueVars, UnderWay, Awaited, workerVars
    <3>2. st'[j] \in {"spawned", "claiming"}
      BY <2>2 DEF Dispatch, DispatchWakes, TypeOK
    <3>3. st'[j] = "spawned" => slot'[j] \in Available(job[j].hint)
      BY <2>2 DEF Dispatch, DispatchWakes, TypeOK
    <3>4. QED
      BY <2>0, <3>1, <3>2, <3>3, KeeperClaims DEF KeeperOK, Live, UnderWay
  <2>3. CASE JobStarts(j)
    BY <2>0, <2>3, <1>1 DEF JobStarts, queueVars, KeeperOK, UnderWay, Live, Awaited, workerVars, TypeOK
  <2>4. CASE Token(j)
    <3>1. UNCHANGED <<job, st, slot>> /\ handle'[j].end = handle[j].end
      BY <2>4 DEF Token, queueVars, TypeOK, Handle
    <3>2. QED
      BY <2>0, <3>1, <1>1 DEF KeeperOK, UnderWay, Live, Awaited, workerVars
  <2>5. CASE CancelHandle(j)
    BY <2>5 DEF CancelHandle, queueVars, KeeperOK
  <2>6. ASSUME NEW how, JobEnds(j, how)
        PROVE  KeeperOK(j)'
    BY <2>6 DEF JobEnds, KeeperOK, UnderWay, Live, TypeOK
  <2>7. QED
    BY <2>1, <2>2, <2>3, <2>4, <2>5, <2>6 DEF JobStep, StreamEnds, StreamFails, AbortJob
<1>5. QED
  BY <1>3, <1>4 DEF KeepersOK

LEMMA TaskKeepers ==
  ASSUME NoStops, TypeOK, TypeOK', Numbered, KeepersOK, NEW t \in Tasks, TaskStep(t)
  PROVE  KeepersOK'
<1>1. \A u \in Tasks \ {t} : call'[u] = call[u] /\ worker'[u] = worker[u] /\ taskSlot'[u] = taskSlot[u]
  BY DEF TaskStep, WorkerStarts, WorkerWakes, AssignSlot, SubmitAssigned, Enqueue, ModelStepReturns,
         WorkerEnds, StopTask, FreeSlot, TypeOK
<1>2. CASE UNCHANGED <<queueVars, jobVars>>
  <2>1. \A k \in Jobs : KeeperOK(k) /\ job[k].hold /\ UnderWay(k) /\ call[t] = k /\ worker[t] = "running" =>
          call'[t] = k /\ worker'[t] = worker[t] /\ taskSlot'[t] = taskSlot[t]
    BY <1>2, ConstantFacts DEF TaskStep, WorkerStarts, WorkerWakes, SubmitAssigned, Enqueue, ModelStepReturns, WorkerEnds,
           StopTask, NoStops, KeeperOK, queueVars, TypeOK, Jobs, NoJob
  <2>2. \A k \in Jobs : KeeperOK(k) => KeeperOK(k)'
    BY <1>1, <1>2, <2>1 DEF KeeperOK, UnderWay, Live, Awaited, queueVars, jobVars
  <2>3. QED
    BY <2>2 DEF KeepersOK
<1>3. ASSUME NEW j \in Jobs, SubmitAssigned(t, j)
      PROVE  KeepersOK'
  <2>1. /\ st[j] = "new" /\ call[t] = NoJob /\ worker[t] = "running" /\ taskSlot[t] \in Slots
        /\ UNCHANGED <<worker, taskSlot, handle, slot>>
        /\ job'[j] = [priority |-> P1_SUBAGENT, hint |-> taskSlot[t], hold |-> TRUE]
        /\ st'[j] = "queued" /\ call'[t] = j
        /\ \A k \in Jobs \ {j} : job'[k] = job[k] /\ st'[k] = st[k]
    BY <1>3, EnqueueNumbered DEF SubmitAssigned, Enqueue, TypeOK
  <2>2. \A k \in Jobs \ {j} : KeeperOK(k)'
    <3>1. \A k \in Jobs : call[t] # k
      BY <2>1, ConstantFacts
    <3>2. QED
      BY <1>1, <2>1, <3>1, OtherKeepers DEF KeepersOK, UnderWay, Live
  <2>3. KeeperOK(j)'
    BY <2>1 DEF KeepersOK, KeeperOK, Awaited, Live
  <2>4. QED
    BY <2>2, <2>3 DEF KeepersOK
<1>4. QED
  BY <1>2, <1>3 DEF TaskStep, WorkerStarts, WorkerWakes, ModelStepReturns, WorkerEnds, StopTask

LEMMA KeepersCorrect == ASSUME NoStops PROVE Spec => []KeepersOK
<1>1. Init => KeepersOK
  BY DEF Init, KeepersOK, KeeperOK, UnderWay, Live
<1>2. TypeOK /\ TypeOK' /\ Numbered /\ KeepersOK /\ [Next]_vars => KeepersOK'
  <2> SUFFICES ASSUME TypeOK, TypeOK', Numbered, KeepersOK, [Next]_vars PROVE KeepersOK'
    OBVIOUS
  <2>1. ASSUME NEW c \in Chats, ChatStep(c)
        PROVE  KeepersOK'
    <3>1. UNCHANGED <<job, st, slot, handle, taskSlot, worker, call>>
      BY <2>1 DEF ChatStep, ChatCalls, ChatWakes, ChatEnds, ChatLeaves, queueVars, jobVars, workerVars
    <3>2. QED
      BY <3>1 DEF KeepersOK, KeeperOK, UnderWay, Live, Awaited
  <2>2. CASE Close \/ CancelJobs
    <3>1. UNCHANGED <<job, slot, handle, taskSlot, worker, call>> /\ \A j \in Jobs : st'[j] \in {st[j], "lost"}
      BY <2>2 DEF Close, CancelJobs, queueVars, workerVars, TypeOK
    <3>2. QED
      BY <3>1 DEF KeepersOK, KeeperOK, UnderWay, Live, Awaited
  <2>3. CASE UNCHANGED vars
    BY <2>3 DEF vars, KeepersOK, KeeperOK, UnderWay, Live, Awaited
  <2>4. QED
    BY <2>1, <2>2, <2>3, JobKeepers, TaskKeepers DEF Next
<1>3. QED
  BY <1>1, <1>2, TypeCorrect, NumberedCorrect, PTL DEF Spec

-----------------------------------------------------------------------------
(* Leaks. Whatever is taken out of the pool has somebody to give it back.     *)

(* Outside Live a job holds nothing.                                         *)
LEMMA JobLeaks ==
  ASSUME TypeOK, Numbered, KeepersOK, NoSlotLeak, NEW j \in Jobs, JobStep(j)
  PROVE  NoSlotLeak'
<1> USE DEF NoSlotLeak
<1>1. UNCHANGED <<taskSlot, worker, chat, phase>>
  BY DEF JobStep, Submit, Enqueue, Dispatch, DispatchWakes, JobStarts, Token, CancelHandle, StreamEnds,
         StreamFails, AbortJob, JobEnds, workerVars
<1>2. \A s : (HeldByTask(s) => HeldByTask(s)') /\ (HeldByChat(s) => HeldByChat(s)')
  BY <1>1 DEF HeldByTask, HeldByChat
<1>3. ASSUME NEW p \in SubmitPriorities, NEW h \in SubmitHints, Submit(j, p, h)
      PROVE  NoSlotLeak'
  <2>1. j \notin Live /\ Live' = Live /\ UNCHANGED <<slot, busy>>
    BY <1>3, EnqueueNumbered DEF Submit, Enqueue, Live, TypeOK
  <2>2. \A k \in Live : job'[k] = job[k]
    BY <1>3, <2>1 DEF Submit, Enqueue, Live, TypeOK
  <2>3. QED
    BY <1>1, <1>2, <2>1, <2>2 DEF HeldByJob, closed
<1>4. ASSUME NEW s \in Available(job[j].hint), st[j] \in {"queued", "claiming"},
             st' = [st EXCEPT ![j] = "spawned"], slot' = [slot EXCEPT ![j] = s],
             busy' = busy \cup {s}, UNCHANGED job
      PROVE  NoSlotLeak'
  <2>1. j \notin Live /\ Live' = Live \cup {j} /\ slot'[j] = s /\ \A k \in Live : slot'[k] = slot[k]
    BY <1>4 DEF Live, TypeOK
  <2>2. \A r : HeldByJob(r) => HeldByJob(r)'
    BY <1>4, <2>1 DEF HeldByJob
  <2>3. CASE ~job[j].hold
    <3>1. HeldByJob(s)'
      BY <1>4, <2>1, <2>3 DEF HeldByJob
    <3>2. QED
      BY <1>1, <1>2, <1>4, <2>2, <3>1 DEF closed
  <2>4. CASE job[j].hold
    <3>1. s = job[j].hint /\ Awaited(j)
      BY <1>4, <2>4, KeeperClaims DEF UnderWay, KeepersOK, KeeperOK
    <3>2. HeldByTask(s)
      BY <3>1 DEF Awaited, HeldByTask
    <3>3. QED
      BY <1>1, <1>2, <1>4, <2>2, <3>2 DEF closed
  <2>5. QED
    BY <2>3, <2>4
<1>5. CASE Dispatch(j)
  <2>1. CASE Available(job[j].hint) = {}
    <3>1. Live' = Live /\ UNCHANGED <<job, slot, busy>>
      BY <1>5, <2>1 DEF Dispatch, NextItem, Queue, queueVars, Live, TypeOK
    <3>2. QED
      BY <1>1, <1>2, <3>1 DEF HeldByJob, closed
  <2>2. QED
    BY <1>4, <1>5, <2>1 DEF Dispatch, NextItem, Queue, queueVars
<1>6. CASE DispatchWakes(j)
  BY <1>4, <1>6 DEF DispatchWakes, queueVars
<1>7. CASE JobStarts(j) \/ Token(j) \/ CancelHandle(j)
  <2>1. Live' = Live /\ UNCHANGED <<job, slot, busy>>
    BY <1>7 DEF JobStarts, Token, CancelHandle, queueVars, Live, TypeOK
  <2>2. QED
    BY <1>1, <1>2, <2>1 DEF HeldByJob, closed
<1>8. ASSUME NEW how, JobEnds(j, how)
      PROVE  NoSlotLeak'
  <2>1. /\ Live' = Live \ {j} /\ UNCHANGED <<job, slot>>
        /\ busy' = IF job[j].hold THEN busy ELSE busy \ {slot[j]}
    BY <1>8 DEF JobEnds, queueVars, Live, TypeOK
  <2>2. \A s \in busy' : HeldByJob(s) => HeldByJob(s)'
    BY <2>1 DEF HeldByJob
  <2>3. QED
    BY <1>1, <1>2, <2>1, <2>2 DEF closed
<1>9. QED
  BY <1>3, <1>5, <1>6, <1>7, <1>8 DEF JobStep, StreamEnds, StreamFails, AbortJob

LEMMA ChatLeaks ==
  ASSUME TypeOK, NoSlotLeak, NEW c \in Chats, ChatStep(c)
  PROVE  NoSlotLeak'
<1> USE DEF NoSlotLeak
<1>1. UNCHANGED <<job, st, slot, phase, taskSlot, worker>> /\ \A d \in Chats \ {c} : chat'[d] = chat[d]
  BY DEF ChatStep, ChatCalls, ChatWakes, ChatEnds, ChatLeaves, queueVars, jobVars, workerVars, TypeOK
<1>2. \A s : (HeldByTask(s) => HeldByTask(s)') /\ (HeldByJob(s) => HeldByJob(s)')
  BY <1>1 DEF HeldByTask, HeldByJob, Live
<1>3. ASSUME NEW s, chat[c].st # "running", busy' = busy \cup {s},
             chat'[c].st = "running", chat'[c].slot = s
      PROVE  NoSlotLeak'
  <2>1. \A r : HeldByChat(r) => HeldByChat(r)'
    BY <1>1, <1>3 DEF HeldByChat
  <2>2. HeldByChat(s)'
    BY <1>3 DEF HeldByChat
  <2>3. QED
    BY <1>1, <1>2, <1>3, <2>1, <2>2 DEF closed
<1>4. ASSUME chat[c].st # "running", UNCHANGED busy
      PROVE  NoSlotLeak'
  BY <1>1, <1>2, <1>4 DEF HeldByChat, closed
<1>5. ASSUME NEW h \in ChatHints, ChatCalls(c, h)
      PROVE  NoSlotLeak'
  <2>1. chat[c].st # "running"
    BY <1>5 DEF ChatCalls
  <2>2. ASSUME NEW s, chat' = [chat EXCEPT ![c] = [st |-> "running", hint |-> h, slot |-> s]]
        PROVE  chat'[c].st = "running" /\ chat'[c].slot = s
    BY <2>2 DEF TypeOK
  <2>3. QED
    BY <1>3, <1>4, <1>5, <2>1, <2>2 DEF ChatCalls
<1>6. CASE ChatWakes(c)
  <2>1. chat[c].st # "running"
    BY <1>6 DEF ChatWakes
  <2>2. PICK s \in Available(chat[c].hint) :
          /\ chat' = [chat EXCEPT ![c].st = "running", ![c].slot = s]
          /\ busy' = busy \cup {s}
    BY <1>6 DEF ChatWakes
  <2>3. chat'[c].st = "running" /\ chat'[c].slot = s
    BY <2>2 DEF TypeOK, Chat
  <2>4. QED
    BY <1>3, <2>1, <2>2, <2>3
<1>7. CASE ChatEnds(c)
  <2>1. \A s \in busy' : HeldByChat(s) => HeldByChat(s)'
    BY <1>1, <1>7 DEF ChatEnds, HeldByChat
  <2>2. QED
    BY <1>1, <1>2, <1>7, <2>1 DEF ChatEnds, closed
<1>8. CASE ChatLeaves(c)
  BY <1>4, <1>8 DEF ChatLeaves
<1>9. QED
  BY <1>5, <1>6, <1>7, <1>8 DEF ChatStep

LEMMA TaskLeaks ==
  ASSUME NoStops, TypeOK, Numbered, NoSlotLeak, NEW t \in Tasks, TaskStep(t)
  PROVE  NoSlotLeak'
<1> USE DEF NoSlotLeak
<1>1. UNCHANGED <<slot, chat, phase>>
      /\ \A u \in Tasks \ {t} : worker'[u] = worker[u] /\ taskSlot'[u] = taskSlot[u]
  BY DEF TaskStep, WorkerStarts, WorkerWakes, AssignSlot, SubmitAssigned, Enqueue, ModelStepReturns,
         WorkerEnds, StopTask, FreeSlot, jobVars, TypeOK
<1>2. Live' = Live /\ \A k \in Live : job'[k] = job[k]
  <2>1. ASSUME NEW j \in Jobs, SubmitAssigned(t, j)
        PROVE  Live' = Live /\ \A k \in Live : job'[k] = job[k]
    BY <2>1, EnqueueNumbered DEF SubmitAssigned, Enqueue, Live, TypeOK
  <2>2. QED
    BY <2>1 DEF TaskStep, WorkerStarts, WorkerWakes, ModelStepReturns, WorkerEnds, StopTask, queueVars,
                jobVars, Live
<1>3. \A s : (HeldByJob(s) => HeldByJob(s)') /\ (HeldByChat(s) => HeldByChat(s)')
  BY <1>1, <1>2 DEF HeldByJob, HeldByChat
<1>4. ASSUME NEW s \in Assignable, AssignSlot(t, s), worker[t] # "running"
      PROVE  NoSlotLeak'
  <2>1. HeldByTask(s)' /\ \A r : HeldByTask(r) => HeldByTask(r)'
    BY <1>1, <1>4 DEF AssignSlot, HeldByTask, TypeOK
  <2>2. QED
    BY <1>1, <1>3, <1>4, <2>1 DEF AssignSlot, closed
<1>5. ASSUME UNCHANGED <<busy, taskSlot>>, worker[t] = "running" => worker'[t] = "running"
      PROVE  NoSlotLeak'
  <2>1. \A r : HeldByTask(r) => HeldByTask(r)'
    BY <1>1, <1>5 DEF HeldByTask
  <2>2. QED
    BY <1>1, <1>3, <1>5, <2>1 DEF closed
<1>6. CASE WorkerEnds(t)
  <2>1. \A s \in busy' : HeldByTask(s) => HeldByTask(s)'
    BY <1>1, <1>6 DEF WorkerEnds, FreeSlot, HeldByTask
  <2>2. QED
    BY <1>1, <1>3, <1>6, <2>1 DEF WorkerEnds, FreeSlot, closed
<1>7. QED
  BY <1>4, <1>5, <1>6
  DEF NoStops, TaskStep, WorkerStarts, WorkerWakes, SubmitAssigned, Enqueue, ModelStepReturns, StopTask

(* "Release slot on DONE, ERROR, cancel, or worker crash" (doc/step-08.md):   *)
(* no slot is lost to the pool, whatever is cancelled, fails or is hinted at, *)
(* as long as [STOP_TASK] leaves no request behind in the queue.             *)
THEOREM NoLeaks == ASSUME NoStops PROVE Spec => []NoSlotLeak
<1>1. Init => NoSlotLeak
  BY DEF Init, NoSlotLeak
<1>2. TypeOK /\ Numbered /\ KeepersOK /\ NoSlotLeak /\ [Next]_vars => NoSlotLeak'
  <2>1. ASSUME TypeOK, NoSlotLeak, Close \/ CancelJobs PROVE NoSlotLeak'
    BY <2>1 DEF Close, CancelJobs, NoSlotLeak, closed
  <2>2. ASSUME NoSlotLeak, UNCHANGED vars PROVE NoSlotLeak'
    BY <2>2 DEF vars, NoSlotLeak, HeldByTask, HeldByJob, HeldByChat, Live, closed
  <2>3. QED
    BY <2>1, <2>2, JobLeaks, ChatLeaks, TaskLeaks DEF Next
<1>3. QED
  BY <1>1, <1>2, TypeCorrect, NumberedCorrect, KeepersCorrect, PTL DEF Spec

-----------------------------------------------------------------------------
(* One stream per slot                                                      *)

(* A stream that keeps its slot runs on the slot its task has reserved, and a *)
(* stream or chat that releases its slot shares it with nobody, unless it is *)
(* a hinted one.                                                             *)
LEMMA StreamsApart ==
  ASSUME TypeOK, OwnershipInv, KeepersOK
  PROVE  OneStreamPerSlot
<1>1. \A j \in Live : j \in Jobs /\ (Releasing(j) \/ job[j].hold)
  BY DEF Live, Releasing
<1>2. \A j \in Live : job[j].hold => slot[j] \in Reserved /\ \E t \in Tasks : call[t] = j /\ taskSlot[t] = slot[j]
  <2> SUFFICES ASSUME NEW j \in Live, job[j].hold
               PROVE  slot[j] \in Reserved /\ \E t \in Tasks : call[t] = j /\ taskSlot[t] = slot[j]
    OBVIOUS
  <2>1. slot[j] = job[j].hint /\ Awaited(j) /\ job[j].hint \in Slots
    BY DEF KeepersOK, KeeperOK, Live, UnderWay
  <2>2. QED
    BY <2>1, ConstantFacts DEF Awaited, Reserved
<1>3. \A j, k \in Live : slot[j] = slot[k] => j = k \/ slot[j] \in HintedSlots
  <2> SUFFICES ASSUME NEW j \in Live, NEW k \in Live, slot[j] = slot[k],
                      slot[j] \notin HintedSlots
               PROVE  j = k
    OBVIOUS
  <2>1. CASE job[j].hold /\ job[k].hold
    <3>1. PICK t \in Tasks : call[t] = j /\ taskSlot[t] = slot[j]
      BY <1>2, <2>1
    <3>2. PICK u \in Tasks : call[u] = k /\ taskSlot[u] = slot[k]
      BY <1>2, <2>1
    <3>3. taskSlot[t] # NoSlot
      BY <1>2, <2>1, <3>1 DEF Reserved
    <3>4. QED
      BY <3>1, <3>2, <3>3 DEF OwnershipInv, TaskPart, ReservedUntilFreed, ReservationsExclusive
  <2>2. CASE ~job[j].hold \/ ~job[k].hold
    BY <1>1, <1>2, <2>2 DEF OwnershipInv, JobPart, Releasing
  <2>3. QED
    BY <2>1, <2>2
<1>4. \A j \in Live : HeldByChat(slot[j]) => slot[j] \in HintedSlots
  BY <1>1, <1>2 DEF OwnershipInv, ChatPart, HeldByChat, Running
<1>5. QED
  BY <1>3, <1>4 DEF OneStreamPerSlot, OwnershipInv, ChatPart, Running

(* llama-server computes two completions on one slot at a time on a hinted    *)
(* slot at most, which in the code is the last one, that the summarizers ask  *)
(* for, as long as no stopped sub-agent leaves a stream on a slot it gives    *)
(* back.                                                                     *)
THEOREM StreamsHaveASlotEach == ASSUME NoStops PROVE Spec => []OneStreamPerSlot
<1>1. TypeOK /\ OwnershipInv /\ KeepersOK => OneStreamPerSlot
  BY StreamsApart
<1>2. QED
  BY <1>1, TypeCorrect, OwnershipCorrect, KeepersCorrect, PTL

-----------------------------------------------------------------------------
(* The queue. P1 requests come from sub-agents only: their slot is reserved, *)
(* so that the dispatcher never waits for one and none is claimed ahead of a  *)
(* P0 request that arrives meanwhile.                                        *)

OnlySubAgentsAskForP1 == P1_SUBAGENT \notin SubmitPriorities

P1Keeps ==
  \A k \in Jobs : job[k].priority = P1_SUBAGENT => job[k].hold /\ st[k] # "claiming"

LEMMA P1KeepsCorrect == ASSUME NoStops, OnlySubAgentsAskForP1 PROVE Spec => []P1Keeps
<1>1. Init => P1Keeps
  BY DEF Init, P1Keeps, P0_MAIN, P1_SUBAGENT
<1>2. TypeOK /\ KeepersOK /\ P1Keeps /\ [Next]_vars => P1Keeps'
  <2> SUFFICES ASSUME TypeOK, KeepersOK, P1Keeps, [Next]_vars PROVE P1Keeps'
    OBVIOUS
  <2>1. ASSUME NEW j \in Jobs, NEW p, NEW h, NEW hold, Enqueue(j, p, h, hold), p = P1_SUBAGENT => hold
        PROVE  P1Keeps'
    BY <2>1 DEF Enqueue, P1Keeps, TypeOK
  <2>2. ASSUME NEW j \in Jobs, Dispatch(j)
        PROVE  P1Keeps'
    <3>1. job[j].hold => Available(job[j].hint) # {}
      BY <2>2, KeeperClaims DEF Dispatch, NextItem, Queue, UnderWay
    <3>2. QED
      BY <2>2, <3>1 DEF Dispatch, queueVars, P1Keeps, TypeOK
  <2>3. ASSUME UNCHANGED job, \A k \in Jobs : st'[k] = "claiming" => st[k] = "claiming"
        PROVE  P1Keeps'
    BY <2>3 DEF P1Keeps
  <2>4. ASSUME NEW j \in Jobs, JobStep(j)
        PROVE  P1Keeps'
    <3>1. ASSUME NEW p \in SubmitPriorities, NEW h \in SubmitHints, Submit(j, p, h)
          PROVE  P1Keeps'
      BY <2>1, <3>1 DEF Submit, OnlySubAgentsAskForP1
    <3>2. CASE DispatchWakes(j) \/ JobStarts(j) \/ Token(j) \/ CancelHandle(j)
      BY <2>3, <3>2 DEF DispatchWakes, JobStarts, Token, CancelHandle, queueVars, TypeOK
    <3>3. ASSUME NEW how, JobEnds(j, how)
          PROVE  P1Keeps'
      BY <2>3, <3>3 DEF JobEnds, queueVars, TypeOK
    <3>4. QED
      BY <2>2, <2>4, <3>1, <3>2, <3>3 DEF JobStep, StreamEnds, StreamFails, AbortJob
  <2>5. ASSUME NEW c \in Chats, ChatStep(c)
        PROVE  P1Keeps'
    BY <2>3, <2>5 DEF ChatStep, ChatCalls, ChatWakes, ChatEnds, ChatLeaves, queueVars, jobVars
  <2>6. ASSUME NEW t \in Tasks, TaskStep(t)
        PROVE  P1Keeps'
    <3>1. ASSUME NEW j \in Jobs, SubmitAssigned(t, j)
          PROVE  P1Keeps'
      BY <2>1, <3>1 DEF SubmitAssigned
    <3>2. QED
      BY <2>3, <2>6, <3>1 DEF TaskStep, WorkerStarts, WorkerWakes, ModelStepReturns, WorkerEnds, StopTask,
                              queueVars, jobVars
  <2>7. CASE Close \/ CancelJobs
    BY <2>3, <2>7 DEF Close, CancelJobs, queueVars, TypeOK
  <2>8. CASE UNCHANGED vars
    BY <2>3, <2>8 DEF vars
  <2>9. QED
    BY <2>4, <2>5, <2>6, <2>7, <2>8 DEF Next
<1>3. QED
  BY <1>1, <1>2, TypeCorrect, KeepersCorrect, PTL DEF Spec

(* No sub-agent stream is started while a P0 request waits in the queue, as   *)
(* long as no [STOP_TASK] makes the dispatcher wait for a P1. The first pass  *)
(* of a turn of Main is complete_chat, which is not queued: of it this says   *)
(* nothing.                                                                  *)
THEOREM QueuedMainFirst == ASSUME NoStops, OnlySubAgentsAskForP1 PROVE Spec => QueuedMainGoesFirst
<1> DEFINE A == \A j, k \in Jobs :
                  st[j] = "queued" /\ job[j].priority = P0_MAIN /\ job[k].priority = P1_SUBAGENT
                  => ~(st[k] \notin {"spawned"} /\ st'[k] = "spawned")
<1>1. TypeOK /\ P1Keeps /\ [Next]_vars => [A]_vars
  <2> SUFFICES ASSUME TypeOK, P1Keeps, Next, NEW j \in Jobs, NEW k \in Jobs,
                      st[j] = "queued", job[j].priority = P0_MAIN, job[k].priority = P1_SUBAGENT,
                      st[k] # "spawned", st'[k] = "spawned"
               PROVE  FALSE
    OBVIOUS
  <2>1. ASSUME NEW i \in Jobs, JobStep(i)
        PROVE  i = k /\ (Dispatch(k) \/ DispatchWakes(k))
    BY <2>1 DEF JobStep, Submit, Enqueue, Dispatch, DispatchWakes, JobStarts, Token, CancelHandle, StreamEnds,
                StreamFails, AbortJob, JobEnds, TypeOK
  <2>2. ~Dispatch(k)
    <3>1. j # k /\ ~Before(k, j)
      BY DEF Before, P0_MAIN, P1_SUBAGENT
    <3>2. QED
      BY <3>1 DEF Dispatch, NextItem, Queue
  <2>3. ~DispatchWakes(k)
    BY DEF DispatchWakes, P1Keeps
  <2>4. \A c \in Chats : ~ChatStep(c)
    BY DEF ChatStep, ChatCalls, ChatWakes, ChatEnds, ChatLeaves, jobVars
  <2>5. \A t \in Tasks : ~TaskStep(t)
    BY DEF TaskStep, WorkerStarts, WorkerWakes, SubmitAssigned, Enqueue, ModelStepReturns, WorkerEnds, StopTask,
           jobVars, TypeOK
  <2>6. ~Close /\ ~CancelJobs
    BY DEF Close, CancelJobs, TypeOK
  <2>7. QED
    BY <2>1, <2>2, <2>3, <2>4, <2>5, <2>6 DEF Next
<1>2. Spec => [][A]_vars
  BY <1>1, TypeCorrect, P1KeepsCorrect, PTL DEF Spec
<1>3. QED
  BY <1>2 DEF QueuedMainGoesFirst
=============================================================================
