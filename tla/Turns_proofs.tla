---------------------------- MODULE Turns_proofs ----------------------------
(* Theorems about Turns. Types and one user turn at a time hold whatever      *)
(* happens; the others for what may happen in the session (Events), which     *)
(* each hypothesis names.                                                    *)
EXTENDS Turns, TLAPS

(* No exception is raised in a turn: a failed turn leaves its pipeline        *)
(* running, which begins to speak when the turn is over.                     *)
NoFailures == "fail" \notin Events

(* The notifier keeps still: a proactive turn is not session.turn_task, so    *)
(* that it overlaps with turns of the user and no interrupt cancels it.      *)
NoSignals == "proactive" \notin Events

-----------------------------------------------------------------------------
(* The inductive invariant                                                  *)

(* Which kinds of turn are at a stage.                                       *)
UserKinds == {"voice", "chat"}
QueuedKinds == {"compute", "handled"}
KindFits(t) ==
  /\ t.at = "created" => t.kind = "chat"
  /\ t.at = "hearing" => t.kind = "voice"
  /\ t.at = "waiting" => t.kind \in {"chat", "compute"}
  /\ t.at = "computing" => t.kind = "compute"
  /\ t.at = "delivering" => t.kind \in QueuedKinds
  /\ t.at = "joining" => t.kind \in UserKinds \cup {"compute"}
  /\ t.at \in InReply => t.kind \in UserKinds \cup {"proactive"}

(* Only a turn with a pipeline feeds it, and nothing is fed to it before the  *)
(* reply or once the turn speaks as a whole or saves.                        *)
FedAt == {"thinking", "storing", "stored", "flushing", "unwinding", "joining", "gone"}

ShapeOK(t) ==
  /\ t.at = "unused" => t.kind = "none" /\ ~t.fed /\ ~t.silenced
  /\ KindFits(t)
  /\ t.fed => t.voice /\ t.at \in FedAt /\ t.kind \notin QueuedKinds

ShapesOK == \A n \in Turns : ShapeOK(turn[n])

(* What the references of the session refer to.                              *)
QueueOK ==
  /\ queued # NoTurn => turn[queued].at = "waiting"
  /\ computeTask # NoTurn => turn[computeTask].kind \in QueuedKinds
  /\ pending # NoTurn => turn[pending].kind \in QueuedKinds /\ turn[pending].at \in {"gone", "joining"}

HandlerOK ==
  /\ handler.at # "ready" => handler.on # NoTurn
  /\ handler.at = "delivering" =>
       turn[handler.on].at = "delivering" /\ turn[handler.on].kind = "handled"

IInv == TypeOK /\ ShapesOK /\ QueueOK /\ HandlerOK /\ OneUserTurn

(* What else is needed without failures: a pipeline that is fed belongs to a  *)
(* turn that replies.                                                        *)
FedReplies == \A n \in Turns : turn[n].fed => turn[n].at \in InReply

BusyInv == FedReplies /\ BusyForATurn

(* Without proactive turns as well: a typed turn that is created starts in a  *)
(* quiet session, so that it is never queued again, and the turns are used in *)
(* the order of their numbers.                                               *)
NoneProactive == \A n \in Turns : turn[n].kind # "proactive"
CreatedQuiet == \A n \in Turns : turn[n].at = "created" => ~session_busy
UnusedLast == \A m, n \in Turns : m < n /\ turn[m].at = "unused" => turn[n].at = "unused"

ChatInv == CreatedQuiet /\ UnusedLast /\ NoChatLost

(* An interrupted turn of the user is over, or the cancel event is set until  *)
(* it is, and it is past everything that would clear it.                     *)
IsOver(t) == t.at \in {"joining", "gone"} /\ ~t.fed
IsEnding(t) == t.at \in InReply /\ (t.cancelled \/ t.at \in {"unwinding", "saving"})

SilentOK(n) ==
  IsUserTurn(n) /\ turn[n].silenced =>
    heard # n /\ (IsOver(turn[n]) \/ (IsEnding(turn[n]) /\ ttsCancel))
SilencedEnds == \A n \in Turns : SilentOK(n)

SilenceInv == NoneProactive /\ SilencedEnds

(* Who is awaited is about to end or over, and its reply does not wait to be  *)
(* delivered, which would set it going again; who is recorded does run.      *)
Awaited(m) == m \in Turns /\ m # pending /\ WillEnd(m)

RecordedRuns ==
  computeTask # NoTurn => turn[computeTask].kind = "compute" /\ turn[computeTask].at \in {"computing", "delivering"}

AwaitInv ==
  /\ RecordedRuns
  /\ \A n \in Turns : turn[n].at = "joining" => Awaited(turn[n].on)
  /\ handler.at = "joining" => Awaited(handler.on)

-----------------------------------------------------------------------------
(* What a step does to turns other than the one that acts: nothing, or the    *)
(* recorded compute task is cancelled, or the queued chat is taken up.       *)
Beside(m) ==
  \/ turn'[m] = turn[m]
  \/ m = computeTask /\ turn'[m] = [turn[m] EXCEPT !.cancelled = TRUE]
  \/ /\ m = queued /\ queued' = NoTurn
     /\ turn'[m] = [turn[m] EXCEPT !.kind = "compute", !.at = "computing"]

StepOf(n) == turn' \in [Turns -> Turn] /\ \A m \in Turns \ {n} : Beside(m)

(* The queued chat waits on, or is taken up.                                  *)
QueueMoves ==
  \/ /\ queued' = queued /\ computeTask' \in {computeTask, NoTurn}
     /\ queued # NoTurn => turn'[queued] = turn[queued]
  \/ /\ queued # NoTurn /\ queued' = NoTurn /\ computeTask' \in {queued, NoTurn}
     /\ turn'[queued] = [turn[queued] EXCEPT !.kind = "compute", !.at = "computing"]

(* What becomes of the record t of a turn that ends.                          *)
Ends(u, t) ==
  /\ u \in Turn
  /\ u.at \in {"gone", "joining"}
  /\ u.kind = t.kind /\ u.fed = t.fed /\ u.voice = t.voice
  /\ u.rows = t.rows /\ u.silenced = t.silenced /\ ~u.cancelled

(* A turn that ends by waiting has cancelled the compute task it waits for.   *)
Cut(m) == /\ m = computeTask /\ m \in Turns /\ turn[m].at \notin {"unused", "waiting", "gone"}
          /\ turn'[m] = [turn[m] EXCEPT !.cancelled = TRUE]

Waits(n) == turn'[n].at = "joining" => turn'[n].on # n /\ Cut(turn'[n].on)

LEMMA TurnNumbers == Turns \subseteq Nat /\ NoTurn \notin Turns
  BY TurnsAssumption DEF Turns, NoTurn

LEMMA TypedTurns ==
  ASSUME TypeOK
  PROVE  turn \in [Turns -> Turn] /\ queued \in Turns \cup {NoTurn} /\ computeTask \in Turns \cup {NoTurn}
         /\ pending \in Turns \cup {NoTurn} /\ turnTask \in Turns \cup {NoTurn}
  BY DEF TypeOK

LEMMA RecordEdits ==
  ASSUME NEW r \in Turn, NEW m \in Turns \cup {NoTurn}
  PROVE  /\ [r EXCEPT !.cancelled = TRUE] \in Turn /\ [r EXCEPT !.cancelled = FALSE] \in Turn
         /\ [r EXCEPT !.at = "gone", !.cancelled = FALSE] \in Turn
         /\ [r EXCEPT !.at = "joining", !.on = m, !.cancelled = FALSE] \in Turn
         /\ [r EXCEPT !.kind = "compute", !.at = "computing"] \in Turn
         /\ Ends([r EXCEPT !.at = "gone", !.cancelled = FALSE], r)
         /\ Ends([r EXCEPT !.at = "joining", !.on = m, !.cancelled = FALSE], r)
  BY DEF Turn, Stage, Ends

LEMMA GoneValue ==
  ASSUME NEW t \in [Turns -> Turn], NEW n \in Turns
  PROVE  /\ Gone(t, n) \in [Turns -> Turn]
         /\ Gone(t, n)[n] = [t[n] EXCEPT !.at = "gone", !.cancelled = FALSE]
         /\ \A m \in Turns \ {n} : Gone(t, n)[m] = t[m]
<1>1. Gone(t, n) = [t EXCEPT ![n] = [t[n] EXCEPT !.at = "gone", !.cancelled = FALSE]]
  BY DEF Gone
<1>2. [t[n] EXCEPT !.at = "gone", !.cancelled = FALSE] \in Turn
  BY RecordEdits
<1>3. QED
  BY <1>1, <1>2

LEMMA EndedGone ==
  ASSUME NEW r \in Turn PROVE [r EXCEPT !.at = "gone", !.cancelled = FALSE].at = "gone"
  BY DEF Turn

LEMMA CancelledValue ==
  ASSUME NEW t \in [Turns -> Turn], NEW n \in Turns
  PROVE  /\ Cancelled(t, n) \in [Turns -> Turn]
         /\ Cancelled(t, n)[n] = [t[n] EXCEPT !.cancelled = TRUE]
         /\ \A m \in Turns \ {n} : Cancelled(t, n)[m] = t[m]
<1>1. Cancelled(t, n) = [t EXCEPT ![n] = [t[n] EXCEPT !.cancelled = TRUE]]
  BY DEF Cancelled
<1>2. [t[n] EXCEPT !.cancelled = TRUE] \in Turn
  BY RecordEdits
<1>3. QED
  BY <1>1, <1>2

LEMMA CutTyped ==
  ASSUME NEW r \in Turn
  PROVE  /\ [r EXCEPT !.cancelled = TRUE].cancelled /\ [r EXCEPT !.cancelled = TRUE].at = r.at
         /\ [r EXCEPT !.cancelled = TRUE].kind = r.kind /\ [r EXCEPT !.cancelled = TRUE].on = r.on
  BY DEF Turn

(* The ways in which a task ends: it is over, it waits for the compute task   *)
(* it has cancelled, or it takes up the queued chat.                         *)
Ending(n, t) ==
  (\A m \in Turns \ {n} : t[m] = turn[m]) /\ queued # n

Goes(n, t) == turn' = Gone(t, n) /\ queued' = queued /\ computeTask' \in {computeTask, NoTurn}

Joins(n, t) ==
  /\ Alive(computeTask) /\ computeTask # n /\ computeTask # queued
  /\ turn' = [Cancelled(t, computeTask) EXCEPT ![n].at = "joining", ![n].on = computeTask,
                                               ![n].cancelled = FALSE]
  /\ UNCHANGED <<queued, computeTask>>

Launches(n, t) ==
  /\ queued # NoTurn
  /\ turn' = [Gone(t, n) EXCEPT ![queued].kind = "compute", ![queued].at = "computing"]
  /\ queued' = NoTurn /\ computeTask' \in {queued, NoTurn}

Ended(n, t) == StepOf(n) /\ QueueMoves /\ Ends(turn'[n], t[n]) /\ Waits(n)

LEMMA GoesEffect ==
  ASSUME TypeOK, NEW n \in Turns, NEW t \in [Turns -> Turn], Ending(n, t), Goes(n, t)
  PROVE  Ended(n, t)
<1>1. (\A m \in Turns \ {n} : t[m] = turn[m]) /\ queued # n /\ queued \in Turns \cup {NoTurn}
  BY TypedTurns DEF Ending
<1> DEFINE g == Gone(t, n)
<1>g. turn' = g
  BY DEF Goes
<1>h. /\ g \in [Turns -> Turn] /\ g[n] = [t[n] EXCEPT !.at = "gone", !.cancelled = FALSE]
      /\ \A m \in Turns \ {n} : g[m] = t[m]
  BY GoneValue
<1> HIDE DEF g
<1>2. /\ turn' \in [Turns -> Turn] /\ turn'[n] = [t[n] EXCEPT !.at = "gone", !.cancelled = FALSE]
      /\ \A m \in Turns \ {n} : turn'[m] = t[m]
  BY <1>g, <1>h
<1>3. Ends(turn'[n], t[n])
  BY <1>2, RecordEdits
<1>4. \A m \in Turns \ {n} : turn'[m] = turn[m]
  BY <1>1, <1>2
<1>5. StepOf(n)
  BY <1>2, <1>4 DEF StepOf, Beside
<1>6. QueueMoves
  BY <1>1, <1>4 DEF QueueMoves, Goes
<1>7. Waits(n)
  BY <1>2, EndedGone DEF Waits
<1>8. QED
  BY <1>3, <1>5, <1>6, <1>7 DEF Ended

LEMMA JoinsEffect ==
  ASSUME TypeOK, NEW n \in Turns, NEW t \in [Turns -> Turn], Ending(n, t), Joins(n, t)
  PROVE  Ended(n, t)
<1> DEFINE c == Cancelled(t, computeTask)
<1>1. /\ \A m \in Turns \ {n} : t[m] = turn[m]
      /\ queued # n /\ queued \in Turns \cup {NoTurn} /\ computeTask \in Turns
      /\ computeTask # n /\ computeTask # queued
  BY TypedTurns DEF Ending, Alive, Joins
<1>2. /\ c \in [Turns -> Turn] /\ c[computeTask] = [t[computeTask] EXCEPT !.cancelled = TRUE]
      /\ \A m \in Turns \ {computeTask} : c[m] = t[m]
  BY <1>1, CancelledValue
<1>3. turn' = [c EXCEPT ![n] = [c[n] EXCEPT !.at = "joining", !.on = computeTask, !.cancelled = FALSE]]
  BY <1>1, <1>2 DEF Joins
<1> HIDE DEF c
<1>4. c[n] = t[n] /\ c[computeTask] = [turn[computeTask] EXCEPT !.cancelled = TRUE]
      /\ \A m \in Turns \ {n, computeTask} : c[m] = turn[m]
  BY <1>1, <1>2
<1>5. [c[n] EXCEPT !.at = "joining", !.on = computeTask, !.cancelled = FALSE] \in Turn
      /\ Ends([c[n] EXCEPT !.at = "joining", !.on = computeTask, !.cancelled = FALSE], c[n])
  BY <1>1, <1>2, RecordEdits
<1>6. turn' \in [Turns -> Turn] /\ \A m \in Turns \ {n} : turn'[m] = c[m]
  BY <1>2, <1>3, <1>5
<1>7. Ends(turn'[n], t[n])
  BY <1>2, <1>3, <1>4, <1>5
<1>8. StepOf(n)
  BY <1>4, <1>6 DEF StepOf, Beside
<1>9. QueueMoves
  BY <1>1, <1>4, <1>6, TurnNumbers DEF QueueMoves, Joins
<1>10. Waits(n)
  <2>1. c[n] \in Turn
    BY <1>2
  <2>2. [c[n] EXCEPT !.at = "joining", !.on = computeTask, !.cancelled = FALSE].on = computeTask
    BY <2>1 DEF Turn
  <2>3. turn'[n].on = computeTask /\ turn'[computeTask] = [turn[computeTask] EXCEPT !.cancelled = TRUE]
    BY <1>1, <1>2, <1>3, <1>4, <1>6, <2>2
  <2>4. turn[computeTask].at \notin {"unused", "waiting", "gone"}
    BY DEF Joins, Alive
  <2>5. QED
    BY <1>1, <2>3, <2>4 DEF Waits, Cut
<1>11. QED
  BY <1>7, <1>8, <1>9, <1>10 DEF Ended

LEMMA LaunchesEffect ==
  ASSUME TypeOK, NEW n \in Turns, NEW t \in [Turns -> Turn], Ending(n, t), Launches(n, t)
  PROVE  Ended(n, t)
<1> DEFINE g == Gone(t, n)
<1>1. /\ \A m \in Turns \ {n} : t[m] = turn[m]
      /\ queued # n /\ queued \in Turns /\ turn \in [Turns -> Turn]
  BY TypedTurns DEF Ending, Launches
<1>2. /\ g \in [Turns -> Turn] /\ g[n] = [t[n] EXCEPT !.at = "gone", !.cancelled = FALSE]
      /\ \A m \in Turns \ {n} : g[m] = t[m]
  BY GoneValue
<1>3. turn' = [g EXCEPT ![queued] = [g[queued] EXCEPT !.kind = "compute", !.at = "computing"]]
  BY <1>1, <1>2 DEF Launches
<1>4. Ends(g[n], t[n])
  BY <1>2, RecordEdits
<1> HIDE DEF g
<1>5. [g[queued] EXCEPT !.kind = "compute", !.at = "computing"] \in Turn
  BY <1>1, <1>2, RecordEdits
<1>6. /\ turn' \in [Turns -> Turn] /\ turn'[n] = g[n]
      /\ turn'[queued] = [g[queued] EXCEPT !.kind = "compute", !.at = "computing"]
      /\ \A m \in Turns \ {n, queued} : turn'[m] = g[m]
  BY <1>1, <1>2, <1>3, <1>5
<1>7. g[queued] = turn[queued] /\ \A m \in Turns \ {n} : g[m] = turn[m]
  BY <1>1, <1>2
<1>8. Ends(turn'[n], t[n])
  BY <1>4, <1>6
<1>9. StepOf(n)
  BY <1>6, <1>7 DEF StepOf, Beside, Launches
<1>10. QueueMoves
  BY <1>6, <1>7 DEF QueueMoves, Launches
<1>11. Waits(n)
  BY <1>2, <1>6, EndedGone DEF Waits
<1>12. QED
  BY <1>8, <1>9, <1>10, <1>11 DEF Ended

(* drain_chat_queue at the end of a turn, and the end of a compute task.      *)
LEMMA TurnDrainsEffect ==
  ASSUME IInv, NEW n \in Turns, NEW t \in [Turns -> Turn], Ending(n, t),
         turn[n].kind \notin QueuedKinds, TurnDrains(n, t)
  PROVE  Ended(n, t)
<1>1. /\ queued # NoTurn => turn[queued].at = "waiting"
      /\ computeTask # NoTurn => computeTask # n
      /\ TypeOK
  BY DEF IInv, QueueOK
<1>2. ASSUME Alive(computeTask) PROVE computeTask # queued /\ computeTask # n
  BY <1>1, <1>2 DEF Alive
<1>3. Goes(n, t) \/ Joins(n, t) \/ Launches(n, t)
  BY <1>2 DEF TurnDrains, Launch, Goes, Joins, Launches
<1>4. QED
  BY <1>1, <1>3, GoesEffect, JoinsEffect, LaunchesEffect

LEMMA ComputeEndsEffect ==
  ASSUME IInv, NEW n \in Turns, NEW t \in [Turns -> Turn], Ending(n, t), ComputeEnds(n, t)
  PROVE  Ended(n, t)
<1>1. TypeOK /\ (queued # NoTurn => turn[queued].at = "waiting")
  BY DEF IInv, QueueOK
<1>2. ASSUME Alive(computeTask) PROVE computeTask # queued
  BY <1>1, <1>2 DEF Alive
<1>3. Goes(n, t) \/ Joins(n, t) \/ Launches(n, t)
  BY <1>2 DEF ComputeEnds, Goes, Joins, Launches
<1>4. QED
  BY <1>1, <1>3, GoesEffect, JoinsEffect, LaunchesEffect

LEMMA JoinedEffect ==
  ASSUME IInv, NEW n \in Turns, Joined(n)
  PROVE  Ended(n, turn)
<1>1. TypeOK /\ turn \in [Turns -> Turn] /\ Ending(n, turn)
  BY TypedTurns, TurnNumbers DEF IInv, QueueOK, Joined, Ending
<1>2. Goes(n, turn) \/ Launches(n, turn)
  BY DEF Joined, Launch, Goes, Launches
<1>3. QED
  BY <1>1, <1>2, GoesEffect, LaunchesEffect

-----------------------------------------------------------------------------
(* The steps that edit the record of one turn                                *)
Edits(n, r) == turn' = [turn EXCEPT ![n] = r]

LEMMA EditEffect ==
  ASSUME TypeOK, NEW n \in Turns, NEW r \in Turn, Edits(n, r)
  PROVE  StepOf(n) /\ turn'[n] = r /\ \A m \in Turns \ {n} : turn'[m] = turn[m]
  BY TypedTurns DEF Edits, StepOf, Beside

BegunAs(n, kind, v) == [turn[n] EXCEPT !.kind = kind, !.at = "thinking", !.voice = v]

LEMMA BegunTyped ==
  ASSUME TypeOK, NEW n \in Turns, NEW v \in BOOLEAN,
         NEW kind \in {"none", "voice", "chat", "compute", "handled", "proactive"}
  PROVE  BegunAs(n, kind, v) \in Turn
<1>1. ASSUME NEW r \in Turn PROVE [r EXCEPT !.kind = kind, !.at = "thinking", !.voice = v] \in Turn
  <2>1. "thinking" \in Stage
    BY DEF Stage, InReply
  <2>2. [r EXCEPT !.kind = kind] \in Turn
    BY DEF Turn
  <2>3. [[r EXCEPT !.kind = kind] EXCEPT !.at = "thinking"] \in Turn
    BY <2>1, <2>2 DEF Turn
  <2>4. QED
    BY <2>3 DEF Turn
<1>2. turn[n] \in Turn
  BY TypedTurns
<1>3. QED
  BY <1>1, <1>2 DEF BegunAs

LEMMA BeginEffect ==
  ASSUME TypeOK, NEW n \in Turns, NEW via, Begin(n, via)
  PROVE  \E v \in BOOLEAN : Edits(n, BegunAs(n, turn[n].kind, v)) /\ BegunAs(n, turn[n].kind, v) \in Turn
<1> DEFINE v == via = "voice_and_chat"
<1>1. Edits(n, [turn[n] EXCEPT !.at = "thinking", !.voice = v])
  BY TypedTurns DEF Begin, Edits
<1>2. v \in BOOLEAN
  OBVIOUS
<1> HIDE DEF v
<1>3. [turn[n] EXCEPT !.at = "thinking", !.voice = v] = BegunAs(n, turn[n].kind, v)
  BY <1>2, TypedTurns DEF BegunAs, Turn
<1>4. turn[n].kind \in {"none", "voice", "chat", "compute", "handled", "proactive"}
  BY TypedTurns DEF Turn
<1>5. QED
  BY <1>1, <1>2, <1>3, <1>4, BegunTyped

LEMMA ProactiveEffect ==
  ASSUME TypeOK, NEW n \in Turns, ProactiveBegins(n)
  PROVE  \E v \in BOOLEAN : Edits(n, BegunAs(n, "proactive", v)) /\ BegunAs(n, "proactive", v) \in Turn
<1>1. PICK via \in Channels :
        turn' = [turn EXCEPT ![n].kind = "proactive", ![n].at = "thinking",
                             ![n].voice = (via = "voice_and_chat")]
  BY DEF ProactiveBegins
<1> DEFINE v == via = "voice_and_chat"
<1>2. Edits(n, [turn[n] EXCEPT !.kind = "proactive", !.at = "thinking", !.voice = v])
  BY <1>1 DEF Edits
<1>3. v \in BOOLEAN
  OBVIOUS
<1> HIDE DEF v
<1>4. QED
  BY <1>2, <1>3, BegunTyped DEF BegunAs

LEMMA ReplyEdits ==
  ASSUME TypeOK, NEW n \in Turns
  PROVE  /\ Token(n) => Edits(n, [turn[n] EXCEPT !.fed = turn[n].voice])
         /\ PipelineSpeaks(n) => Edits(n, [turn[n] EXCEPT !.started = TRUE])
         /\ PipelineDrains(n) => Edits(n, [turn[n] EXCEPT !.fed = FALSE])
         /\ Answers(n) => Edits(n, [turn[n] EXCEPT !.at = "storing"])
         /\ RowStored(n) => Edits(n, [turn[n] EXCEPT !.at = "stored", !.rows = turn[n].rows + 1])
         /\ SpeaksWhole(n) => Edits(n, [turn[n] EXCEPT !.at = "batch", !.started = TRUE])
         /\ HearsNothing(n) \/ CancelledEarly(n) =>
              Edits(n, [turn[n] EXCEPT !.at = "gone", !.cancelled = FALSE])
         /\ Unwinds(n) => Edits(n, [turn[n] EXCEPT !.at = "unwinding", !.cancelled = FALSE])
         /\ Salvages(n) => Edits(n, [turn[n] EXCEPT !.at = "saving", !.told = "partial", !.cancelled = FALSE])
         /\ ChatRequeues(n) \/ ComputeFails(n) => Edits(n, [turn[n] EXCEPT !.at = "waiting"])
  BY TypedTurns DEF Token, PipelineSpeaks, PipelineDrains, Answers, RowStored, Moves, SpeaksWhole, HearsNothing,
                    CancelledEarly, Unwinds, Salvages, ChatRequeues, ComputeFails, Gone, Edits, Turn

(* A turn of the user that ends, and a compute task.                          *)
LEMMA EndTurnEffect ==
  ASSUME IInv, NEW n \in Turns, NEW r \in Turn, turn[n].at \in InReply,
         EndTurn(n, [turn EXCEPT ![n] = r])
  PROVE  Ended(n, [turn EXCEPT ![n] = r]) /\ (turn'[n].at = "joining" => IsUserTurn(n))
<1> DEFINE t == [turn EXCEPT ![n] = r]
<1>1. TypeOK /\ turn \in [Turns -> Turn]
  BY TypedTurns DEF IInv
<1>2. t \in [Turns -> Turn] /\ \A m \in Turns \ {n} : t[m] = turn[m]
  BY <1>1
<1>3. turn[n].at # "waiting" /\ turn[n].kind \in UserKinds \cup {"proactive"}
  BY DEF IInv, ShapesOK, ShapeOK, KindFits, InReply
<1>4. queued # n
  BY <1>3, TurnNumbers DEF IInv, QueueOK
<1>5. Ending(n, t)
  BY <1>2, <1>4 DEF Ending
<1>6. EndTurn(n, t)
  OBVIOUS
<1> HIDE DEF t
<1>7. CASE IsUserTurn(n)
  <2>1. TurnDrains(n, t)
    BY <1>6, <1>7 DEF EndTurn
  <2>2. turn[n].kind \notin QueuedKinds
    BY <1>3 DEF UserKinds, QueuedKinds
  <2>3. Ended(n, t)
    BY <1>2, <1>5, <2>1, <2>2, TurnDrainsEffect
  <2>4. QED
    BY <1>7, <2>3 DEF t
<1>8. CASE ~IsUserTurn(n)
  <2>1. Goes(n, t)
    BY <1>6, <1>8 DEF EndTurn, Goes
  <2>2. Ended(n, t)
    BY <1>1, <1>2, <1>5, <2>1, GoesEffect
  <2>3. Gone(t, n)[n] = [t[n] EXCEPT !.at = "gone", !.cancelled = FALSE]
    BY <1>2, GoneValue
  <2>4. t[n] \in Turn
    BY <1>2
  <2>5. [t[n] EXCEPT !.at = "gone", !.cancelled = FALSE].at = "gone"
    BY <2>4 DEF Turn
  <2>6. turn'[n].at = "gone"
    BY <2>1, <2>3, <2>5 DEF Goes
  <2>7. QED
    BY <2>2, <2>6 DEF t
<1>9. QED
  BY <1>7, <1>8

LEMMA ComputeEffect ==
  ASSUME IInv, NEW n \in Turns, NEW r \in Turn, turn[n].at # "waiting",
         ComputeEnds(n, [turn EXCEPT ![n] = r])
  PROVE  Ended(n, [turn EXCEPT ![n] = r])
<1> DEFINE t == [turn EXCEPT ![n] = r]
<1>1. TypeOK /\ turn \in [Turns -> Turn] /\ queued # n
  BY TypedTurns, TurnNumbers DEF IInv, QueueOK
<1>2. t \in [Turns -> Turn] /\ \A m \in Turns \ {n} : t[m] = turn[m]
  BY <1>1
<1>3. Ending(n, t)
  BY <1>1, <1>2 DEF Ending
<1>4. ComputeEnds(n, t)
  OBVIOUS
<1> HIDE DEF t
<1>5. Ended(n, t)
  BY <1>2, <1>3, <1>4, ComputeEndsEffect
<1>6. QED
  BY <1>5 DEF t

(* What is left of a turn n that ends, where it told and stored more.         *)
LastOf(n) ==
  /\ turn'[n] \in Turn
  /\ turn'[n].at \in {"gone", "joining"} /\ ~turn'[n].cancelled
  /\ turn'[n].at = "joining" => turn[n].kind \in UserKinds \cup {"compute"}
  /\ turn'[n].kind = turn[n].kind /\ turn'[n].voice = turn[n].voice
  /\ turn'[n].silenced = turn[n].silenced

EndsWith(n, fed, rows) ==
  StepOf(n) /\ QueueMoves /\ LastOf(n) /\ Waits(n) /\ turn'[n].fed = fed /\ turn'[n].rows = rows

LEMMA EndedIsLast ==
  ASSUME TypeOK, NEW n \in Turns, NEW r \in Turn, Ended(n, [turn EXCEPT ![n] = r]),
         turn'[n].at = "joining" => turn[n].kind \in UserKinds \cup {"compute"},
         r.kind = turn[n].kind, r.voice = turn[n].voice, r.silenced = turn[n].silenced
  PROVE  EndsWith(n, r.fed, r.rows)
<1>1. [turn EXCEPT ![n] = r][n] = r
  BY TypedTurns
<1>2. StepOf(n) /\ QueueMoves /\ Ends(turn'[n], r) /\ Waits(n)
  BY <1>1 DEF Ended
<1>3. QED
  BY <1>2 DEF EndsWith, LastOf, Ends

LEMMA EndTurnEnds ==
  ASSUME IInv, NEW n \in Turns, NEW r \in Turn, turn[n].at \in InReply,
         r.kind = turn[n].kind, r.voice = turn[n].voice, r.silenced = turn[n].silenced,
         EndTurn(n, [turn EXCEPT ![n] = r])
  PROVE  EndsWith(n, r.fed, r.rows)
  BY EndTurnEffect, EndedIsLast DEF IInv, IsUserTurn, UserKinds

LEMMA TellsEffect ==
  ASSUME IInv, NEW n \in Turns, Tells(n) PROVE EndsWith(n, turn[n].fed, turn[n].rows)
<1> DEFINE r == [turn[n] EXCEPT !.told = IF ttsCancel THEN "partial" ELSE "final"]
<1>1. turn[n] \in Turn /\ turn[n].at \in InReply
  BY TypedTurns DEF IInv, Tells, ReadyToTell, InReply
<1>2. EndTurn(n, [turn EXCEPT ![n] = r])
  BY DEF Tells, Told
<1>3. /\ r \in Turn /\ r.kind = turn[n].kind /\ r.voice = turn[n].voice /\ r.silenced = turn[n].silenced
      /\ r.fed = turn[n].fed /\ r.rows = turn[n].rows
  BY <1>1 DEF Turn
<1> HIDE DEF r
<1>4. QED
  BY <1>1, <1>2, <1>3, EndTurnEnds

LEMMA FailsEffect ==
  ASSUME IInv, NEW n \in Turns, Fails(n) PROVE EndsWith(n, turn[n].fed, turn[n].rows)
<1>1. turn \in [Turns -> Turn] /\ turn[n].at \in InReply
  BY TypedTurns DEF IInv, Fails, InReply
<1>2. turn = [turn EXCEPT ![n] = turn[n]]
  BY <1>1
<1>3. EndTurn(n, [turn EXCEPT ![n] = turn[n]])
  BY <1>2 DEF Fails
<1>4. QED
  BY <1>1, <1>3, EndTurnEnds

LEMMA NothingToSalvageEffect ==
  ASSUME IInv, NEW n \in Turns, NothingToSalvage(n) PROVE EndsWith(n, turn[n].fed, turn[n].rows)
<1> DEFINE r == [turn[n] EXCEPT !.told = IF partial = {} THEN turn[n].told ELSE "partial"]
<1>1. turn[n] \in Turn /\ turn[n].at \in InReply
  BY TypedTurns DEF IInv, NothingToSalvage, CanSalvage, InReply
<1>2. EndTurn(n, [turn EXCEPT ![n] = r])
  BY TypedTurns DEF NothingToSalvage
<1>3. /\ r \in Turn /\ r.kind = turn[n].kind /\ r.voice = turn[n].voice /\ r.silenced = turn[n].silenced
      /\ r.fed = turn[n].fed /\ r.rows = turn[n].rows
  BY <1>1 DEF Turn
<1> HIDE DEF r
<1>4. QED
  BY <1>1, <1>2, <1>3, EndTurnEnds

LEMMA SavedEffect ==
  ASSUME IInv, NEW n \in Turns, Saved(n) PROVE EndsWith(n, turn[n].fed, turn[n].rows + 1)
<1> DEFINE r == [turn[n] EXCEPT !.rows = turn[n].rows + 1]
<1>1. turn[n] \in Turn /\ turn[n].at \in InReply
  BY TypedTurns DEF IInv, Saved, InReply
<1>2. EndTurn(n, [turn EXCEPT ![n] = r])
  BY TypedTurns DEF Saved
<1>3. /\ r \in Turn /\ r.kind = turn[n].kind /\ r.voice = turn[n].voice /\ r.silenced = turn[n].silenced
      /\ r.fed = turn[n].fed /\ r.rows = turn[n].rows + 1
  BY <1>1 DEF Turn
<1> HIDE DEF r
<1>4. QED
  BY <1>1, <1>2, <1>3, EndTurnEnds

LEMMA CancelledLateEffect ==
  ASSUME IInv, NEW n \in Turns, CancelledLate(n)
  PROVE  \E written \in 0 .. 1 : EndsWith(n, FALSE, turn[n].rows + written)
<1>1. PICK w \in {0, IF turn[n].at = "saving" THEN 1 ELSE 0} :
        EndTurn(n, [turn EXCEPT ![n].fed = FALSE, ![n].rows = @ + w])
  BY DEF CancelledLate
<1> DEFINE r == [turn[n] EXCEPT !.fed = FALSE, !.rows = turn[n].rows + w]
<1>2. turn[n] \in Turn /\ turn[n].at \in InReply
  BY TypedTurns DEF IInv, CancelledLate, InReply
<1>3. EndTurn(n, [turn EXCEPT ![n] = r])
  BY <1>1, TypedTurns DEF IInv
<1>5. w \in 0 .. 1
  OBVIOUS
<1>4. /\ r \in Turn /\ r.kind = turn[n].kind /\ r.voice = turn[n].voice /\ r.silenced = turn[n].silenced
      /\ r.fed = FALSE /\ r.rows = turn[n].rows + w
  <2>1. turn[n].rows \in Nat /\ turn[n].rows + w \in Nat
    BY <1>2, <1>5 DEF Turn
  <2>2. QED
    BY <1>2, <2>1 DEF Turn
<1> HIDE DEF r
<1>6. QED
  BY <1>2, <1>3, <1>4, <1>5, EndTurnEnds

LEMMA ComputeEndsEnds ==
  ASSUME IInv, NEW n \in Turns, NEW r \in Turn, turn[n].kind = "compute", turn[n].at # "waiting",
         r.kind = turn[n].kind, r.voice = turn[n].voice, r.silenced = turn[n].silenced,
         ComputeEnds(n, [turn EXCEPT ![n] = r])
  PROVE  EndsWith(n, r.fed, r.rows)
  BY ComputeEffect, EndedIsLast DEF IInv

LEMMA JoinedEnds ==
  ASSUME IInv, NEW n \in Turns, Joined(n) PROVE EndsWith(n, turn[n].fed, turn[n].rows)
<1>1. turn \in [Turns -> Turn] /\ turn[n].kind \in UserKinds \cup {"compute"}
  BY TypedTurns DEF IInv, Joined, ShapesOK, ShapeOK, KindFits
<1>2. turn = [turn EXCEPT ![n] = turn[n]]
  BY <1>1
<1>3. Ended(n, [turn EXCEPT ![n] = turn[n]])
  BY <1>2, JoinedEffect
<1>4. QED
  BY <1>1, <1>3, EndedIsLast DEF IInv

LEMMA ComputeDeliversEffect ==
  ASSUME IInv, NEW n \in Turns, ComputeDelivers(n) PROVE EndsWith(n, turn[n].fed, turn[n].rows)
<1> DEFINE r == [turn[n] EXCEPT !.told = IF ttsCancel THEN "partial" ELSE "final"]
<1>1. turn[n] \in Turn /\ turn[n].at = "delivering" /\ turn[n].kind = "compute"
  BY TypedTurns DEF IInv, ComputeDelivers
<1>2. ComputeEnds(n, [turn EXCEPT ![n] = r])
  BY DEF ComputeDelivers, Told
<1>3. /\ r \in Turn /\ r.kind = turn[n].kind /\ r.voice = turn[n].voice /\ r.silenced = turn[n].silenced
      /\ r.fed = turn[n].fed /\ r.rows = turn[n].rows
  BY <1>1 DEF Turn
<1> HIDE DEF r
<1>4. QED
  BY <1>1, <1>2, <1>3, ComputeEndsEnds

(* The reply of a queued chat is kept, spoken or told.                        *)
Keeps(n) ==
  Blocks(playback) /\ EndsWith(n, turn[n].fed, turn[n].rows + 1) /\ pending' = n /\ UNCHANGED speechVars

SpeaksAt(n) == [turn[n] EXCEPT !.rows = turn[n].rows + 1, !.at = "delivering"]

Speaks(n) ==
  /\ ~Blocks(playback)
  /\ SpeaksAt(n) \in Turn /\ Edits(n, SpeaksAt(n))
  /\ pending' = NoTurn /\ BeginSpeaking(n) /\ current' = n
  /\ UNCHANGED <<queued, computeTask>>

TellsOnly(n) ==
  /\ ~Blocks(playback) /\ EndsWith(n, turn[n].fed, turn[n].rows + 1)
  /\ pending' = NoTurn /\ FinishTurn /\ UNCHANGED <<ttsCancel, heard>>

LEMMA ComputeAnswersEffect ==
  ASSUME IInv, NEW n \in Turns, ComputeAnswers(n) PROVE Keeps(n) \/ Speaks(n) \/ TellsOnly(n)
<1> DEFINE r == [turn[n] EXCEPT !.rows = turn[n].rows + 1]
           s == [turn[n] EXCEPT !.rows = turn[n].rows + 1, !.told = IF ttsCancel THEN "partial" ELSE "final"]
<1>1. turn \in [Turns -> Turn] /\ turn[n] \in Turn /\ turn[n].at = "computing" /\ turn[n].kind = "compute"
  BY TypedTurns DEF IInv, ComputeAnswers, ShapesOK, ShapeOK, KindFits
<1>2. turn[n].rows \in Nat /\ turn[n].rows + 1 \in Nat
  BY <1>1 DEF Turn
<1>3. /\ r \in Turn /\ r.kind = turn[n].kind /\ r.voice = turn[n].voice /\ r.silenced = turn[n].silenced
      /\ r.fed = turn[n].fed /\ r.rows = turn[n].rows + 1
  BY <1>1, <1>2 DEF Turn
<1>4. /\ s \in Turn /\ s.kind = turn[n].kind /\ s.voice = turn[n].voice /\ s.silenced = turn[n].silenced
      /\ s.fed = turn[n].fed /\ s.rows = turn[n].rows + 1
  BY <1>1, <1>2 DEF Turn
<1>5. CASE /\ Blocks(playback) /\ pending' = n
           /\ ComputeEnds(n, [turn EXCEPT ![n] = r]) /\ UNCHANGED speechVars
  <2> HIDE DEF r
  <2>1. EndsWith(n, turn[n].fed, turn[n].rows + 1)
    BY <1>1, <1>3, <1>5, ComputeEndsEnds
  <2>2. QED
    BY <1>5, <2>1 DEF Keeps
<1>6. CASE /\ ~Blocks(playback) /\ pending' = NoTurn
           /\ ComputeEnds(n, [turn EXCEPT ![n] = s]) /\ FinishTurn /\ UNCHANGED <<ttsCancel, heard>>
  <2> HIDE DEF s
  <2>1. EndsWith(n, turn[n].fed, turn[n].rows + 1)
    BY <1>1, <1>4, <1>6, ComputeEndsEnds
  <2>2. QED
    BY <1>6, <2>1 DEF TellsOnly
<1>7. CASE /\ ~Blocks(playback) /\ pending' = NoTurn
           /\ turn' = [[turn EXCEPT ![n] = r] EXCEPT ![n].at = "delivering"]
           /\ BeginSpeaking(n) /\ current' = n /\ UNCHANGED <<queued, computeTask>>
  <2>1. SpeaksAt(n) \in Turn
    BY <1>1, <1>2 DEF SpeaksAt, Turn, Stage
  <2>2. turn' = [turn EXCEPT ![n] = SpeaksAt(n)]
    BY <1>1, <1>7 DEF SpeaksAt
  <2>3. QED
    BY <1>7, <2>1, <2>2 DEF Speaks, Edits
<1>8. Told([turn EXCEPT ![n] = r], n) = [turn EXCEPT ![n] = s]
  BY <1>1 DEF Told
<1>9. [turn EXCEPT ![n].rows = @ + 1] = [turn EXCEPT ![n] = r]
  OBVIOUS
<1> HIDE DEF r, s
<1>10. QED
  BY <1>5, <1>6, <1>7, <1>8, <1>9 DEF ComputeAnswers

LEMMA ComputeCancelledEffect ==
  ASSUME IInv, NEW n \in Turns, ComputeCancelled(n)
  PROVE  /\ StepOf(n) /\ \A m \in Turns \ {n} : turn'[m] = turn[m]
         /\ turn'[n].kind = turn[n].kind /\ turn'[n].fed = turn[n].fed
         /\ turn'[n].at = "gone" /\ ~turn'[n].cancelled /\ turn'[n].silenced = turn[n].silenced
         /\ turn'[n].rows = turn[n].rows \/ (turn[n].at = "computing" /\ turn'[n].rows = turn[n].rows + 1)
<1> DEFINE r(w) == [turn[n] EXCEPT !.at = "gone", !.cancelled = FALSE, !.rows = turn[n].rows + w]
<1>1. turn \in [Turns -> Turn] /\ turn[n] \in Turn /\ TypeOK
  BY TypedTurns DEF IInv
<1>2. turn[n].rows \in Nat /\ turn[n].rows + 0 = turn[n].rows
  BY <1>1 DEF Turn
<1>3. PICK w \in 0 .. 1 : turn' = [turn EXCEPT ![n] = r(w)] /\ (w = 1 => turn[n].at = "computing")
  <2>1. ASSUME turn' = Gone(turn, n) PROVE turn' = [turn EXCEPT ![n] = r(0)]
    BY <1>1, <1>2, <2>1 DEF Gone, Turn
  <2>2. ASSUME NEW w \in 0 .. 1, turn' = [Gone(turn, n) EXCEPT ![n].rows = @ + w]
        PROVE  turn' = [turn EXCEPT ![n] = r(w)]
    BY <1>1, <2>2 DEF Gone
  <2>3. QED
    BY <2>1, <2>2 DEF ComputeCancelled
<1>4. turn[n].rows + w \in Nat
  BY <1>2
<1>5. r(w) \in Turn /\ r(w).kind = turn[n].kind /\ r(w).fed = turn[n].fed /\ r(w).at = "gone"
      /\ r(w).cancelled = FALSE /\ r(w).silenced = turn[n].silenced /\ r(w).rows = turn[n].rows + w
  BY <1>1, <1>4 DEF Turn, Stage
<1> HIDE DEF r
<1>6. StepOf(n) /\ turn'[n] = r(w) /\ \A m \in Turns \ {n} : turn'[m] = turn[m]
  BY <1>1, <1>3, <1>5, EditEffect DEF Edits
<1>7. QED
  BY <1>2, <1>3, <1>5, <1>6

-----------------------------------------------------------------------------
(* The steps of the inbound loop                                             *)

(* Turn m is as in t, but for a cancellation if it is the compute task.       *)
AsIn(t, m) ==
  turn'[m] = t[m] \/ (m = computeTask /\ turn'[m] = [t[m] EXCEPT !.cancelled = TRUE])

(* The loop waits for the compute task, which it has cancelled.               *)
HandlerWaits ==
  /\ handler' = [at |-> "joining", on |-> computeTask]
  /\ computeTask \in Turns /\ computeTask # NoTurn /\ Alive(computeTask) /\ turn'[computeTask].cancelled

LEMMA HandlerStartsEffect ==
  ASSUME IInv, NEW t \in [Turns -> Turn], queued # NoTurn, t[queued] = turn[queued], HandlerStarts(t, queued)
  PROVE  /\ turn' \in [Turns -> Turn] /\ \A m \in Turns \ {queued} : AsIn(t, m)
         /\ QueueMoves
         /\ handler' = AtRest \/ HandlerWaits
<1>1. queued \in Turns /\ turn[queued].at = "waiting" /\ computeTask \in Turns \cup {NoTurn}
      /\ turn \in [Turns -> Turn]
  BY TypedTurns DEF IInv, QueueOK
<1>2. CASE /\ Alive(computeTask) /\ turn' = Cancelled(t, computeTask)
           /\ handler' = [at |-> "joining", on |-> computeTask]
           /\ queued' = queued /\ UNCHANGED computeTask
  <2> DEFINE c == Cancelled(t, computeTask)
  <2>1. computeTask \in Turns /\ computeTask # queued /\ computeTask # NoTurn
    BY <1>1, <1>2 DEF Alive
  <2>2. /\ c \in [Turns -> Turn] /\ c[computeTask] = [t[computeTask] EXCEPT !.cancelled = TRUE]
        /\ \A m \in Turns \ {computeTask} : c[m] = t[m]
    BY <2>1, CancelledValue
  <2>3. turn' = c
    BY <1>2
  <2> HIDE DEF c
  <2>4. \A m \in Turns \ {queued} : AsIn(t, m)
    BY <2>2, <2>3 DEF AsIn
  <2>5. QueueMoves
    BY <1>1, <1>2, <2>1, <2>2, <2>3 DEF QueueMoves
  <2>6. HandlerWaits
    BY <1>2, <2>1, <2>2, <2>3, CutTyped DEF HandlerWaits
  <2>7. QED
    BY <1>2, <2>1, <2>2, <2>3, <2>4, <2>5, <2>6
<1>3. CASE /\ ~Alive(computeTask)
           /\ turn' = [t EXCEPT ![queued].kind = "compute", ![queued].at = "computing"]
           /\ computeTask' = queued /\ queued' = NoTurn /\ handler' = AtRest
  <2> DEFINE r == [t[queued] EXCEPT !.kind = "compute", !.at = "computing"]
  <2>1. r \in Turn /\ r = [turn[queued] EXCEPT !.kind = "compute", !.at = "computing"]
    BY <1>1, RecordEdits
  <2>2. turn' = [t EXCEPT ![queued] = r]
    BY <1>1, <1>3
  <2> HIDE DEF r
  <2>3. turn' \in [Turns -> Turn] /\ \A m \in Turns \ {queued} : AsIn(t, m)
    BY <2>1, <2>2 DEF AsIn
  <2>4. turn'[queued] = r
    BY <1>1, <2>2
  <2>5. QueueMoves
    BY <1>3, <2>1, <2>4 DEF QueueMoves
  <2>6. QED
    BY <1>3, <2>3, <2>5
<1>4. QED
  BY <1>2, <1>3 DEF HandlerStarts

(* The reply that waited is told, or it is being delivered.                   *)
SameBut(m, r) ==
  /\ turn'[m] \in Turn
  /\ turn'[m].kind = r.kind /\ turn'[m].at = r.at /\ turn'[m].voice = r.voice /\ turn'[m].fed = r.fed
  /\ turn'[m].silenced = r.silenced /\ turn'[m].rows = r.rows /\ turn'[m].on = r.on
  /\ turn'[m].cancelled = r.cancelled \/ m = computeTask

HandlerSpeaks ==
  /\ pending # NoTurn /\ turn'[pending] = [turn[pending] EXCEPT !.kind = "handled", !.at = "delivering"]
  /\ handler' = [at |-> "delivering", on |-> pending]
  /\ pending' = NoTurn /\ BeginSpeaking(pending) /\ current' = pending

HandlerTells ==
  /\ pending # NoTurn => SameBut(pending, turn[pending])
  /\ handler' = AtRest \/ HandlerWaits
  /\ pending' \in {pending, NoTurn}
  /\ UNCHANGED <<ttsCancel, heard>>

(* The inbound loop goes on after turn n, if any, which t has ended.          *)
Drained(t, n) ==
  /\ turn' \in [Turns -> Turn] /\ \A m \in Turns \ {n, pending} : Beside(m)
  /\ n # NoTurn => AsIn(t, n)
  /\ QueueMoves

LEMMA ToldValue ==
  ASSUME NEW t \in [Turns -> Turn], NEW n \in Turns
  PROVE  /\ Told(t, n) \in [Turns -> Turn] /\ \A m \in Turns \ {n} : Told(t, n)[m] = t[m]
         /\ LET u == Told(t, n)[n]
            IN  /\ u.kind = t[n].kind /\ u.at = t[n].at /\ u.voice = t[n].voice /\ u.fed = t[n].fed
                /\ u.silenced = t[n].silenced /\ u.rows = t[n].rows /\ u.cancelled = t[n].cancelled /\ u.on = t[n].on
<1> DEFINE r == [t[n] EXCEPT !.told = IF ttsCancel THEN "partial" ELSE "final"]
<1>1. Told(t, n) = [t EXCEPT ![n] = r]
  BY DEF Told
<1>2. /\ r \in Turn
      /\ r.kind = t[n].kind /\ r.at = t[n].at /\ r.voice = t[n].voice /\ r.fed = t[n].fed
      /\ r.silenced = t[n].silenced /\ r.rows = t[n].rows /\ r.cancelled = t[n].cancelled /\ r.on = t[n].on
  <2>1. t[n] \in Turn
    OBVIOUS
  <2>2. QED
    BY <2>1 DEF Turn
<1> HIDE DEF r
<1>3. QED
  BY <1>1, <1>2

LEMMA AsInSame ==
  ASSUME NEW t \in [Turns -> Turn], NEW m \in Turns, AsIn(t, m) PROVE SameBut(m, t[m])
<1>1. t[m] \in Turn
  OBVIOUS
<1>2. CASE turn'[m] = t[m]
  BY <1>1, <1>2 DEF SameBut
<1>3. CASE m = computeTask /\ turn'[m] = [t[m] EXCEPT !.cancelled = TRUE]
  <2> DEFINE r == [t[m] EXCEPT !.cancelled = TRUE]
  <2>1. /\ r \in Turn
        /\ r.kind = t[m].kind /\ r.at = t[m].at /\ r.voice = t[m].voice /\ r.fed = t[m].fed
        /\ r.silenced = t[m].silenced /\ r.rows = t[m].rows /\ r.on = t[m].on
    BY <1>1 DEF Turn
  <2> HIDE DEF r
  <2>2. turn'[m] = r
    BY <1>3 DEF r
  <2>3. QED
    BY <1>3, <2>1, <2>2 DEF SameBut
<1>4. QED
  BY <1>2, <1>3 DEF AsIn

(* Where the loop begins with t and the queue, told is whose reply it told.   *)
LEMMA HandlerTakesUp ==
  ASSUME IInv, NEW t \in [Turns -> Turn],
         \/ queued # NoTurn /\ HandlerStarts(t, queued)
         \/ queued = NoTurn /\ turn' = t /\ handler' = AtRest /\ UNCHANGED <<queued, computeTask>>,
         queued # NoTurn => t[queued] = turn[queued]
  PROVE  /\ turn' \in [Turns -> Turn] /\ \A m \in Turns \ {queued} : AsIn(t, m)
         /\ QueueMoves
         /\ handler' = AtRest \/ HandlerWaits
<1>1. CASE queued # NoTurn /\ HandlerStarts(t, queued)
  BY <1>1, HandlerStartsEffect
<1>2. CASE queued = NoTurn /\ turn' = t /\ handler' = AtRest /\ UNCHANGED <<queued, computeTask>>
  BY <1>2 DEF AsIn, QueueMoves
<1>3. QED
  BY <1>1, <1>2

LEMMA HandlerDrainsEffect ==
  ASSUME IInv, NEW t \in [Turns -> Turn], NEW n \in Turns \cup {NoTurn},
         \A m \in Turns \ {n} : t[m] = turn[m], n = NoTurn \/ (n # queued /\ n # pending),
         NEW p, NEW s, NEW c, HandlerDrains(t, p, s, c)
  PROVE  /\ Drained(t, n)
         /\ \/ HandlerSpeaks /\ CanDeliver(p)
            \/ HandlerTells /\ (FinishTurn \/ (speech' = s /\ current' = c))
<1>1. /\ queued \in Turns \cup {NoTurn} /\ pending \in Turns \cup {NoTurn} /\ turn \in [Turns -> Turn]
      /\ queued # NoTurn => turn[queued].at = "waiting"
      /\ pending # NoTurn => turn[pending].at \in {"gone", "joining"} /\ turn[pending].kind \in QueuedKinds
  BY TypedTurns DEF IInv, QueueOK
<1>2. (pending # NoTurn => pending # queued /\ t[pending] = turn[pending])
      /\ (queued # NoTurn => t[queued] = turn[queued])
  BY <1>1, TurnNumbers
<1>3. CASE /\ CanDeliver(p)
           /\ turn' = [t EXCEPT ![pending].kind = "handled", ![pending].at = "delivering"]
           /\ handler' = [at |-> "delivering", on |-> pending] /\ pending' = NoTurn
           /\ BeginSpeaking(pending) /\ current' = pending /\ UNCHANGED <<queued, computeTask>>
  <2> DEFINE r == [turn[pending] EXCEPT !.kind = "handled", !.at = "delivering"]
  <2>1. pending \in Turns /\ pending # NoTurn
    BY <1>1, <1>3 DEF CanDeliver
  <2>2. turn[pending] \in Turn
    BY <1>1, <2>1
  <2>3. r \in Turn
    BY <2>2 DEF Turn, Stage
  <2>4. turn' = [t EXCEPT ![pending] = r]
    BY <1>2, <1>3, <2>1
  <2> HIDE DEF r
  <2>5. /\ turn' \in [Turns -> Turn] /\ turn'[pending] = r
        /\ \A m \in Turns \ {pending} : turn'[m] = t[m]
    BY <2>1, <2>3, <2>4
  <2>6. HandlerSpeaks
    BY <1>3, <2>1, <2>5 DEF HandlerSpeaks, r
  <2>7. QueueMoves
    BY <1>1, <1>2, <1>3, <2>1, <2>5 DEF QueueMoves
  <2>8. \A m \in Turns \ {n, pending} : Beside(m)
    BY <2>5 DEF Beside
  <2>9. n # NoTurn => AsIn(t, n)
    BY <2>1, <2>5 DEF AsIn
  <2>10. QED
    BY <1>3, <2>5, <2>6, <2>7, <2>8, <2>9 DEF Drained
<1>4. CASE /\ CanDeliver(p) /\ pending' = NoTurn /\ FinishTurn
           /\ \/ queued # NoTurn /\ HandlerStarts(Told(t, pending), queued)
              \/ /\ queued = NoTurn
                 /\ turn' = Told(t, pending) /\ handler' = AtRest
                 /\ UNCHANGED <<queued, computeTask>>
           /\ UNCHANGED <<ttsCancel, heard>>
  <2> DEFINE u == Told(t, pending)
  <2>1. pending \in Turns /\ pending # NoTurn
    BY <1>1, <1>3, <1>4 DEF CanDeliver
  <2>2. /\ u \in [Turns -> Turn] /\ \A m \in Turns \ {pending} : u[m] = t[m]
        /\ u[pending].kind = t[pending].kind /\ u[pending].at = t[pending].at
        /\ u[pending].voice = t[pending].voice /\ u[pending].fed = t[pending].fed
        /\ u[pending].silenced = t[pending].silenced /\ u[pending].rows = t[pending].rows
        /\ u[pending].cancelled = t[pending].cancelled /\ u[pending].on = t[pending].on
    BY <2>1, ToldValue
  <2>3. queued # NoTurn => u[queued] = turn[queued]
    BY <1>1, <1>2, <2>2
  <2>4. \/ queued # NoTurn /\ HandlerStarts(u, queued)
        \/ queued = NoTurn /\ turn' = u /\ handler' = AtRest /\ UNCHANGED <<queued, computeTask>>
    BY <1>4
  <2> HIDE DEF u
  <2>5. /\ turn' \in [Turns -> Turn] /\ \A m \in Turns \ {queued} : AsIn(u, m)
        /\ QueueMoves
        /\ handler' = AtRest \/ HandlerWaits
    BY <2>2, <2>3, <2>4, HandlerTakesUp
  <2>6. SameBut(pending, turn[pending])
    <3>1. SameBut(pending, u[pending])
      BY <1>1, <1>2, <2>1, <2>2, <2>5, AsInSame
    <3>2. QED
      BY <1>2, <2>1, <2>2, <3>1 DEF SameBut
  <2>7. \A m \in Turns \ {n, pending} : m # queued => Beside(m)
    <3> SUFFICES ASSUME NEW m \in Turns \ {n, pending}, m # queued PROVE Beside(m)
      OBVIOUS
    <3>1. u[m] = turn[m] /\ AsIn(u, m)
      BY <2>2, <2>5
    <3>2. QED
      BY <3>1 DEF AsIn, Beside
  <2>8. queued # NoTurn => Beside(queued)
    BY <2>5 DEF QueueMoves, Beside
  <2>9. n # NoTurn => AsIn(t, n)
    <3>1. n # NoTurn => u[n] = t[n] /\ AsIn(u, n)
      BY <2>2, <2>5
    <3>2. QED
      BY <3>1 DEF AsIn
  <2>10. HandlerTells
    BY <1>4, <2>5, <2>6 DEF HandlerTells
  <2>11. QED
    BY <1>4, <2>5, <2>7, <2>8, <2>9, <2>10, TurnNumbers DEF Drained
<1>5. CASE /\ speech' = s /\ current' = c
           /\ \/ queued # NoTurn /\ HandlerStarts(t, queued)
              \/ /\ queued = NoTurn
                 /\ turn' = t /\ handler' = AtRest
                 /\ UNCHANGED <<queued, computeTask>>
           /\ UNCHANGED <<pending, ttsCancel, heard>>
  <2>1. \/ queued # NoTurn /\ HandlerStarts(t, queued)
        \/ queued = NoTurn /\ turn' = t /\ handler' = AtRest /\ UNCHANGED <<queued, computeTask>>
    BY <1>5
  <2>2. /\ turn' \in [Turns -> Turn] /\ \A m \in Turns \ {queued} : AsIn(t, m)
        /\ QueueMoves
        /\ handler' = AtRest \/ HandlerWaits
    BY <1>2, <2>1, HandlerTakesUp
  <2>3. pending # NoTurn => SameBut(pending, turn[pending])
    <3>1. pending # NoTurn => SameBut(pending, t[pending])
      BY <1>1, <1>2, <2>2, AsInSame
    <3>2. QED
      BY <1>2, <3>1
  <2>4. \A m \in Turns \ {n, pending} : m # queued => Beside(m)
    <3> SUFFICES ASSUME NEW m \in Turns \ {n, pending}, m # queued PROVE Beside(m)
      OBVIOUS
    <3>1. t[m] = turn[m] /\ AsIn(t, m)
      BY <2>2
    <3>2. QED
      BY <3>1 DEF AsIn, Beside
  <2>5. queued # NoTurn => Beside(queued)
    BY <2>2 DEF QueueMoves, Beside
  <2>6. n # NoTurn => AsIn(t, n)
    BY <2>2
  <2>7. HandlerTells
    BY <1>5, <2>2, <2>3 DEF HandlerTells
  <2>8. QED
    BY <1>5, <2>2, <2>4, <2>5, <2>6, <2>7, TurnNumbers DEF Drained
<1>6. QED
  BY <1>3, <1>4, <1>5 DEF HandlerDrains

-----------------------------------------------------------------------------
(* The inductive invariant is preserved                                      *)
UserAlive(r) == r.kind \in UserKinds /\ r.at \notin {"unused", "waiting", "gone"}

(* The next state of a turn fits its last one.                                *)
KeepsTurn(m) ==
  /\ ShapeOK(turn'[m])
  /\ UserAlive(turn'[m]) => UserAlive(turn[m])
  /\ turn[m].kind \in QueuedKinds => turn'[m].kind \in QueuedKinds

StaysDelivering(m) ==
  turn[m].at = "delivering" /\ turn[m].kind = "handled" => turn'[m].at = "delivering" /\ turn'[m].kind = "handled"

StaysOver(m) ==
  turn[m].at \in {"gone", "joining"} => turn'[m].at \in {"gone", "joining"}

LEMMA BesideKeeps ==
  ASSUME IInv, NEW m \in Turns, Beside(m)
  PROVE  KeepsTurn(m) /\ StaysDelivering(m) /\ StaysOver(m)
<1>1. /\ turn[m] \in Turn /\ ShapeOK(turn[m]) /\ (m = queued => turn[m].at = "waiting")
      /\ (m = computeTask => turn[m].kind \in QueuedKinds)
  BY TypedTurns, TurnNumbers DEF IInv, ShapesOK, QueueOK
<1>2. CASE turn'[m] = turn[m]
  BY <1>1, <1>2 DEF KeepsTurn, StaysDelivering, StaysOver
<1>3. CASE m = computeTask /\ turn'[m] = [turn[m] EXCEPT !.cancelled = TRUE]
  <2>1. turn[m].at # "unused"
    BY <1>1, <1>3 DEF ShapeOK, QueuedKinds
  <2>2. /\ turn'[m].at = turn[m].at /\ turn'[m].kind = turn[m].kind
        /\ turn'[m].fed = turn[m].fed /\ turn'[m].voice = turn[m].voice
    BY <1>1, <1>3 DEF Turn
  <2>3. QED
    BY <1>1, <2>1, <2>2 DEF KeepsTurn, StaysDelivering, StaysOver, ShapeOK, KindFits, UserAlive
<1>4. CASE m = queued /\ turn'[m] = [turn[m] EXCEPT !.kind = "compute", !.at = "computing"]
  <2>1. /\ turn'[m].at = "computing" /\ turn'[m].kind = "compute"
        /\ turn'[m].fed = turn[m].fed /\ turn'[m].voice = turn[m].voice
    BY <1>1, <1>4 DEF Turn
  <2>2. turn[m].at = "waiting" /\ ~turn[m].fed
    BY <1>1, <1>4 DEF ShapeOK, FedAt
  <2>3. QED
    BY <1>1, <2>1, <2>2 DEF KeepsTurn, StaysDelivering, StaysOver, ShapeOK, KindFits, UserAlive, QueuedKinds,
                            UserKinds, InReply
<1>5. QED
  BY <1>2, <1>3, <1>4 DEF Beside

LEMMA KeepsOneUser ==
  ASSUME IInv, \A m \in Turns : KeepsTurn(m), turnTask' = turnTask
  PROVE  ShapesOK' /\ OneUserTurn'
<1>1. ShapesOK'
  BY DEF KeepsTurn, ShapesOK
<1>2. ASSUME NEW n \in Turns, IsUserTurn(n)', Alive(n)' PROVE n = turnTask'
  <2>1. UserAlive(turn'[n])
    BY <1>2 DEF IsUserTurn, Alive, UserAlive, UserKinds
  <2>2. UserAlive(turn[n])
    BY <2>1 DEF KeepsTurn
  <2>3. IsUserTurn(n) /\ Alive(n)
    BY <2>2, TurnNumbers DEF IsUserTurn, Alive, UserAlive, UserKinds
  <2>4. QED
    BY <2>3 DEF IInv, OneUserTurn
<1>3. OneUserTurn'
  BY <1>2 DEF OneUserTurn
<1>4. QED
  BY <1>1, <1>3

LEMMA KeepsQueue ==
  ASSUME IInv, QueueMoves, \A m \in Turns : KeepsTurn(m)
  PROVE  /\ queued' # NoTurn => turn'[queued'].at = "waiting"
         /\ computeTask' # NoTurn => turn'[computeTask'].kind \in QueuedKinds
<1>1. queued \in Turns \cup {NoTurn} /\ computeTask \in Turns \cup {NoTurn} /\ turn \in [Turns -> Turn]
  BY TypedTurns DEF IInv
<1>2. queued' # NoTurn => turn'[queued'].at = "waiting"
  BY <1>1 DEF QueueMoves, IInv, QueueOK
<1>3. CASE queued' = queued /\ computeTask' \in {computeTask, NoTurn}
  BY <1>1, <1>2, <1>3 DEF IInv, QueueOK, KeepsTurn
<1>4. CASE /\ queued # NoTurn /\ computeTask' \in {queued, NoTurn}
           /\ turn'[queued] = [turn[queued] EXCEPT !.kind = "compute", !.at = "computing"]
  <2>1. turn[queued] \in Turn
    BY <1>1, <1>4
  <2>2. turn'[queued].kind = "compute"
    BY <1>4, <2>1 DEF Turn
  <2>3. QED
    BY <1>2, <1>4, <2>2 DEF QueuedKinds
<1>5. QED
  BY <1>3, <1>4 DEF QueueMoves

LEMMA KeepsHandler ==
  ASSUME IInv, handler' = handler, handler.at = "delivering" => StaysDelivering(handler.on)
  PROVE  HandlerOK'
  BY DEF IInv, HandlerOK, StaysDelivering

ActorKept(n) == KeepsTurn(n) /\ StaysDelivering(n) /\ StaysOver(n)

(* The types of everything but the turns.                                     *)
RestTypesOK ==
  /\ {turnTask, queued, computeTask, pending, current, heard} \subseteq Turns \cup {NoTurn}
  /\ {deferred, capturing, playback, grace, persisted, ttsCancel} \subseteq BOOLEAN
  /\ partial \subseteq Turns
  /\ speech \in {"idle", "listening", "thinking", "speaking"}
  /\ handler \in Handler
  /\ interrupts \in 0 .. MaxInterrupts

LEMMA TypesSplit == TypeOK <=> turn \in [Turns -> Turn] /\ RestTypesOK
  BY DEF TypeOK, RestTypesOK

(* A step of turn n (of no turn, if NoTurn) that leaves turnTask and the      *)
(* inbound loop alone.                                                       *)
LEMMA StepKeeps ==
  ASSUME IInv, NEW n \in Turns \cup {NoTurn}, StepOf(n), RestTypesOK', n # NoTurn => ActorKept(n),
         QueueMoves, turnTask' = turnTask, handler' = handler,
         \/ pending' \in {pending, NoTurn}
         \/ pending' = n /\ n # NoTurn /\ turn'[n].kind \in QueuedKinds /\ turn'[n].at \in {"gone", "joining"}
  PROVE  IInv'
<1>1. TypeOK'
  BY DEF StepOf, TypeOK, RestTypesOK
<1>2. \A m \in Turns : ActorKept(m)
  BY BesideKeeps, TurnNumbers DEF ActorKept, StepOf
<1>3. ShapesOK' /\ OneUserTurn'
  BY <1>2, KeepsOneUser DEF ActorKept
<1>4. QueueOK'
  <2>1. pending \in Turns \cup {NoTurn}
    BY TypedTurns DEF IInv
  <2>2. pending' # NoTurn => turn'[pending'].kind \in QueuedKinds /\ turn'[pending'].at \in {"gone", "joining"}
    BY <1>2, <2>1 DEF IInv, QueueOK, ActorKept, KeepsTurn, StaysOver
  <2>3. QED
    BY <1>2, <2>2, KeepsQueue DEF QueueOK, ActorKept
<1>5. HandlerOK'
  <2>1. handler.at = "delivering" => handler.on \in Turns
    BY DEF IInv, TypeOK, Handler, HandlerOK
  <2>2. QED
    BY <1>2, <2>1, KeepsHandler DEF ActorKept
<1>6. QED
  BY <1>1, <1>3, <1>4, <1>5 DEF IInv

(* A turn that edits its own record while nothing happens to the queue.       *)
LEMMA EditKeeps ==
  ASSUME IInv, NEW n \in Turns, NEW r \in Turn, Edits(n, r), RestTypesOK', turn[n].at # "waiting",
         turn'[n] = r => ActorKept(n),
         queued' = queued, computeTask' \in {computeTask, NoTurn}, pending' \in {pending, NoTurn},
         turnTask' = turnTask, handler' = handler
  PROVE  IInv'
<1>1. StepOf(n) /\ turn'[n] = r /\ \A m \in Turns \ {n} : turn'[m] = turn[m]
  BY EditEffect DEF IInv
<1>2. QueueMoves
  BY <1>1, TypedTurns DEF QueueMoves, IInv, QueueOK
<1>3. QED
  BY <1>1, <1>2, StepKeeps

LEMMA BeginKeeps ==
  ASSUME IInv, NEW n \in Turns, NEW via, Begin(n, via), UNCHANGED turnTask,
         turn[n].at \in {"hearing", "created"}
  PROVE  IInv'
<1>1. TypeOK /\ turn[n] \in Turn /\ ShapeOK(turn[n])
  BY TypedTurns DEF IInv, ShapesOK
<1>2. PICK v \in BOOLEAN : Edits(n, BegunAs(n, turn[n].kind, v)) /\ BegunAs(n, turn[n].kind, v) \in Turn
  BY <1>1, BeginEffect
<1> DEFINE r == BegunAs(n, turn[n].kind, v)
<1>3. r.kind = turn[n].kind /\ r.at = "thinking" /\ r.fed = turn[n].fed
  BY <1>1, <1>2 DEF BegunAs, Turn
<1> HIDE DEF r
<1>4. turn'[n] = r => ActorKept(n)
  BY <1>1, <1>3 DEF ActorKept, KeepsTurn, StaysDelivering, StaysOver, ShapeOK, KindFits, FedAt, UserAlive, UserKinds,
                    QueuedKinds, InReply
<1>5. RestTypesOK'
  BY <1>1, TypesSplit DEF RestTypesOK, Begin, queueVars, clientVars
<1>6. QED
  BY <1>2, <1>4, <1>5, EditKeeps DEF r, Begin, queueVars

LEMMA ProactiveKeeps ==
  ASSUME IInv, NEW n \in Turns, ProactiveBegins(n) PROVE IInv'
<1>1. TypeOK /\ turn[n] \in Turn /\ ShapeOK(turn[n]) /\ turn[n].at = "unused" /\ turn[n].kind = "none" /\ ~turn[n].fed
  BY TypedTurns DEF IInv, ShapesOK, ProactiveBegins, NextTurn, ShapeOK
<1>2. PICK v \in BOOLEAN : Edits(n, BegunAs(n, "proactive", v)) /\ BegunAs(n, "proactive", v) \in Turn
  BY <1>1, ProactiveEffect
<1> DEFINE r == BegunAs(n, "proactive", v)
<1>3. r.kind = "proactive" /\ r.at = "thinking" /\ r.fed = turn[n].fed
  BY <1>1, <1>2 DEF BegunAs, Turn
<1> HIDE DEF r
<1>4. turn'[n] = r => ActorKept(n)
  BY <1>1, <1>3 DEF ActorKept, KeepsTurn, StaysDelivering, StaysOver, ShapeOK, KindFits, FedAt, UserAlive, UserKinds,
                    QueuedKinds, InReply
<1>5. RestTypesOK'
  BY <1>1, TypesSplit DEF RestTypesOK, ProactiveBegins, queueVars, clientVars
<1>6. QED
  BY <1>1, <1>2, <1>4, <1>5, EditKeeps DEF r, ProactiveBegins, queueVars

LEMMA TokenKeeps ==
  ASSUME IInv, NEW n \in Turns, Token(n) PROVE IInv'
<1> DEFINE r == [turn[n] EXCEPT !.fed = turn[n].voice]
<1>1. TypeOK /\ turn[n] \in Turn /\ ShapeOK(turn[n]) /\ turn[n].at = "thinking" /\ Edits(n, r)
  BY TypedTurns, ReplyEdits DEF IInv, ShapesOK, Token
<1>2. r \in Turn /\ r.kind = turn[n].kind /\ r.at = turn[n].at /\ r.fed = turn[n].voice /\ r.voice = turn[n].voice
  BY <1>1 DEF Turn
<1> HIDE DEF r
<1>3. turn'[n] = r => ActorKept(n)
  BY <1>1, <1>2 DEF ActorKept, KeepsTurn, StaysDelivering, StaysOver, ShapeOK, KindFits, FedAt, UserAlive, UserKinds,
                    QueuedKinds, InReply
<1>4. RestTypesOK'
  BY <1>1, TypesSplit DEF RestTypesOK, Token, queueVars, clientVars, speechVars
<1>5. QED
  BY <1>1, <1>2, <1>3, <1>4, EditKeeps DEF Token, queueVars

LEMMA PipelineKeeps ==
  ASSUME IInv, NEW n \in Turns, PipelineSpeaks(n) \/ PipelineDrains(n) PROVE IInv'
<1>1. TypeOK /\ turn[n] \in Turn /\ ShapeOK(turn[n]) /\ turn[n].at # "waiting" /\ turn[n].at # "unused"
  BY TypedTurns DEF IInv, ShapesOK, PipelineSpeaks, PipelineDrains, ShapeOK, FedAt
<1>2. CASE PipelineSpeaks(n)
  <2> DEFINE r == [turn[n] EXCEPT !.started = TRUE]
  <2>1. r \in Turn /\ r.kind = turn[n].kind /\ r.at = turn[n].at /\ r.fed = turn[n].fed /\ r.voice = turn[n].voice
        /\ Edits(n, r)
    BY <1>1, <1>2, ReplyEdits DEF Turn
  <2> HIDE DEF r
  <2>2. turn'[n] = r => ActorKept(n)
    BY <1>1, <2>1 DEF ActorKept, KeepsTurn, StaysDelivering, StaysOver, ShapeOK, KindFits, UserAlive
  <2>3. RestTypesOK'
    BY <1>1, <1>2, TypesSplit DEF RestTypesOK, PipelineSpeaks, BeginSpeaking, queueVars, clientVars, replyVars
  <2>4. QED
    BY <1>1, <1>2, <2>1, <2>2, <2>3, EditKeeps DEF PipelineSpeaks, queueVars
<1>3. CASE PipelineDrains(n)
  <2> DEFINE r == [turn[n] EXCEPT !.fed = FALSE]
  <2>1. r \in Turn /\ r.kind = turn[n].kind /\ r.at = turn[n].at /\ r.fed = FALSE /\ r.voice = turn[n].voice
        /\ Edits(n, r)
    BY <1>1, <1>3, ReplyEdits DEF Turn
  <2> HIDE DEF r
  <2>2. turn'[n] = r => ActorKept(n)
    BY <1>1, <2>1 DEF ActorKept, KeepsTurn, StaysDelivering, StaysOver, ShapeOK, KindFits, UserAlive
  <2>3. RestTypesOK'
    BY <1>1, <1>3, TypesSplit DEF RestTypesOK, PipelineDrains, queueVars, clientVars, replyVars, speechVars
  <2>4. QED
    BY <1>1, <1>3, <2>1, <2>2, <2>3, EditKeeps DEF PipelineDrains, queueVars
<1>4. QED
  BY <1>2, <1>3

(* A turn goes on with its reply, or is over.                                 *)
LEMMA ReplyKeeps ==
  ASSUME IInv, NEW n \in Turns, NEW r \in Turn, Edits(n, r), RestTypesOK',
         UNCHANGED <<turnTask, queued, computeTask, pending, handler>>,
         turn[n].at \in InReply \cup {"created", "hearing"},
         r.kind = turn[n].kind, r.fed => r.voice /\ r.at \in FedAt,
         r.at = "gone" \/ (turn[n].at \in InReply /\ r.at \in InReply)
  PROVE  IInv'
<1>1. turn[n] \in Turn /\ ShapeOK(turn[n])
  BY TypedTurns DEF IInv, ShapesOK
<1>2. turn[n].kind \notin QueuedKinds /\ turn[n].at # "waiting" /\ turn[n].at # "unused"
  BY <1>1 DEF ShapeOK, KindFits, QueuedKinds, UserKinds, InReply
<1>3. turn'[n] = r => ActorKept(n)
  BY <1>1, <1>2 DEF ActorKept, KeepsTurn, StaysDelivering, StaysOver, ShapeOK, KindFits, UserAlive, UserKinds,
                    QueuedKinds, InReply
<1>4. QED
  BY <1>2, <1>3, EditKeeps

FedFacts(n) == turn[n].fed => turn[n].voice /\ turn[n].at \in FedAt

LEMMA ReplyingKeeps ==
  ASSUME IInv, NEW n \in Turns,
         \/ Answers(n) \/ RowStored(n) \/ SpeaksWhole(n) \/ HearsNothing(n) \/ CancelledEarly(n)
         \/ Unwinds(n) \/ Salvages(n) \/ Flushes(n)
  PROVE  IInv'
<1>1. TypeOK /\ turn[n] \in Turn /\ FedFacts(n) /\ turn[n].rows + 1 \in Nat /\ turn[n].rows \in Nat
  <2>1. TypeOK /\ turn[n] \in Turn /\ FedFacts(n)
    BY TypedTurns DEF IInv, ShapesOK, ShapeOK, FedFacts
  <2>2. turn[n].rows \in Nat
    BY <2>1 DEF Turn
  <2>3. QED
    BY <2>1, <2>2
<1>2. turn[n].at \in InReply \cup {"created", "hearing"}
  BY DEF Answers, RowStored, Moves, SpeaksWhole, ReadyToTell, HearsNothing, CancelledEarly, Unwinds, Salvages,
         CanSalvage, Flushes, InReply
<1>3. RestTypesOK' /\ UNCHANGED <<turnTask, queued, computeTask, pending, handler>>
  <2>1. RestTypesOK
    BY <1>1, TypesSplit
  <2>2. CASE Answers(n) \/ RowStored(n)
    BY <2>1, <2>2 DEF RestTypesOK, Answers, RowStored, Moves, queueVars, clientVars, replyVars, speechVars
  <2>3. CASE SpeaksWhole(n)
    BY <2>1, <2>3 DEF RestTypesOK, SpeaksWhole, BeginSpeaking, queueVars, clientVars
  <2>4. CASE HearsNothing(n) \/ CancelledEarly(n)
    BY <2>1, <2>4 DEF RestTypesOK, HearsNothing, CancelledEarly, queueVars, clientVars, replyVars, speechVars
  <2>5. CASE Unwinds(n) \/ Salvages(n)
    BY <2>1, <2>5 DEF RestTypesOK, Unwinds, Salvages, queueVars, clientVars, replyVars, speechVars
  <2>6. CASE Flushes(n)
    BY <2>1, <2>6 DEF RestTypesOK, Flushes, queueVars, clientVars, speechVars
  <2>7. QED
    BY <2>2, <2>3, <2>4, <2>5, <2>6
<1>4. CASE Answers(n)
  <2> DEFINE r == [turn[n] EXCEPT !.at = "storing"]
  <2>1. /\ Edits(n, r) /\ r \in Turn /\ turn[n].at = "thinking"
        /\ r.kind = turn[n].kind /\ r.fed = turn[n].fed /\ r.voice = turn[n].voice /\ r.at = "storing"
    BY <1>1, <1>4, ReplyEdits DEF Turn, Stage, InReply, Answers, Moves
  <2> HIDE DEF r
  <2>2. QED
    BY <1>1, <1>2, <1>3, <2>1, ReplyKeeps DEF FedFacts, FedAt, InReply
<1>5. CASE RowStored(n)
  <2> DEFINE r == [turn[n] EXCEPT !.at = "stored", !.rows = turn[n].rows + 1]
  <2>1. /\ Edits(n, r) /\ r \in Turn /\ turn[n].at = "storing"
        /\ r.kind = turn[n].kind /\ r.fed = turn[n].fed /\ r.voice = turn[n].voice /\ r.at = "stored"
    BY <1>1, <1>5, ReplyEdits DEF Turn, Stage, InReply, RowStored, Moves
  <2> HIDE DEF r
  <2>2. QED
    BY <1>1, <1>2, <1>3, <2>1, ReplyKeeps DEF FedFacts, FedAt, InReply
<1>6. CASE SpeaksWhole(n)
  <2> DEFINE r == [turn[n] EXCEPT !.at = "batch", !.started = TRUE]
  <2>1. /\ Edits(n, r) /\ r \in Turn /\ turn[n].at \in InReply
        /\ r.kind = turn[n].kind /\ r.fed = turn[n].fed /\ r.at = "batch"
    BY <1>1, <1>6, ReplyEdits DEF Turn, Stage, InReply, SpeaksWhole, ReadyToTell
  <2>2. ~turn[n].fed
    BY <1>1, <1>6 DEF SpeaksWhole, ReadyToTell, FedFacts
  <2> HIDE DEF r
  <2>3. QED
    BY <1>2, <1>3, <2>1, <2>2, ReplyKeeps DEF InReply
<1>7. CASE HearsNothing(n) \/ CancelledEarly(n)
  <2> DEFINE r == [turn[n] EXCEPT !.at = "gone", !.cancelled = FALSE]
  <2>1. /\ Edits(n, r) /\ r \in Turn /\ r.kind = turn[n].kind /\ r.fed = turn[n].fed /\ r.at = "gone"
    BY <1>1, <1>7, ReplyEdits DEF Turn, Stage
  <2>2. ~turn[n].fed
    BY <1>1, <1>7 DEF HearsNothing, CancelledEarly, FedFacts, FedAt
  <2> HIDE DEF r
  <2>3. QED
    BY <1>2, <1>3, <2>1, <2>2, ReplyKeeps
<1>8. CASE Unwinds(n)
  <2> DEFINE r == [turn[n] EXCEPT !.at = "unwinding", !.cancelled = FALSE]
  <2>1. /\ Edits(n, r) /\ r \in Turn /\ turn[n].at \in InReply
        /\ r.kind = turn[n].kind /\ r.fed = turn[n].fed /\ r.voice = turn[n].voice /\ r.at = "unwinding"
    BY <1>1, <1>8, ReplyEdits DEF Turn, Stage, InReply, Unwinds
  <2> HIDE DEF r
  <2>2. QED
    BY <1>1, <1>2, <1>3, <2>1, ReplyKeeps DEF FedFacts, FedAt, InReply
<1>9. CASE Salvages(n)
  <2> DEFINE r == [turn[n] EXCEPT !.at = "saving", !.told = "partial", !.cancelled = FALSE]
  <2>1. /\ Edits(n, r) /\ r \in Turn /\ turn[n].at \in InReply
        /\ r.kind = turn[n].kind /\ r.fed = turn[n].fed /\ r.voice = turn[n].voice /\ r.at = "saving"
    BY <1>1, <1>9, ReplyEdits DEF Turn, Stage, InReply, Salvages, CanSalvage
  <2>2. ~turn[n].fed
    BY <1>1, <1>9 DEF Salvages, CanSalvage, FedFacts, FedAt
  <2> HIDE DEF r
  <2>3. QED
    BY <1>2, <1>3, <2>1, <2>2, ReplyKeeps DEF InReply
<1>10. CASE Flushes(n)
  <2>1. PICK tail \in BOOLEAN :
          turn' = [turn EXCEPT ![n].at = "flushing", ![n].fed = @ \/ (tail /\ ~ttsCancel)]
    BY <1>10 DEF Flushes
  <2>2. PICK f \in BOOLEAN : f = (turn[n].fed \/ (tail /\ ~ttsCancel))
    OBVIOUS
  <2> DEFINE r == [turn[n] EXCEPT !.at = "flushing", !.fed = f]
  <2>3. Edits(n, r)
    BY <1>1, <2>1, <2>2, TypedTurns DEF Edits
  <2>4. /\ r \in Turn /\ turn[n].at = "stored" /\ turn[n].voice
        /\ r.kind = turn[n].kind /\ r.voice = turn[n].voice /\ r.at = "flushing"
    BY <1>1, <1>10 DEF Turn, Stage, InReply, Flushes
  <2> HIDE DEF r
  <2>5. QED
    BY <1>1, <1>2, <1>3, <2>3, <2>4, ReplyKeeps DEF FedAt, InReply
<1>11. QED
  BY <1>4, <1>5, <1>6, <1>7, <1>8, <1>9, <1>10

(* A turn or a compute task ends.                                             *)
LEMMA EndKeeps ==
  ASSUME IInv, NEW n \in Turns, NEW fed, NEW rows, EndsWith(n, fed, rows), RestTypesOK',
         turnTask' = turnTask, handler' = handler, turn[n].at # "unused", turn[n].at # "waiting",
         turn[n].at # "gone", fed => turn[n].fed,
         turn[n].at = "delivering" => turn[n].kind # "handled",
         pending' \in {pending, NoTurn} \/ (pending' = n /\ turn[n].kind = "compute")
  PROVE  IInv'
<1>1. turn[n] \in Turn /\ ShapeOK(turn[n]) /\ LastOf(n) /\ StepOf(n) /\ QueueMoves /\ turn'[n].fed = fed
  BY TypedTurns DEF IInv, ShapesOK, EndsWith
<1>2. ActorKept(n)
  BY <1>1 DEF ActorKept, KeepsTurn, StaysDelivering, StaysOver, LastOf, ShapeOK, KindFits, FedAt, UserAlive, UserKinds,
              QueuedKinds, InReply
<1>3. pending' = n /\ turn[n].kind = "compute" =>
        n # NoTurn /\ turn'[n].kind \in QueuedKinds /\ turn'[n].at \in {"gone", "joining"}
  BY <1>1, TurnNumbers DEF LastOf, QueuedKinds
<1>4. QED
  BY <1>1, <1>2, <1>3, StepKeeps

LEMMA EndTurnTypes ==
  ASSUME TypeOK, NEW n \in Turns, NEW t, EndTurn(n, t), QueueMoves, persisted' \in BOOLEAN
  PROVE  RestTypesOK' /\ UNCHANGED <<turnTask, pending, handler>>
<1>1. RestTypesOK
  BY TypesSplit
<1>2. queued' \in Turns \cup {NoTurn} /\ computeTask' \in Turns \cup {NoTurn}
  BY <1>1 DEF RestTypesOK, QueueMoves
<1>3. speech' = "idle" /\ current' = NoTurn /\ partial' = {} /\ grace' = TRUE
      /\ UNCHANGED <<turnTask, pending, deferred, capturing, playback, interrupts, ttsCancel, heard, handler>>
  BY DEF EndTurn, FinishTurn, clientVars
<1>4. QED
  BY <1>1, <1>2, <1>3 DEF RestTypesOK

LEMMA TurnEndsKeeps ==
  ASSUME IInv, NEW n \in Turns,
         Tells(n) \/ Fails(n) \/ NothingToSalvage(n) \/ Saved(n) \/ CancelledLate(n)
  PROVE  IInv'
<1>1. TypeOK /\ turn[n].at \in InReply
  BY DEF IInv, Tells, ReadyToTell, Fails, NothingToSalvage, CanSalvage, Saved, CancelledLate, InReply
<1>2. PICK fed, rows : EndsWith(n, fed, rows) /\ (fed => turn[n].fed)
  <2>1. CASE Tells(n) \/ Fails(n) \/ NothingToSalvage(n)
    BY <2>1, TellsEffect, FailsEffect, NothingToSalvageEffect
  <2>2. CASE Saved(n)
    BY <2>2, SavedEffect
  <2>3. CASE CancelledLate(n)
    BY <2>3, CancelledLateEffect
  <2>4. QED
    BY <2>1, <2>2, <2>3
<1>3. (\E t : EndTurn(n, t)) /\ persisted' \in BOOLEAN
  <2>1. persisted \in BOOLEAN
    BY <1>1 DEF TypeOK
  <2>2. QED
    BY <2>1 DEF Tells, Fails, NothingToSalvage, Saved, CancelledLate
<1>4. RestTypesOK' /\ UNCHANGED <<turnTask, pending, handler>>
  BY <1>1, <1>2, <1>3, EndTurnTypes DEF EndsWith
<1>5. QED
  BY <1>1, <1>2, <1>4, EndKeeps DEF InReply

LEMMA QueueTypes ==
  ASSUME TypeOK, QueueMoves PROVE {queued', computeTask'} \subseteq Turns \cup {NoTurn}
  BY TypedTurns DEF QueueMoves

LEMMA ComputeKeeps ==
  ASSUME IInv, NEW n \in Turns,
         ComputeAnswers(n) \/ ComputeDelivers(n) \/ ComputeCancelled(n) \/ Joined(n)
  PROVE  IInv'
<1>1. TypeOK /\ RestTypesOK /\ turn[n] \in Turn /\ ShapeOK(turn[n])
  BY TypedTurns, TypesSplit DEF IInv, ShapesOK
<1>2. CASE ComputeAnswers(n)
  <2>1. turn[n].at = "computing" /\ turn[n].kind = "compute"
    BY <1>1, <1>2 DEF ComputeAnswers, ShapeOK, KindFits
  <2>2. UNCHANGED <<turnTask, deferred, clientVars, grace, replyVars, handler>>
    BY <1>2 DEF ComputeAnswers
  <2>3. CASE Keeps(n) \/ TellsOnly(n)
    <3>1. EndsWith(n, turn[n].fed, turn[n].rows + 1) /\ pending' \in {n, NoTurn}
      BY <2>3 DEF Keeps, TellsOnly
    <3>2. RestTypesOK'
      BY <1>1, <2>2, <2>3, <3>1, QueueTypes DEF RestTypesOK, Keeps, TellsOnly, FinishTurn, EndsWith, speechVars,
                                              clientVars, replyVars
    <3>3. QED
      BY <2>1, <2>2, <3>1, <3>2, EndKeeps
  <2>4. CASE Speaks(n)
    <3> DEFINE r == SpeaksAt(n)
    <3>1. r \in Turn /\ r.kind = turn[n].kind /\ r.at = "delivering" /\ r.fed = turn[n].fed /\ r.voice = turn[n].voice
          /\ Edits(n, r)
      BY <1>1, <2>4 DEF Speaks, SpeaksAt, Turn
    <3>2. RestTypesOK'
      BY <1>1, <2>2, <2>4 DEF RestTypesOK, Speaks, BeginSpeaking, clientVars, replyVars
    <3> HIDE DEF r
    <3>3. turn'[n] = r => ActorKept(n)
      BY <1>1, <2>1, <3>1 DEF ActorKept, KeepsTurn, StaysDelivering, StaysOver, ShapeOK, KindFits, FedAt, UserAlive,
                              UserKinds, QueuedKinds, InReply
    <3>4. QED
      BY <2>1, <2>2, <2>4, <3>1, <3>2, <3>3, EditKeeps DEF Speaks
  <2>5. QED
    BY <1>2, <2>3, <2>4, ComputeAnswersEffect
<1>3. CASE ComputeDelivers(n)
  <2>1. EndsWith(n, turn[n].fed, turn[n].rows) /\ turn[n].kind = "compute" /\ turn[n].at = "delivering"
        /\ UNCHANGED <<turnTask, pending, handler>>
    BY <1>3, ComputeDeliversEffect DEF ComputeDelivers
  <2>2. RestTypesOK'
    BY <1>1, <1>3, <2>1, QueueTypes DEF RestTypesOK, ComputeDelivers, FinishTurn, EndsWith, clientVars, replyVars
  <2>3. QED
    BY <2>1, <2>2, EndKeeps
<1>4. CASE ComputeCancelled(n)
  <2>1. /\ StepOf(n) /\ \A m \in Turns \ {n} : turn'[m] = turn[m]
        /\ turn'[n].kind = turn[n].kind /\ turn'[n].fed = turn[n].fed
        /\ turn'[n].at = "gone" /\ turn[n].kind = "compute" /\ turn[n].at \in {"computing", "delivering"}
    BY <1>4, ComputeCancelledEffect DEF ComputeCancelled
  <2>2. computeTask' = NoTurn /\ UNCHANGED <<turnTask, queued, pending, deferred, clientVars, grace, replyVars,
                                             ttsCancel, heard, handler>>
        /\ (UNCHANGED <<speech, current>> \/ FinishTurn)
    BY <1>4 DEF ComputeCancelled
  <2>3. RestTypesOK'
    BY <1>1, <2>2 DEF RestTypesOK, FinishTurn, clientVars, replyVars
  <2>4. ActorKept(n)
    BY <1>1, <2>1 DEF ActorKept, KeepsTurn, StaysDelivering, StaysOver, ShapeOK, KindFits, FedAt, UserAlive, UserKinds,
                      QueuedKinds, InReply
  <2>5. QueueMoves
    <3>1. queued # NoTurn => queued # n /\ queued \in Turns
      BY <1>1, <2>1, TypedTurns DEF IInv, QueueOK
    <3>2. QED
      BY <2>1, <2>2, <3>1 DEF QueueMoves
  <2>6. QED
    BY <2>1, <2>2, <2>3, <2>4, <2>5, StepKeeps
<1>5. CASE Joined(n)
  <2>1. EndsWith(n, turn[n].fed, turn[n].rows) /\ turn[n].at = "joining"
        /\ UNCHANGED <<turnTask, pending, deferred, clientVars, grace, replyVars, speechVars, handler>>
    BY <1>5, JoinedEnds DEF Joined
  <2>2. RestTypesOK'
    BY <1>1, <2>1, QueueTypes DEF RestTypesOK, EndsWith, clientVars, replyVars, speechVars
  <2>3. QED
    BY <2>1, <2>2, EndKeeps
<1>6. QED
  BY <1>2, <1>3, <1>4, <1>5

(* Messages of the client                                                    *)

LEMMA RequeuesKeeps ==
  ASSUME IInv, NEW n \in Turns, ChatRequeues(n) \/ ComputeFails(n) PROVE IInv'
<1> DEFINE r == [turn[n] EXCEPT !.at = "waiting"]
<1>1. TypeOK /\ RestTypesOK /\ turn[n] \in Turn /\ ShapeOK(turn[n]) /\ Edits(n, r)
  BY TypedTurns, TypesSplit, ReplyEdits DEF IInv, ShapesOK
<1>2. r \in Turn /\ r.kind = turn[n].kind /\ r.at = "waiting" /\ r.fed = turn[n].fed /\ r.voice = turn[n].voice
  BY <1>1 DEF Turn, Stage
<1>3. /\ turn[n].at \in {"created", "computing"} /\ queued' = n /\ computeTask' \in {computeTask, NoTurn}
      /\ UNCHANGED <<turnTask, pending, deferred, clientVars, grace, replyVars, speechVars, handler>>
  BY DEF ChatRequeues, ComputeFails
<1> HIDE DEF r
<1>4. StepOf(n) /\ turn'[n] = r
  BY <1>1, <1>2, EditEffect
<1>5. ActorKept(n)
  BY <1>1, <1>2, <1>3, <1>4 DEF ActorKept, KeepsTurn, StaysDelivering, StaysOver, ShapeOK, KindFits, FedAt, UserAlive,
                            UserKinds, QueuedKinds, InReply
<1>6. \A m \in Turns : ActorKept(m)
  BY <1>4, <1>5, BesideKeeps DEF ActorKept, StepOf
<1>7. TypeOK'
  BY <1>1, <1>3, <1>4 DEF StepOf, TypeOK, RestTypesOK, clientVars, replyVars, speechVars
<1>8. ShapesOK' /\ OneUserTurn'
  BY <1>3, <1>6, KeepsOneUser DEF ActorKept
<1>9. HandlerOK'
  <2>1. handler.at = "delivering" => handler.on \in Turns
    BY DEF IInv, TypeOK, Handler, HandlerOK
  <2>2. QED
    BY <1>3, <1>6, <2>1, KeepsHandler DEF ActorKept
<1>10. QueueOK'
  <2>1. pending \in Turns \cup {NoTurn} /\ computeTask \in Turns \cup {NoTurn}
    BY <1>1, TypedTurns
  <2>2. pending' # NoTurn => turn'[pending'].kind \in QueuedKinds /\ turn'[pending'].at \in {"gone", "joining"}
    BY <1>3, <1>6, <2>1 DEF IInv, QueueOK, ActorKept, KeepsTurn, StaysOver
  <2>3. computeTask' # NoTurn => turn'[computeTask'].kind \in QueuedKinds
    BY <1>3, <1>6, <2>1 DEF IInv, QueueOK, ActorKept, KeepsTurn
  <2>4. QED
    BY <1>2, <1>3, <1>4, <2>2, <2>3 DEF QueueOK
<1>11. QED
  BY <1>7, <1>8, <1>9, <1>10 DEF IInv

(* A turn of the user begins while there is none.                             *)
StartedAs(n, kind, at) == [turn[n] EXCEPT !.kind = kind, !.at = at]

LEMMA StartKeeps ==
  ASSUME IInv, NEW n \in Turns, NextTurn(n), ~Alive(turnTask), turnTask' = n,
         Edits(n, StartedAs(n, "voice", "hearing")) \/ Edits(n, StartedAs(n, "chat", "created")),
         RestTypesOK', UNCHANGED <<queued, computeTask, pending, handler>>
  PROVE  IInv'
<1>1. TypeOK /\ turn[n] \in Turn /\ turn[n].at = "unused" /\ ~turn[n].fed /\ turn[n].kind = "none"
  BY TypedTurns DEF IInv, ShapesOK, NextTurn, ShapeOK
<1>2. PICK kind, at : Edits(n, StartedAs(n, kind, at)) /\ <<kind, at>> \in {<<"voice", "hearing">>, <<"chat", "created">>}
  OBVIOUS
<1> DEFINE r == StartedAs(n, kind, at)
<1>3. r \in Turn /\ r.kind = kind /\ r.at = at /\ ~r.fed
  BY <1>1, <1>2 DEF StartedAs, Turn, Stage
<1> HIDE DEF r
<1>4. turn' \in [Turns -> Turn] /\ turn'[n] = r /\ \A m \in Turns \ {n} : turn'[m] = turn[m]
  BY <1>1, <1>2, <1>3, EditEffect DEF StepOf, r
<1>5. TypeOK'
  BY <1>4, TypesSplit DEF TypeOK, RestTypesOK
<1>6. ShapesOK'
  BY <1>2, <1>3, <1>4 DEF IInv, ShapesOK, ShapeOK, KindFits, InReply, QueuedKinds
<1>7. OneUserTurn'
  <2>1. ASSUME NEW m \in Turns, IsUserTurn(m)', Alive(m)', m # n PROVE FALSE
    <3>1. IsUserTurn(m) /\ Alive(m)
      BY <1>4, <2>1 DEF IsUserTurn, Alive
    <3>2. m = turnTask
      BY <3>1 DEF IInv, OneUserTurn
    <3>3. QED
      BY <3>1, <3>2
  <2>2. QED
    BY <2>1 DEF OneUserTurn
<1>8. QueueOK' /\ HandlerOK'
  <2>1. queued \in Turns \cup {NoTurn} /\ computeTask \in Turns \cup {NoTurn} /\ pending \in Turns \cup {NoTurn}
    BY <1>1, TypedTurns
  <2>2. handler.at = "delivering" => handler.on \in Turns
    BY DEF IInv, TypeOK, Handler, HandlerOK
  <2>3. QueueOK'
    BY <1>1, <1>4, <2>1 DEF IInv, QueueOK, QueuedKinds
  <2>4. HandlerOK'
    BY <1>1, <1>4, <2>2 DEF IInv, HandlerOK
  <2>5. QED
    BY <2>3, <2>4
<1>9. QED
  BY <1>5, <1>6, <1>7, <1>8 DEF IInv

LEMMA UserTurnsKeep ==
  ASSUME IInv, NEW n \in Turns, AudioEnd(n) \/ ChatStarts(n) PROVE IInv'
<1>1. TypeOK /\ RestTypesOK /\ turn[n] \in Turn
  BY TypedTurns, TypesSplit DEF IInv
<1>2. CASE AudioEnd(n)
  <2>1. RestTypesOK' /\ UNCHANGED <<queued, computeTask, pending, handler>>
    BY <1>1, <1>2 DEF RestTypesOK, AudioEnd, replyVars
  <2>2. CASE UNCHANGED <<turn, turnTask>>
    BY <1>1, <2>1, <2>2 DEF IInv, TypeOK, RestTypesOK, ShapesOK, QueueOK, HandlerOK, OneUserTurn, IsUserTurn, Alive
  <2>3. CASE ~Alive(turnTask) /\ turn' = [turn EXCEPT ![n].kind = "voice", ![n].at = "hearing"] /\ turnTask' = n
    <3>1. Edits(n, StartedAs(n, "voice", "hearing"))
      BY <2>3 DEF Edits, StartedAs
    <3>2. QED
      BY <1>2, <2>1, <2>3, <3>1, StartKeeps DEF AudioEnd
  <2>4. QED
    BY <1>2, <2>2, <2>3 DEF AudioEnd
<1>3. CASE ChatStarts(n)
  <2>1. RestTypesOK' /\ UNCHANGED <<queued, computeTask, pending, handler>>
    BY <1>1, <1>3 DEF RestTypesOK, ChatStarts, queueVars, clientVars, replyVars, speechVars
  <2>2. Edits(n, StartedAs(n, "chat", "created"))
    BY <1>3 DEF ChatStarts, Edits, StartedAs
  <2>3. QED
    BY <1>3, <2>1, <2>2, StartKeeps DEF ChatStarts, ShouldQueue, Blocks
<1>4. QED
  BY <1>2, <1>3

(* A typed chat is queued while something goes on: it waits until the compute *)
(* task is cancelled, or it is computed at once.                             *)
ChatWaits(n) ==
  /\ turn'[n] = StartedAs(n, "chat", "waiting")
  /\ Alive(computeTask) /\ computeTask' = computeTask /\ computeTask # NoTurn /\ turn'[computeTask].cancelled
  /\ queued' = n /\ handler' = [at |-> "joining", on |-> computeTask]

ChatComputes(n) ==
  /\ turn'[n] = StartedAs(n, "compute", "computing")
  /\ computeTask' = n /\ queued' = NoTurn /\ handler' = AtRest

LEMMA ChatQueuesEffect ==
  ASSUME IInv, NEW n \in Turns, ChatQueues(n)
  PROVE  StepOf(n) /\ (ChatWaits(n) \/ ChatComputes(n))
<1>1. turn \in [Turns -> Turn] /\ turn[n] \in Turn /\ turn[n].at = "unused" /\ computeTask \in Turns \cup {NoTurn}
  BY TypedTurns DEF IInv, ChatQueues, NextTurn
<1>2. StartedAs(n, "chat", "waiting") \in Turn /\ StartedAs(n, "compute", "computing") \in Turn
  BY <1>1 DEF StartedAs, Turn, Stage
<1> DEFINE t == [turn EXCEPT ![n] = StartedAs(n, "chat", "waiting")]
<1>3. t \in [Turns -> Turn] /\ t[n] = StartedAs(n, "chat", "waiting") /\ \A m \in Turns \ {n} : t[m] = turn[m]
  BY <1>1, <1>2
<1>4. [turn EXCEPT ![n].kind = "chat", ![n].at = "waiting"] = t
  BY DEF StartedAs
<1>5. HandlerStarts(t, n)
  BY <1>4 DEF ChatQueues
<1> HIDE DEF t
<1>6. CASE /\ Alive(computeTask) /\ turn' = Cancelled(t, computeTask)
           /\ handler' = [at |-> "joining", on |-> computeTask]
           /\ queued' = n /\ UNCHANGED computeTask
  <2> DEFINE c == Cancelled(t, computeTask)
  <2>1. computeTask \in Turns /\ computeTask # n /\ computeTask # NoTurn
    BY <1>1, <1>6 DEF Alive
  <2>2. /\ c \in [Turns -> Turn] /\ c[computeTask] = [t[computeTask] EXCEPT !.cancelled = TRUE]
        /\ \A m \in Turns \ {computeTask} : c[m] = t[m]
    BY <1>3, <2>1, CancelledValue
  <2>3. turn' = c
    BY <1>6
  <2> HIDE DEF c
  <2>4. turn' \in [Turns -> Turn] /\ turn'[n] = StartedAs(n, "chat", "waiting")
    BY <1>3, <2>1, <2>2, <2>3
  <2>5. \A m \in Turns \ {n} : Beside(m)
    BY <1>3, <2>1, <2>2, <2>3 DEF Beside
  <2>6. turn'[computeTask].cancelled
    BY <1>3, <2>1, <2>2, <2>3, CutTyped
  <2>7. QED
    BY <1>6, <2>1, <2>4, <2>5, <2>6 DEF StepOf, ChatWaits
<1>7. CASE /\ ~Alive(computeTask)
           /\ turn' = [t EXCEPT ![n].kind = "compute", ![n].at = "computing"]
           /\ computeTask' = n /\ queued' = NoTurn /\ handler' = AtRest
  <2>1. [t[n] EXCEPT !.kind = "compute", !.at = "computing"] = StartedAs(n, "compute", "computing")
    BY <1>1, <1>3 DEF StartedAs, Turn
  <2>2. turn' = [t EXCEPT ![n] = StartedAs(n, "compute", "computing")]
    BY <1>7, <2>1
  <2>3. turn' \in [Turns -> Turn] /\ turn'[n] = StartedAs(n, "compute", "computing")
        /\ \A m \in Turns \ {n} : turn'[m] = turn[m]
    BY <1>2, <1>3, <2>2
  <2>4. QED
    BY <1>7, <2>3 DEF StepOf, ChatComputes, Beside
<1>8. QED
  BY <1>5, <1>6, <1>7 DEF HandlerStarts

LEMMA ChatQueuesKeeps ==
  ASSUME IInv, NEW n \in Turns, ChatQueues(n) PROVE IInv'
<1>1. TypeOK /\ RestTypesOK /\ turn[n] \in Turn /\ turn[n].at = "unused" /\ turn[n].kind = "none" /\ ~turn[n].fed
      /\ pending \in Turns \cup {NoTurn} /\ computeTask \in Turns \cup {NoTurn}
  BY TypedTurns, TypesSplit DEF IInv, ShapesOK, ChatQueues, NextTurn, ShapeOK
<1>2. StepOf(n) /\ (ChatWaits(n) \/ ChatComputes(n))
  BY ChatQueuesEffect
<1>3. UNCHANGED <<turnTask, pending, deferred, clientVars, grace, replyVars, speechVars>>
  BY DEF ChatQueues
<1>4. TypeOK'
  <2>1. handler' \in Handler
    BY <1>1, <1>2 DEF ChatWaits, ChatComputes, AtRest, Handler
  <2>2. {queued', computeTask'} \subseteq Turns \cup {NoTurn}
    BY <1>1, <1>2 DEF ChatWaits, ChatComputes
  <2>3. QED
    BY <1>1, <1>2, <1>3, <2>1, <2>2 DEF TypeOK, RestTypesOK, StepOf, clientVars, replyVars, speechVars
<1>5. turn'[n].kind \in {"chat", "compute"} /\ turn'[n].at \in {"waiting", "computing"} /\ ~turn'[n].fed
      /\ (turn'[n].at = "computing" <=> turn'[n].kind = "compute")
  BY <1>1, <1>2 DEF ChatWaits, ChatComputes, StartedAs, Turn
<1>6. ActorKept(n)
  BY <1>1, <1>5 DEF ActorKept, KeepsTurn, StaysDelivering, StaysOver, ShapeOK, KindFits, FedAt, UserAlive, UserKinds,
                    QueuedKinds, InReply
<1>7. \A m \in Turns : ActorKept(m)
  BY <1>2, <1>6, BesideKeeps DEF ActorKept, StepOf
<1>8. ShapesOK' /\ OneUserTurn'
  BY <1>3, <1>7, KeepsOneUser DEF ActorKept
<1>9. QueueOK'
  <2>1. pending' # NoTurn => turn'[pending'].kind \in QueuedKinds /\ turn'[pending'].at \in {"gone", "joining"}
    BY <1>1, <1>3, <1>7 DEF IInv, QueueOK, ActorKept, KeepsTurn, StaysOver
  <2>2. CASE ChatWaits(n)
    <3>1. turn'[n].at = "waiting"
      BY <1>1, <2>2 DEF ChatWaits, StartedAs, Turn
    <3>2. computeTask' # NoTurn => turn'[computeTask'].kind \in QueuedKinds
      BY <1>1, <1>7, <2>2 DEF ChatWaits, IInv, QueueOK, ActorKept, KeepsTurn
    <3>3. QED
      BY <2>1, <2>2, <3>1, <3>2 DEF ChatWaits, QueueOK
  <2>3. CASE ChatComputes(n)
    <3>1. turn'[n].kind = "compute"
      BY <1>1, <2>3 DEF ChatComputes, StartedAs, Turn
    <3>2. QED
      BY <2>1, <2>3, <3>1 DEF ChatComputes, QueueOK, QueuedKinds
  <2>4. QED
    BY <1>2, <2>2, <2>3
<1>10. HandlerOK'
  BY <1>2 DEF HandlerOK, ChatWaits, ChatComputes, AtRest
<1>11. QED
  BY <1>4, <1>8, <1>9, <1>10 DEF IInv

(* The inbound loop                                                          *)

LEMMA LoopKeeps ==
  ASSUME IInv, turn' \in [Turns -> Turn], RestTypesOK', \A m \in Turns : KeepsTurn(m), QueueMoves,
         turnTask' = turnTask, pending' = NoTurn \/ (pending' = pending /\ StaysOver(pending)), HandlerOK'
  PROVE  IInv'
<1>1. pending \in Turns \cup {NoTurn}
  BY TypedTurns DEF IInv
<1>2. TypeOK'
  BY DEF TypeOK, RestTypesOK
<1>3. ShapesOK' /\ OneUserTurn'
  BY KeepsOneUser
<1>4. pending' # NoTurn => turn'[pending'].kind \in QueuedKinds /\ turn'[pending'].at \in {"gone", "joining"}
  BY <1>1 DEF IInv, QueueOK, KeepsTurn, StaysOver
<1>5. QueueOK'
  BY <1>4, KeepsQueue DEF QueueOK
<1>6. QED
  BY <1>2, <1>3, <1>5 DEF IInv

LEMMA HandlerJoinedKeeps ==
  ASSUME IInv, HandlerJoined PROVE IInv' /\ StepOf(NoTurn) /\ QueueMoves
<1>1. TypeOK /\ RestTypesOK /\ turn \in [Turns -> Turn] /\ queued \in Turns \cup {NoTurn}
      /\ pending \in Turns \cup {NoTurn}
  BY TypedTurns, TypesSplit DEF IInv
<1>2. StepOf(NoTurn) /\ QueueMoves
  <2>1. CASE queued = NoTurn
    BY <1>1, <2>1 DEF HandlerJoined, Launch, StepOf, Beside, QueueMoves
  <2>2. CASE queued # NoTurn
    <3> DEFINE r == [turn[queued] EXCEPT !.kind = "compute", !.at = "computing"]
    <3>1. r \in Turn
      BY <1>1, <2>2, RecordEdits
    <3>2. turn' = [turn EXCEPT ![queued] = r] /\ queued' = NoTurn /\ computeTask' = queued
      BY <1>1, <2>2 DEF HandlerJoined, Launch
    <3> HIDE DEF r
    <3>3. turn' \in [Turns -> Turn] /\ turn'[queued] = r /\ \A m \in Turns \ {queued} : turn'[m] = turn[m]
      BY <1>1, <2>2, <3>1, <3>2
    <3>4. QED
      BY <2>2, <3>2, <3>3 DEF StepOf, Beside, QueueMoves, r
  <2>3. QED
    BY <2>1, <2>2
<1>3. \A m \in Turns : ActorKept(m)
  BY <1>2, BesideKeeps, TurnNumbers DEF StepOf, ActorKept
<1>4. handler' = AtRest /\ UNCHANGED <<turnTask, pending, deferred, clientVars, grace, replyVars, speechVars>>
  BY DEF HandlerJoined
<1>5. RestTypesOK'
  BY <1>1, <1>2, <1>4, QueueTypes DEF RestTypesOK, AtRest, Handler, clientVars, replyVars, speechVars
<1>6. HandlerOK'
  BY <1>4 DEF HandlerOK, AtRest
<1>7. pending' = NoTurn \/ (pending' = pending /\ StaysOver(pending))
  BY <1>1, <1>3, <1>4 DEF ActorKept
<1>8. QED
  BY <1>2, <1>3, <1>4, <1>5, <1>6, <1>7, LoopKeeps DEF StepOf, ActorKept

(* The steps of HandlerDrains, for the turn n that t ends, if any.            *)
LEMMA DrainKeeps ==
  ASSUME IInv, NEW t \in [Turns -> Turn], NEW n \in Turns \cup {NoTurn}, Drained(t, n),
         HandlerSpeaks \/ HandlerTells, RestTypesOK', turnTask' = turnTask,
         n # NoTurn => /\ t[n].at = "gone" /\ t[n].kind = turn[n].kind /\ turn[n].kind = "handled"
                       /\ ~t[n].fed /\ n # pending
  PROVE  IInv'
<1>1. /\ turn' \in [Turns -> Turn] /\ \A m \in Turns \ {n, pending} : Beside(m)
      /\ n # NoTurn => AsIn(t, n)
      /\ QueueMoves /\ turn \in [Turns -> Turn] /\ pending \in Turns \cup {NoTurn} /\ computeTask \in Turns \cup {NoTurn}
  BY TypedTurns DEF Drained, IInv
<1>2. ASSUME n # NoTurn PROVE KeepsTurn(n)
  <2>1. SameBut(n, t[n])
    BY <1>1, <1>2, AsInSame
  <2>2. turn'[n].at = "gone" /\ turn'[n].kind = "handled" /\ ~turn'[n].fed
    BY <1>2, <2>1 DEF SameBut
  <2>3. QED
    BY <1>2, <2>2 DEF KeepsTurn, ShapeOK, KindFits, UserAlive, QueuedKinds, InReply
<1>3. ASSUME pending # NoTurn PROVE KeepsTurn(pending) /\ (pending' = pending => StaysOver(pending))
  <2>1. turn[pending] \in Turn /\ ShapeOK(turn[pending]) /\ turn[pending].kind \in QueuedKinds
        /\ turn[pending].at \in {"gone", "joining"}
    BY <1>1, <1>3 DEF IInv, ShapesOK, QueueOK
  <2>2. CASE HandlerSpeaks
    <3>1. turn'[pending].kind = "handled" /\ turn'[pending].at = "delivering" /\ turn'[pending].fed = turn[pending].fed
          /\ pending' = NoTurn
      BY <2>1, <2>2 DEF HandlerSpeaks, Turn
    <3>2. QED
      BY <1>3, <2>1, <3>1 DEF KeepsTurn, ShapeOK, KindFits, UserAlive, UserKinds, QueuedKinds, InReply
  <2>3. CASE HandlerTells
    <3>1. SameBut(pending, turn[pending])
      BY <1>3, <2>3 DEF HandlerTells
    <3>2. QED
      BY <2>1, <3>1 DEF SameBut, KeepsTurn, StaysOver, ShapeOK, KindFits, UserAlive, QueuedKinds
  <2>4. QED
    BY <2>2, <2>3
<1>4. \A m \in Turns : KeepsTurn(m)
  BY <1>1, <1>2, <1>3, BesideKeeps, TurnNumbers
<1>5. pending' = NoTurn \/ (pending' = pending /\ StaysOver(pending))
  BY <1>3 DEF HandlerSpeaks, HandlerTells
<1>6. HandlerOK'
  <2>1. CASE HandlerSpeaks
    <3>1. turn[pending] \in Turn
      BY <1>1, <2>1 DEF HandlerSpeaks
    <3>2. turn'[pending].kind = "handled" /\ turn'[pending].at = "delivering"
      BY <2>1, <3>1 DEF HandlerSpeaks, Turn
    <3>3. QED
      BY <2>1, <3>2 DEF HandlerSpeaks, HandlerOK
  <2>2. CASE HandlerTells
    BY <2>2 DEF HandlerTells, HandlerWaits, HandlerOK, AtRest
  <2>3. QED
    BY <2>1, <2>2
<1>7. QED
  BY <1>1, <1>4, <1>5, <1>6, LoopKeeps

LEMMA DrainTypes ==
  ASSUME TypeOK, QueueMoves, NEW s \in {"idle", "listening", "thinking", "speaking"}, NEW c \in Turns \cup {NoTurn},
         HandlerSpeaks \/ (HandlerTells /\ (FinishTurn \/ (speech' = s /\ current' = c)))
  PROVE  /\ {queued', computeTask', pending', current', heard'} \subseteq Turns \cup {NoTurn}
         /\ ttsCancel' \in BOOLEAN /\ speech' \in {"idle", "listening", "thinking", "speaking"}
         /\ handler' \in Handler
<1>1. RestTypesOK /\ {queued', computeTask'} \subseteq Turns \cup {NoTurn}
  BY TypesSplit, QueueTypes
<1>2. CASE HandlerSpeaks
  BY <1>1, <1>2 DEF RestTypesOK, HandlerSpeaks, BeginSpeaking, Handler
<1>3. CASE HandlerTells /\ (FinishTurn \/ (speech' = s /\ current' = c))
  BY <1>1, <1>3 DEF RestTypesOK, HandlerTells, HandlerWaits, FinishTurn, Handler, AtRest
<1>4. QED
  BY <1>2, <1>3

(* The reply that the inbound loop delivers: its turn is over.                *)
Over(n) == Gone(Told(turn, n), n)

OverFits(n, t) ==
  /\ n \in Turns /\ n # queued /\ n # pending /\ turn[n].at = "delivering" /\ turn[n].kind = "handled"
  /\ t \in [Turns -> Turn] /\ \A m \in Turns \ {n} : t[m] = turn[m]
  /\ t[n].at = "gone" /\ t[n].kind = "handled" /\ ~t[n].fed /\ ~t[n].cancelled
  /\ t[n].rows = turn[n].rows /\ t[n].silenced = turn[n].silenced

LEMMA OverValue ==
  ASSUME IInv, handler.at = "delivering"
  PROVE  OverFits(handler.on, Over(handler.on))
<1>1. PICK n \in Turns : n = handler.on
  BY DEF IInv, HandlerOK, TypeOK, Handler
<1>2. turn \in [Turns -> Turn] /\ turn[n].at = "delivering" /\ turn[n].kind = "handled" /\ ~turn[n].fed
  BY <1>1, TypedTurns DEF IInv, HandlerOK, ShapesOK, ShapeOK, FedAt
<1>3. n # queued /\ n # pending
  BY <1>1, <1>2, TurnNumbers DEF IInv, QueueOK
<1> DEFINE u == Told(turn, n)
           t == Gone(u, n)
<1>4. /\ u \in [Turns -> Turn] /\ \A m \in Turns \ {n} : u[m] = turn[m]
      /\ u[n].kind = turn[n].kind /\ u[n].at = turn[n].at /\ u[n].voice = turn[n].voice /\ u[n].fed = turn[n].fed
      /\ u[n].silenced = turn[n].silenced /\ u[n].rows = turn[n].rows
  BY <1>2, ToldValue
<1> HIDE DEF u
<1>5. /\ t \in [Turns -> Turn] /\ t[n] = [u[n] EXCEPT !.at = "gone", !.cancelled = FALSE]
      /\ \A m \in Turns \ {n} : t[m] = u[m]
  BY <1>4, GoneValue
<1>6. u[n] \in Turn
  BY <1>4
<1>7. /\ t[n].at = "gone" /\ t[n].kind = u[n].kind /\ t[n].fed = u[n].fed /\ ~t[n].cancelled
      /\ t[n].rows = u[n].rows /\ t[n].silenced = u[n].silenced
  BY <1>5, <1>6 DEF Turn
<1>8. t = Over(n)
  BY DEF u, Over
<1> HIDE DEF t
<1>9. OverFits(n, t)
  BY <1>2, <1>3, <1>4, <1>5, <1>7 DEF OverFits
<1>10. QED
  BY <1>1, <1>8, <1>9

LEMMA HandlerDeliveredEffect ==
  ASSUME IInv, HandlerDelivered
  PROVE  /\ Drained(Over(handler.on), handler.on)
         /\ \/ HandlerSpeaks /\ CanDeliver(playback)
            \/ HandlerTells /\ (FinishTurn \/ (speech' = "idle" /\ current' = NoTurn))
<1>1. PICK n \in Turns : n = handler.on
  BY OverValue DEF HandlerDelivered, OverFits
<1>2. PICK t \in [Turns -> Turn] : t = Over(n)
  BY <1>1, OverValue DEF HandlerDelivered, OverFits
<1>3. n # queued /\ n # pending /\ \A m \in Turns \ {n} : t[m] = turn[m]
  BY <1>1, <1>2, OverValue DEF HandlerDelivered, OverFits
<1>4. HandlerDrains(t, playback, "idle", NoTurn)
  BY <1>1, <1>2 DEF HandlerDelivered, Over
<1>5. Drained(t, n) /\ (\/ HandlerSpeaks /\ CanDeliver(playback)
                        \/ HandlerTells /\ (FinishTurn \/ (speech' = "idle" /\ current' = NoTurn)))
  BY <1>3, <1>4, HandlerDrainsEffect
<1>6. QED
  BY <1>1, <1>2, <1>5

LEMMA HandlerDeliveredKeeps ==
  ASSUME IInv, HandlerDelivered PROVE IInv'
<1>1. TypeOK /\ RestTypesOK
  BY TypesSplit DEF IInv
<1>2. PICK n \in Turns : n = handler.on
  BY OverValue DEF HandlerDelivered, OverFits
<1>3. PICK t \in [Turns -> Turn] : t = Over(n)
  BY <1>2, OverValue DEF HandlerDelivered, OverFits
<1>4. /\ t[n].at = "gone" /\ t[n].kind = turn[n].kind /\ turn[n].kind = "handled" /\ ~t[n].fed /\ n # pending
  BY <1>2, <1>3, OverValue DEF HandlerDelivered, OverFits
<1>5. /\ Drained(t, n)
      /\ HandlerSpeaks \/ (HandlerTells /\ (FinishTurn \/ (speech' = "idle" /\ current' = NoTurn)))
  BY <1>2, <1>3, HandlerDeliveredEffect
<1>6. /\ {queued', computeTask', pending', current', heard'} \subseteq Turns \cup {NoTurn}
      /\ ttsCancel' \in BOOLEAN /\ speech' \in {"idle", "listening", "thinking", "speaking"}
      /\ handler' \in Handler
  BY <1>1, <1>5, DrainTypes DEF Drained
<1>7. UNCHANGED <<turnTask, deferred, clientVars, grace, replyVars>>
  BY DEF HandlerDelivered
<1>8. RestTypesOK'
  BY <1>1, <1>6, <1>7 DEF RestTypesOK, clientVars, replyVars
<1>9. QED
  BY <1>4, <1>5, <1>7, <1>8, DrainKeeps

LEMMA PlaybackStopsEffect ==
  ASSUME IInv, PlaybackStops
  PROVE  /\ Drained(turn, NoTurn)
         /\ \/ HandlerSpeaks /\ CanDeliver(FALSE)
            \/ HandlerTells /\ (FinishTurn \/ UNCHANGED <<speech, current>>)
<1>1. turn \in [Turns -> Turn] /\ HandlerDrains(turn, FALSE, speech, current)
  BY TypedTurns DEF IInv, PlaybackStops
<1>2. QED
  BY <1>1, HandlerDrainsEffect

LEMMA PlaybackStopsKeeps ==
  ASSUME IInv, PlaybackStops PROVE IInv'
<1>1. TypeOK /\ RestTypesOK /\ turn \in [Turns -> Turn]
  BY TypesSplit DEF IInv
<1>2. /\ Drained(turn, NoTurn)
      /\ HandlerSpeaks \/ (HandlerTells /\ (FinishTurn \/ (speech' = speech /\ current' = current)))
  BY PlaybackStopsEffect
<1>3. /\ {queued', computeTask', pending', current', heard'} \subseteq Turns \cup {NoTurn}
      /\ ttsCancel' \in BOOLEAN /\ speech' \in {"idle", "listening", "thinking", "speaking"}
      /\ handler' \in Handler
  BY <1>1, <1>2, DrainTypes DEF Drained, RestTypesOK
<1>4. playback' = FALSE /\ UNCHANGED <<turnTask, deferred, capturing, interrupts, grace, replyVars>>
  BY DEF PlaybackStops
<1>5. RestTypesOK'
  BY <1>1, <1>3, <1>4 DEF RestTypesOK, replyVars
<1>6. QED
  BY <1>1, <1>2, <1>4, <1>5, DrainKeeps

(* _handle_interrupt                                                          *)
InterruptedAs(r, n) ==
  /\ r \in Turn /\ r.kind = turn[n].kind /\ r.at = turn[n].at /\ r.voice = turn[n].voice /\ r.fed = turn[n].fed
  /\ r.rows = turn[n].rows /\ r.on = turn[n].on
  /\ r.cancelled = (turn[n].cancelled \/ (n = turnTask /\ Alive(n)))
  /\ r.silenced = (turn[n].silenced \/ (Alive(n) /\ turn[n].at \in InReply \cup {"delivering"}))

LEMMA InterruptEffect ==
  ASSUME TypeOK, Interrupt
  PROVE  turn' \in [Turns -> Turn] /\ \A n \in Turns : InterruptedAs(turn'[n], n)
<1> DEFINE said == partial # {} /\ current # NoTurn
           c(n) == turn[n].cancelled \/ (n = turnTask /\ Alive(n))
           s(n) == turn[n].silenced \/ (Alive(n) /\ turn[n].at \in InReply \cup {"delivering"})
           w(n) == IF said /\ n = current THEN "partial" ELSE turn[n].told
           r(n) == [turn[n] EXCEPT !.cancelled = c(n), !.silenced = s(n), !.told = w(n)]
<1>1. turn' = [n \in Turns |-> r(n)]
  BY DEF Interrupt
<1>2. \A n \in Turns : InterruptedAs(r(n), n)
  <2> SUFFICES ASSUME NEW n \in Turns PROVE InterruptedAs(r(n), n)
    OBVIOUS
  <2>1. turn[n] \in Turn
    BY TypedTurns
  <2>2. c(n) \in BOOLEAN /\ s(n) \in BOOLEAN /\ w(n) \in {"nothing", "partial", "final"}
    BY <2>1 DEF Turn
  <2>3. c(n) = (turn[n].cancelled \/ (n = turnTask /\ Alive(n)))
        /\ s(n) = (turn[n].silenced \/ (Alive(n) /\ turn[n].at \in InReply \cup {"delivering"}))
    OBVIOUS
  <2> HIDE DEF c, s, w
  <2>4. /\ r(n) \in Turn /\ r(n).kind = turn[n].kind /\ r(n).at = turn[n].at /\ r(n).voice = turn[n].voice
        /\ r(n).fed = turn[n].fed /\ r(n).rows = turn[n].rows /\ r(n).on = turn[n].on
          /\ r(n).cancelled = c(n) /\ r(n).silenced = s(n)
    BY <2>1, <2>2 DEF Turn
  <2> HIDE DEF r
  <2>5. QED
    BY <2>3, <2>4 DEF InterruptedAs
<1> HIDE DEF r
<1>3. QED
  BY <1>1, <1>2 DEF InterruptedAs

LEMMA InterruptKeeps ==
  ASSUME IInv, Interrupt PROVE IInv'
<1>1. TypeOK /\ RestTypesOK /\ turn \in [Turns -> Turn] /\ queued \in Turns \cup {NoTurn}
      /\ pending \in Turns \cup {NoTurn} /\ computeTask \in Turns \cup {NoTurn} /\ current \in Turns \cup {NoTurn}
  BY TypesSplit DEF IInv, RestTypesOK
<1>2. turn' \in [Turns -> Turn] /\ \A n \in Turns : InterruptedAs(turn'[n], n)
  BY <1>1, InterruptEffect
<1>3. UNCHANGED <<turnTask, queued, computeTask, pending>>
      /\ (handler' = handler \/ (handler' = [at |-> "saving", on |-> current] /\ current # NoTurn))
  BY DEF Interrupt, queueVars
<1>4. RestTypesOK'
  <2>1. handler' \in Handler
    BY <1>1, <1>3 DEF RestTypesOK, Handler
  <2>2. partial' \subseteq Turns /\ interrupts' \in 0 .. MaxInterrupts
    <3>1. partial \subseteq Turns /\ interrupts \in 0 .. MaxInterrupts /\ MaxInterrupts \in Nat
      BY <1>1, TurnsAssumption DEF RestTypesOK
    <3>2. interrupts < MaxInterrupts /\ interrupts' = interrupts + 1 /\ (partial' = partial \/ partial' = {})
      BY DEF Interrupt
    <3>3. interrupts' \in 0 .. MaxInterrupts
      BY <3>1, <3>2
    <3>4. QED
      BY <3>1, <3>2, <3>3
  <2>3. QED
    BY <1>1, <2>1, <2>2 DEF RestTypesOK, Interrupt, queueVars
<1>5. ShapesOK'
  <2>1. ASSUME NEW n \in Turns PROVE ShapeOK(turn'[n])
    <3>1. InterruptedAs(turn'[n], n) /\ ShapeOK(turn[n]) /\ turn[n] \in Turn
      BY <1>1, <1>2 DEF IInv, ShapesOK
    <3>2. QED
      BY <3>1, TurnNumbers DEF InterruptedAs, ShapeOK, KindFits, Alive
  <2>2. QED
    BY <2>1 DEF ShapesOK
<1>6. OneUserTurn'
  BY <1>2, <1>3 DEF IInv, OneUserTurn, IsUserTurn, Alive, InterruptedAs
<1>7. QueueOK'
  BY <1>1, <1>2, <1>3 DEF IInv, QueueOK, InterruptedAs
<1>8. HandlerOK'
  <2>1. handler.at = "delivering" => handler.on \in Turns
    BY DEF IInv, TypeOK, Handler, HandlerOK
  <2>2. QED
    BY <1>2, <1>3, <2>1 DEF IInv, HandlerOK, InterruptedAs
<1>9. QED
  BY <1>2, <1>4, <1>5, <1>6, <1>7, <1>8 DEF IInv, TypeOK, RestTypesOK

LEMMA InterruptSavedEffect ==
  ASSUME IInv, InterruptSaved
  PROVE  LET n == handler.on
             r == [turn[n] EXCEPT !.rows = turn[n].rows + 1]
         IN  /\ n \in Turns /\ r \in Turn /\ Edits(n, r)
             /\ r.kind = turn[n].kind /\ r.at = turn[n].at /\ r.fed = turn[n].fed /\ r.voice = turn[n].voice
             /\ r.silenced = turn[n].silenced /\ r.cancelled = turn[n].cancelled /\ r.on = turn[n].on
<1>1. PICK n \in Turns : n = handler.on
  BY DEF IInv, HandlerOK, TypeOK, Handler, InterruptSaved
<1>2. turn[n] \in Turn
  BY TypedTurns DEF IInv
<1>3. turn[n].rows + 1 \in Nat
  BY <1>2 DEF Turn
<1>4. Edits(n, [turn[n] EXCEPT !.rows = turn[n].rows + 1])
  BY <1>1, <1>2 DEF InterruptSaved, Edits
<1>5. QED
  BY <1>1, <1>2, <1>3, <1>4 DEF Turn

LEMMA InterruptSavedKeeps ==
  ASSUME IInv, InterruptSaved PROVE IInv'
<1>1. TypeOK /\ RestTypesOK /\ turn \in [Turns -> Turn] /\ queued \in Turns \cup {NoTurn}
      /\ pending \in Turns \cup {NoTurn} /\ computeTask \in Turns \cup {NoTurn}
  BY TypesSplit DEF IInv, RestTypesOK
<1>2. PICK n \in Turns, r \in Turn :
        /\ Edits(n, r) /\ r.kind = turn[n].kind /\ r.at = turn[n].at /\ r.fed = turn[n].fed /\ r.voice = turn[n].voice
        /\ r.silenced = turn[n].silenced /\ r.cancelled = turn[n].cancelled
  BY InterruptSavedEffect
<1>3. turn' \in [Turns -> Turn] /\ turn'[n] = r /\ \A m \in Turns \ {n} : turn'[m] = turn[m]
  BY <1>1, <1>2, EditEffect DEF StepOf
<1>4. handler' = AtRest /\ persisted' = TRUE /\ partial' = {} /\ UNCHANGED <<turnTask, queueVars, clientVars, grace, speechVars>>
  BY DEF InterruptSaved
<1>5. TypeOK'
  BY <1>1, <1>3, <1>4 DEF TypeOK, RestTypesOK, AtRest, Handler, queueVars, clientVars, speechVars
<1>6. \A m \in Turns : ShapeOK(turn'[m]) /\ turn'[m].kind = turn[m].kind /\ turn'[m].at = turn[m].at
  BY <1>2, <1>3 DEF IInv, ShapesOK, ShapeOK, KindFits
<1>7. ShapesOK' /\ OneUserTurn'
  BY <1>4, <1>6 DEF IInv, ShapesOK, OneUserTurn, IsUserTurn, Alive
<1>8. QueueOK'
  BY <1>1, <1>4, <1>6 DEF IInv, QueueOK, queueVars
<1>9. HandlerOK'
  BY <1>4 DEF HandlerOK, AtRest
<1>10. QED
  BY <1>5, <1>7, <1>8, <1>9 DEF IInv

(* Steps that leave the turns alone                                          *)
StillStep == AudioStart \/ AudioEndsEmpty \/ PlaybackStarts \/ GraceOver

LEMMA StillKeeps ==
  ASSUME IInv, StillStep \/ \E n \in Turns : Sounds(n) PROVE IInv'
<1>1. TypeOK /\ RestTypesOK /\ UNCHANGED <<turn, turnTask, queued, computeTask, pending, handler>>
  <2>1. TypeOK /\ RestTypesOK
    BY TypesSplit DEF IInv
  <2>2. UNCHANGED <<turn, turnTask, queued, computeTask, pending, handler>>
    BY DEF StillStep, Sounds, AudioStart, AudioEndsEmpty, PlaybackStarts, GraceOver, queueVars
  <2>3. QED
    BY <2>1, <2>2
<1>2. RestTypesOK'
  <2>1. CASE \E n \in Turns : Sounds(n)
    BY <1>1, <2>1 DEF RestTypesOK, Sounds, queueVars, clientVars, replyVars
  <2>2. CASE AudioStart \/ AudioEndsEmpty
    BY <1>1, <2>2 DEF RestTypesOK, AudioStart, AudioEndsEmpty, queueVars, replyVars
  <2>3. CASE PlaybackStarts \/ GraceOver
    BY <1>1, <2>3 DEF RestTypesOK, PlaybackStarts, GraceOver, queueVars, clientVars, replyVars, speechVars
  <2>4. QED
    BY <2>1, <2>2, <2>3 DEF StillStep
<1>3. QED
  BY <1>1, <1>2, TypesSplit DEF IInv, TypeOK, RestTypesOK, ShapesOK, QueueOK, HandlerOK, OneUserTurn, IsUserTurn, Alive

(* Every step is one of these.                                                *)
LEMMA NextCases ==
  ASSUME Next
  PROVE  \/ HandlerJoined \/ InterruptSaved \/ HandlerDelivered \/ PlaybackStops \/ Interrupt
         \/ AudioStart \/ AudioEndsEmpty \/ PlaybackStarts \/ GraceOver
         \/ \E n \in Turns :
              \/ VoiceBegins(n) \/ ChatBegins(n) \/ ProactiveBegins(n) \/ Token(n)
              \/ PipelineSpeaks(n) \/ PipelineDrains(n) \/ Sounds(n)
              \/ Answers(n) \/ RowStored(n) \/ SpeaksWhole(n) \/ HearsNothing(n) \/ CancelledEarly(n)
              \/ Unwinds(n) \/ Salvages(n) \/ Flushes(n)
              \/ Tells(n) \/ Fails(n) \/ NothingToSalvage(n) \/ Saved(n) \/ CancelledLate(n)
              \/ ComputeAnswers(n) \/ ComputeDelivers(n) \/ ComputeCancelled(n) \/ Joined(n)
              \/ ChatRequeues(n) \/ ComputeFails(n) \/ AudioEnd(n) \/ ChatStarts(n) \/ ChatQueues(n)
  BY DEF Next, Replies, Pipeline, Message, HandlerGoesOn

LEMMA BeginsKeep ==
  ASSUME IInv, NEW n \in Turns, VoiceBegins(n) \/ ChatBegins(n) PROVE IInv'
<1>1. (\E via : Begin(n, via)) /\ UNCHANGED turnTask /\ turn[n].at \in {"hearing", "created"}
  BY DEF VoiceBegins, ChatBegins
<1>2. QED
  BY <1>1, BeginKeeps

LEMMA NextKeeps ==
  ASSUME IInv, Next PROVE IInv'
<1>1. CASE HandlerJoined \/ InterruptSaved \/ HandlerDelivered \/ PlaybackStops \/ Interrupt
  BY <1>1, HandlerJoinedKeeps, InterruptSavedKeeps, HandlerDeliveredKeeps, PlaybackStopsKeeps, InterruptKeeps
<1>2. ASSUME NEW n \in Turns, VoiceBegins(n) \/ ChatBegins(n) \/ ProactiveBegins(n) \/ Token(n)
                              \/ PipelineSpeaks(n) \/ PipelineDrains(n) \/ Sounds(n)
      PROVE  IInv'
  BY <1>2, BeginsKeep, ProactiveKeeps, TokenKeeps, PipelineKeeps, StillKeeps
<1>3. ASSUME NEW n \in Turns, \/ Answers(n) \/ RowStored(n) \/ SpeaksWhole(n) \/ HearsNothing(n) \/ CancelledEarly(n)
                              \/ Unwinds(n) \/ Salvages(n) \/ Flushes(n)
      PROVE  IInv'
  BY <1>3, ReplyingKeeps
<1>4. ASSUME NEW n \in Turns, Tells(n) \/ Fails(n) \/ NothingToSalvage(n) \/ Saved(n) \/ CancelledLate(n)
      PROVE  IInv'
  BY <1>4, TurnEndsKeeps
<1>5. ASSUME NEW n \in Turns, ComputeAnswers(n) \/ ComputeDelivers(n) \/ ComputeCancelled(n) \/ Joined(n)
      PROVE  IInv'
  BY <1>5, ComputeKeeps
<1>6. ASSUME NEW n \in Turns, ChatRequeues(n) \/ ComputeFails(n) \/ AudioEnd(n) \/ ChatStarts(n) \/ ChatQueues(n)
      PROVE  IInv'
  BY <1>6, RequeuesKeeps, UserTurnsKeep, ChatQueuesKeeps
<1>7. CASE AudioStart \/ AudioEndsEmpty \/ PlaybackStarts \/ GraceOver
  BY <1>7, StillKeeps DEF StillStep
<1>8. QED
  BY <1>1, <1>2, <1>3, <1>4, <1>5, <1>6, <1>7, NextCases

LEMMA InitKeeps == ASSUME Init PROVE IInv
<1>1. Fresh \in Turn /\ Fresh.kind = "none" /\ Fresh.at = "unused" /\ ~Fresh.fed /\ ~Fresh.silenced
  BY DEF Fresh, Turn, Stage
<1>2. turn \in [Turns -> Turn] /\ \A n \in Turns : turn[n] = Fresh
  BY <1>1 DEF Init
<1>3. TypeOK
  <2>1. handler \in Handler
    BY DEF Init, AtRest, Handler
  <2>2. interrupts \in 0 .. MaxInterrupts
    BY TurnsAssumption DEF Init
  <2>3. /\ {turnTask, queued, computeTask, pending, current, heard} \subseteq Turns \cup {NoTurn}
        /\ {deferred, capturing, playback, grace, persisted, ttsCancel} \subseteq BOOLEAN
        /\ partial \subseteq Turns /\ speech \in {"idle", "listening", "thinking", "speaking"}
    BY DEF Init
  <2>4. QED
    BY <1>2, <2>1, <2>2, <2>3 DEF TypeOK
<1>4. ShapesOK /\ OneUserTurn
  BY <1>1, <1>2 DEF ShapesOK, ShapeOK, KindFits, OneUserTurn, IsUserTurn, InReply
<1>5. QueueOK /\ HandlerOK
  BY DEF Init, QueueOK, HandlerOK, AtRest
<1>6. QED
  BY <1>3, <1>4, <1>5 DEF IInv

THEOREM Inductive == Spec => []IInv
<1>1. Init => IInv
  BY InitKeeps
<1>2. IInv /\ [Next]_vars => IInv'
  <2>1. ASSUME IInv, UNCHANGED vars PROVE IInv'
    BY <2>1 DEF vars, IInv, TypeOK, ShapesOK, QueueOK, HandlerOK, OneUserTurn, IsUserTurn, Alive
  <2>2. QED
    BY <2>1, NextKeeps
<1>3. QED
  BY <1>1, <1>2, PTL DEF Spec

(* Every reachable state is well typed, for any number of turns and           *)
(* interrupts and whatever happens.                                          *)
THEOREM TypesHold == Spec => []TypeOK
<1>1. IInv => TypeOK
  BY DEF IInv
<1>2. QED
  BY <1>1, Inductive, PTL

(* At most one voice or typed turn is under way, and it is session.turn_task, *)
(* which an interrupt cancels: whatever fails, is queued, requeued or         *)
(* interrupted.                                                              *)
THEOREM OneUserTurnHolds == Spec => []OneUserTurn
<1>1. IInv => OneUserTurn
  BY DEF IInv
<1>2. QED
  BY <1>1, Inductive, PTL

-----------------------------------------------------------------------------
(* What the steps leave in the record of the turn that acts, the others being *)
(* as they were.                                                             *)
View(n, kind, at, fed, cancelled, rows) ==
  /\ turn' \in [Turns -> Turn] /\ \A m \in Turns \ {n} : turn'[m] = turn[m]
  /\ turn'[n].kind = kind /\ turn'[n].at = at /\ turn'[n].fed = fed
  /\ turn'[n].cancelled = cancelled /\ turn'[n].rows = rows
  /\ turn'[n].silenced = turn[n].silenced /\ turn'[n].on = turn[n].on /\ turn'[n].voice \in BOOLEAN

LEMMA EditViews ==
  ASSUME TypeOK, NEW n \in Turns, NEW r \in Turn, Edits(n, r), r.silenced = turn[n].silenced /\ r.on = turn[n].on
  PROVE  View(n, r.kind, r.at, r.fed, r.cancelled, r.rows)
<1>1. turn' \in [Turns -> Turn] /\ turn'[n] = r /\ \A m \in Turns \ {n} : turn'[m] = turn[m]
  BY EditEffect DEF StepOf
<1>2. r.voice \in BOOLEAN
  BY DEF Turn
<1>3. QED
  BY <1>1, <1>2 DEF View

LEMMA BeginView ==
  ASSUME TypeOK, NEW n \in Turns, NEW kind \in {"none", "voice", "chat", "compute", "handled", "proactive"},
         \E v \in BOOLEAN : Edits(n, BegunAs(n, kind, v)) /\ BegunAs(n, kind, v) \in Turn
  PROVE  View(n, kind, "thinking", turn[n].fed, turn[n].cancelled, turn[n].rows)
<1>1. PICK v \in BOOLEAN : Edits(n, BegunAs(n, kind, v)) /\ BegunAs(n, kind, v) \in Turn
  OBVIOUS
<1> DEFINE r == BegunAs(n, kind, v)
<1>2. turn[n] \in Turn
  BY TypedTurns
<1>3. /\ r.kind = kind /\ r.at = "thinking" /\ r.fed = turn[n].fed /\ r.cancelled = turn[n].cancelled
      /\ r.rows = turn[n].rows /\ r.silenced = turn[n].silenced /\ r.on = turn[n].on
  BY <1>2 DEF BegunAs, Turn
<1> HIDE DEF r
<1>4. r \in Turn /\ Edits(n, r)
  BY <1>1 DEF r
<1>5. QED
  BY <1>3, <1>4, EditViews

LEMMA BeginsView ==
  ASSUME TypeOK, NEW n \in Turns, VoiceBegins(n) \/ ChatBegins(n)
  PROVE  View(n, turn[n].kind, "thinking", turn[n].fed, turn[n].cancelled, turn[n].rows)
<1>1. turn[n].kind \in {"none", "voice", "chat", "compute", "handled", "proactive"}
  BY TypedTurns DEF Turn
<1>2. PICK via : Begin(n, via)
  BY DEF VoiceBegins, ChatBegins
<1>3. QED
  BY <1>1, <1>2, BeginEffect, BeginView

LEMMA ProactiveView ==
  ASSUME TypeOK, NEW n \in Turns, ProactiveBegins(n)
  PROVE  View(n, "proactive", "thinking", turn[n].fed, turn[n].cancelled, turn[n].rows)
  BY ProactiveEffect, BeginView

(* The pipeline of a turn.                                                    *)
LEMMA FeedView ==
  ASSUME TypeOK, NEW n \in Turns
  PROVE  /\ Token(n) => View(n, turn[n].kind, "thinking", turn[n].voice, turn[n].cancelled, turn[n].rows)
         /\ PipelineSpeaks(n) => View(n, turn[n].kind, turn[n].at, turn[n].fed, turn[n].cancelled, turn[n].rows)
         /\ PipelineDrains(n) => View(n, turn[n].kind, turn[n].at, FALSE, turn[n].cancelled, turn[n].rows)
<1>1. turn[n] \in Turn /\ turn[n].rows + 1 \in Nat
  <2>1. turn[n] \in Turn /\ turn[n].rows \in Nat
    BY TypedTurns DEF Turn
  <2>2. QED
    BY <2>1
<1>2. ASSUME Token(n) PROVE View(n, turn[n].kind, "thinking", turn[n].voice, turn[n].cancelled, turn[n].rows)
  <2> DEFINE r == [turn[n] EXCEPT !.fed = turn[n].voice]
  <2>1. /\ r \in Turn /\ r.kind = turn[n].kind /\ r.at = "thinking" /\ r.fed = turn[n].voice
        /\ r.cancelled = turn[n].cancelled /\ r.rows = turn[n].rows /\ r.silenced = turn[n].silenced /\ r.on = turn[n].on
    BY <1>1, <1>2 DEF Turn, Stage, InReply, Token
  <2>2. Edits(n, r)
    BY <1>2, ReplyEdits
  <2> HIDE DEF r
  <2>3. QED
    BY <2>1, <2>2, EditViews
<1>3. ASSUME PipelineSpeaks(n) PROVE View(n, turn[n].kind, turn[n].at, turn[n].fed, turn[n].cancelled, turn[n].rows)
  <2> DEFINE r == [turn[n] EXCEPT !.started = TRUE]
  <2>1. /\ r \in Turn /\ r.kind = turn[n].kind /\ r.at = turn[n].at /\ r.fed = turn[n].fed
        /\ r.cancelled = turn[n].cancelled /\ r.rows = turn[n].rows /\ r.silenced = turn[n].silenced /\ r.on = turn[n].on
    BY <1>1, <1>3 DEF Turn, Stage, InReply, PipelineSpeaks
  <2>2. Edits(n, r)
    BY <1>3, ReplyEdits
  <2> HIDE DEF r
  <2>3. QED
    BY <2>1, <2>2, EditViews
<1>4. ASSUME PipelineDrains(n) PROVE View(n, turn[n].kind, turn[n].at, FALSE, turn[n].cancelled, turn[n].rows)
  <2> DEFINE r == [turn[n] EXCEPT !.fed = FALSE]
  <2>1. /\ r \in Turn /\ r.kind = turn[n].kind /\ r.at = turn[n].at /\ r.fed = FALSE
        /\ r.cancelled = turn[n].cancelled /\ r.rows = turn[n].rows /\ r.silenced = turn[n].silenced /\ r.on = turn[n].on
    BY <1>1, <1>4 DEF Turn, Stage, InReply, PipelineDrains
  <2>2. Edits(n, r)
    BY <1>4, ReplyEdits
  <2> HIDE DEF r
  <2>3. QED
    BY <2>1, <2>2, EditViews
<1>5. QED
  BY <1>2, <1>3, <1>4

(* A reply, and what cuts it short.                                           *)
LEMMA ReplyView ==
  ASSUME TypeOK, NEW n \in Turns
  PROVE  /\ Answers(n) => View(n, turn[n].kind, "storing", turn[n].fed, turn[n].cancelled, turn[n].rows)
         /\ RowStored(n) => View(n, turn[n].kind, "stored", turn[n].fed, turn[n].cancelled, turn[n].rows + 1)
         /\ SpeaksWhole(n) => View(n, turn[n].kind, "batch", turn[n].fed, turn[n].cancelled, turn[n].rows)
         /\ (HearsNothing(n) \/ CancelledEarly(n)) => View(n, turn[n].kind, "gone", turn[n].fed, FALSE, turn[n].rows)
         /\ Unwinds(n) => View(n, turn[n].kind, "unwinding", turn[n].fed, FALSE, turn[n].rows)
         /\ Salvages(n) => View(n, turn[n].kind, "saving", turn[n].fed, FALSE, turn[n].rows)
         /\ (ChatRequeues(n) \/ ComputeFails(n)) => View(n, turn[n].kind, "waiting", turn[n].fed, turn[n].cancelled, turn[n].rows)
<1>1. turn[n] \in Turn /\ turn[n].rows + 1 \in Nat
  <2>1. turn[n] \in Turn /\ turn[n].rows \in Nat
    BY TypedTurns DEF Turn
  <2>2. QED
    BY <2>1
<1>2. ASSUME Answers(n) PROVE View(n, turn[n].kind, "storing", turn[n].fed, turn[n].cancelled, turn[n].rows)
  <2> DEFINE r == [turn[n] EXCEPT !.at = "storing"]
  <2>1. /\ r \in Turn /\ r.kind = turn[n].kind /\ r.at = "storing" /\ r.fed = turn[n].fed
        /\ r.cancelled = turn[n].cancelled /\ r.rows = turn[n].rows /\ r.silenced = turn[n].silenced /\ r.on = turn[n].on
    BY <1>1, <1>2 DEF Turn, Stage, InReply, Answers, Moves
  <2>2. Edits(n, r)
    BY <1>2, ReplyEdits
  <2> HIDE DEF r
  <2>3. QED
    BY <2>1, <2>2, EditViews
<1>3. ASSUME RowStored(n) PROVE View(n, turn[n].kind, "stored", turn[n].fed, turn[n].cancelled, turn[n].rows + 1)
  <2> DEFINE r == [turn[n] EXCEPT !.at = "stored", !.rows = turn[n].rows + 1]
  <2>1. /\ r \in Turn /\ r.kind = turn[n].kind /\ r.at = "stored" /\ r.fed = turn[n].fed
        /\ r.cancelled = turn[n].cancelled /\ r.rows = turn[n].rows + 1 /\ r.silenced = turn[n].silenced /\ r.on = turn[n].on
    BY <1>1, <1>3 DEF Turn, Stage, InReply, RowStored, Moves
  <2>2. Edits(n, r)
    BY <1>3, ReplyEdits
  <2> HIDE DEF r
  <2>3. QED
    BY <2>1, <2>2, EditViews
<1>4. ASSUME SpeaksWhole(n) PROVE View(n, turn[n].kind, "batch", turn[n].fed, turn[n].cancelled, turn[n].rows)
  <2> DEFINE r == [turn[n] EXCEPT !.at = "batch", !.started = TRUE]
  <2>1. /\ r \in Turn /\ r.kind = turn[n].kind /\ r.at = "batch" /\ r.fed = turn[n].fed
        /\ r.cancelled = turn[n].cancelled /\ r.rows = turn[n].rows /\ r.silenced = turn[n].silenced /\ r.on = turn[n].on
    BY <1>1, <1>4 DEF Turn, Stage, InReply, SpeaksWhole
  <2>2. Edits(n, r)
    BY <1>4, ReplyEdits
  <2> HIDE DEF r
  <2>3. QED
    BY <2>1, <2>2, EditViews
<1>5. ASSUME HearsNothing(n) \/ CancelledEarly(n) PROVE View(n, turn[n].kind, "gone", turn[n].fed, FALSE, turn[n].rows)
  <2> DEFINE r == [turn[n] EXCEPT !.at = "gone", !.cancelled = FALSE]
  <2>1. /\ r \in Turn /\ r.kind = turn[n].kind /\ r.at = "gone" /\ r.fed = turn[n].fed
        /\ r.cancelled = FALSE /\ r.rows = turn[n].rows /\ r.silenced = turn[n].silenced /\ r.on = turn[n].on
    BY <1>1, <1>5 DEF Turn, Stage, InReply, HearsNothing, CancelledEarly
  <2>2. Edits(n, r)
    BY <1>5, ReplyEdits
  <2> HIDE DEF r
  <2>3. QED
    BY <2>1, <2>2, EditViews
<1>6. ASSUME Unwinds(n) PROVE View(n, turn[n].kind, "unwinding", turn[n].fed, FALSE, turn[n].rows)
  <2> DEFINE r == [turn[n] EXCEPT !.at = "unwinding", !.cancelled = FALSE]
  <2>1. /\ r \in Turn /\ r.kind = turn[n].kind /\ r.at = "unwinding" /\ r.fed = turn[n].fed
        /\ r.cancelled = FALSE /\ r.rows = turn[n].rows /\ r.silenced = turn[n].silenced /\ r.on = turn[n].on
    BY <1>1, <1>6 DEF Turn, Stage, InReply, Unwinds
  <2>2. Edits(n, r)
    BY <1>6, ReplyEdits
  <2> HIDE DEF r
  <2>3. QED
    BY <2>1, <2>2, EditViews
<1>7. ASSUME Salvages(n) PROVE View(n, turn[n].kind, "saving", turn[n].fed, FALSE, turn[n].rows)
  <2> DEFINE r == [turn[n] EXCEPT !.at = "saving", !.told = "partial", !.cancelled = FALSE]
  <2>1. /\ r \in Turn /\ r.kind = turn[n].kind /\ r.at = "saving" /\ r.fed = turn[n].fed
        /\ r.cancelled = FALSE /\ r.rows = turn[n].rows /\ r.silenced = turn[n].silenced /\ r.on = turn[n].on
    BY <1>1, <1>7 DEF Turn, Stage, InReply, Salvages
  <2>2. Edits(n, r)
    BY <1>7, ReplyEdits
  <2> HIDE DEF r
  <2>3. QED
    BY <2>1, <2>2, EditViews
<1>8. ASSUME ChatRequeues(n) \/ ComputeFails(n) PROVE View(n, turn[n].kind, "waiting", turn[n].fed, turn[n].cancelled, turn[n].rows)
  <2> DEFINE r == [turn[n] EXCEPT !.at = "waiting"]
  <2>1. /\ r \in Turn /\ r.kind = turn[n].kind /\ r.at = "waiting" /\ r.fed = turn[n].fed
        /\ r.cancelled = turn[n].cancelled /\ r.rows = turn[n].rows /\ r.silenced = turn[n].silenced /\ r.on = turn[n].on
    BY <1>1, <1>8 DEF Turn, Stage, InReply, ChatRequeues, ComputeFails
  <2>2. Edits(n, r)
    BY <1>8, ReplyEdits
  <2> HIDE DEF r
  <2>3. QED
    BY <2>1, <2>2, EditViews
<1>9. QED
  BY <1>2, <1>3, <1>4, <1>5, <1>6, <1>7, <1>8

LEMMA FlushView ==
  ASSUME TypeOK, NEW n \in Turns, Flushes(n)
  PROVE  \E fed \in BOOLEAN :
           /\ View(n, turn[n].kind, "flushing", fed, turn[n].cancelled, turn[n].rows)
           /\ fed => turn[n].fed \/ ~ttsCancel
<1>1. turn[n] \in Turn
  BY TypedTurns
<1>2. PICK tail \in BOOLEAN :
        turn' = [turn EXCEPT ![n].at = "flushing", ![n].fed = @ \/ (tail /\ ~ttsCancel)]
  BY DEF Flushes
<1>3. PICK f \in BOOLEAN : f = (turn[n].fed \/ (tail /\ ~ttsCancel))
  OBVIOUS
<1> DEFINE r == [turn[n] EXCEPT !.at = "flushing", !.fed = f]
<1>4. Edits(n, r)
  BY <1>1, <1>2, <1>3, TypedTurns DEF Edits
<1>5. /\ r \in Turn /\ r.kind = turn[n].kind /\ r.at = "flushing" /\ r.fed = f
      /\ r.cancelled = turn[n].cancelled /\ r.rows = turn[n].rows /\ r.silenced = turn[n].silenced /\ r.on = turn[n].on
  BY <1>1 DEF Turn, Stage, InReply
<1> HIDE DEF r
<1>6. View(n, turn[n].kind, "flushing", f, turn[n].cancelled, turn[n].rows)
  BY <1>4, <1>5, EditViews
<1>7. QED
  BY <1>3, <1>6

(* A turn or a compute task of the user starts.                               *)
LEMMA StartView ==
  ASSUME TypeOK, NEW n \in Turns, NEW kind, NEW at, StartedAs(n, kind, at) \in Turn
  PROVE  LET r == StartedAs(n, kind, at)
         IN  /\ r.kind = kind /\ r.at = at /\ r.fed = turn[n].fed /\ r.cancelled = turn[n].cancelled
             /\ r.rows = turn[n].rows /\ r.silenced = turn[n].silenced /\ r.on = turn[n].on
<1>1. turn[n] \in Turn
  BY TypedTurns
<1>2. QED
  BY <1>1 DEF StartedAs, Turn

LEMMA UserStartView ==
  ASSUME TypeOK, NEW n \in Turns, AudioEnd(n) \/ ChatStarts(n)
  PROVE  \/ turn' = turn /\ turnTask' = turnTask
         \/ turnTask' = n /\ AudioEnd(n) /\ View(n, "voice", "hearing", turn[n].fed, turn[n].cancelled, turn[n].rows)
         \/ turnTask' = n /\ ChatStarts(n) /\ View(n, "chat", "created", turn[n].fed, turn[n].cancelled, turn[n].rows)
<1>1. turn[n] \in Turn
  BY TypedTurns
<1>2. StartedAs(n, "voice", "hearing") \in Turn /\ StartedAs(n, "chat", "created") \in Turn
  BY <1>1 DEF StartedAs, Turn, Stage
<1>3. ASSUME Edits(n, StartedAs(n, "voice", "hearing"))
      PROVE  View(n, "voice", "hearing", turn[n].fed, turn[n].cancelled, turn[n].rows)
  BY <1>2, <1>3, StartView, EditViews
<1>4. ASSUME Edits(n, StartedAs(n, "chat", "created"))
      PROVE  View(n, "chat", "created", turn[n].fed, turn[n].cancelled, turn[n].rows)
  BY <1>2, <1>4, StartView, EditViews
<1>5. QED
  BY <1>3, <1>4 DEF AudioEnd, ChatStarts, Edits, StartedAs

(* The queued chat that answers at once is spoken; a compute task cancelled.  *)
LEMMA SpeaksView ==
  ASSUME TypeOK, NEW n \in Turns, Speaks(n)
  PROVE  View(n, turn[n].kind, "delivering", turn[n].fed, turn[n].cancelled, turn[n].rows + 1)
<1> DEFINE r == SpeaksAt(n)
<1>1. turn[n] \in Turn /\ turn[n].rows + 1 \in Nat
  <2>1. turn[n] \in Turn /\ turn[n].rows \in Nat
    BY TypedTurns DEF Turn
  <2>2. QED
    BY <2>1
<1>2. /\ r.kind = turn[n].kind /\ r.at = "delivering" /\ r.fed = turn[n].fed /\ r.cancelled = turn[n].cancelled
      /\ r.rows = turn[n].rows + 1 /\ r.silenced = turn[n].silenced /\ r.on = turn[n].on
  BY <1>1 DEF SpeaksAt, Turn
<1>3. r \in Turn /\ Edits(n, r)
  BY DEF Speaks
<1> HIDE DEF r
<1>4. QED
  BY <1>2, <1>3, EditViews

LEMMA ChatQueuesView ==
  ASSUME IInv, NEW n \in Turns, ChatQueues(n)
  PROVE  /\ StepOf(n) /\ (queued' = n \/ queued' = NoTurn)
         /\ \/ turn'[n].kind = "chat" /\ turn'[n].at = "waiting" /\ queued' = n
            \/ turn'[n].kind = "compute" /\ turn'[n].at = "computing"
         /\ turn'[n].fed = turn[n].fed /\ turn'[n].cancelled = turn[n].cancelled
         /\ turn'[n].rows = turn[n].rows /\ turn'[n].silenced = turn[n].silenced
<1>1. turn[n] \in Turn /\ TypeOK
  BY TypedTurns DEF IInv
<1>2. StepOf(n) /\ (ChatWaits(n) \/ ChatComputes(n))
  BY ChatQueuesEffect
<1>3. StartedAs(n, "chat", "waiting") \in Turn /\ StartedAs(n, "compute", "computing") \in Turn
  BY <1>1 DEF StartedAs, Turn, Stage
<1>4. QED
  BY <1>1, <1>2, <1>3, StartView DEF ChatWaits, ChatComputes

(* A turn beside the one that acts.                                           *)
Bystander(m) ==
  /\ turn'[m].fed = turn[m].fed /\ turn'[m].rows = turn[m].rows /\ turn'[m].silenced = turn[m].silenced
  /\ turn[m].cancelled => turn'[m].cancelled
  /\ \/ /\ turn'[m].kind = turn[m].kind /\ turn'[m].at = turn[m].at
        /\ turn'[m].cancelled => turn[m].cancelled \/ turn[m].kind \in QueuedKinds
     \/ /\ m = queued /\ turn[m].at = "waiting" /\ queued' = NoTurn
        /\ turn'[m].kind = "compute" /\ turn'[m].at = "computing"

LEMMA BesideView ==
  ASSUME IInv, NEW m \in Turns, Beside(m) PROVE Bystander(m)
<1>1. /\ turn[m] \in Turn /\ (m = queued => turn[m].at = "waiting")
      /\ (m = computeTask => turn[m].kind \in QueuedKinds)
  BY TypedTurns, TurnNumbers DEF IInv, QueueOK
<1>2. CASE turn'[m] = turn[m]
  BY <1>1, <1>2 DEF Bystander
<1>3. CASE m = computeTask /\ turn'[m] = [turn[m] EXCEPT !.cancelled = TRUE]
  <2>1. /\ turn'[m].at = turn[m].at /\ turn'[m].kind = turn[m].kind /\ turn'[m].cancelled
        /\ turn'[m].fed = turn[m].fed /\ turn'[m].rows = turn[m].rows /\ turn'[m].silenced = turn[m].silenced
    BY <1>1, <1>3 DEF Turn
  <2>2. QED
    BY <1>1, <1>3, <2>1 DEF Bystander
<1>4. CASE m = queued /\ queued' = NoTurn /\ turn'[m] = [turn[m] EXCEPT !.kind = "compute", !.at = "computing"]
  <2>1. /\ turn'[m].at = "computing" /\ turn'[m].kind = "compute" /\ turn'[m].cancelled = turn[m].cancelled
        /\ turn'[m].fed = turn[m].fed /\ turn'[m].rows = turn[m].rows /\ turn'[m].silenced = turn[m].silenced
    BY <1>1, <1>4 DEF Turn
  <2>2. QED
    BY <1>1, <1>4, <2>1 DEF Bystander
<1>5. QED
  BY <1>2, <1>3, <1>4 DEF Beside

(* A reply of a queued chat that the inbound loop takes up or is done with.   *)
Handled(m) ==
  /\ turn[m].kind \in QueuedKinds /\ turn'[m].kind \in QueuedKinds
  /\ turn[m].at \in {"gone", "joining", "delivering"} /\ turn'[m].at \in {"gone", "joining", "delivering"}
  /\ ~turn[m].fed /\ ~turn'[m].fed
  /\ turn'[m].rows = turn[m].rows /\ turn'[m].silenced = turn[m].silenced

LEMMA DrainView ==
  ASSUME IInv, HandlerDelivered \/ PlaybackStops
  PROVE  /\ \A m \in Turns : Bystander(m) \/ Handled(m)
         /\ QueueMoves
         /\ turn' \in [Turns -> Turn]
<1>1. /\ turn \in [Turns -> Turn] /\ pending \in Turns \cup {NoTurn}
      /\ pending # NoTurn => /\ turn[pending].kind \in QueuedKinds /\ turn[pending].at \in {"gone", "joining"}
                             /\ ~turn[pending].fed
  BY TypedTurns DEF IInv, QueueOK, ShapesOK, ShapeOK
<1>2. (HandlerSpeaks \/ HandlerTells) => (pending # NoTurn => Handled(pending))
  <2>1. CASE HandlerSpeaks /\ pending # NoTurn
    <3>1. turn[pending] \in Turn
      BY <1>1, <2>1
    <3>2. /\ turn'[pending].kind = "handled" /\ turn'[pending].at = "delivering"
          /\ turn'[pending].fed = turn[pending].fed /\ turn'[pending].rows = turn[pending].rows
          /\ turn'[pending].silenced = turn[pending].silenced
      BY <2>1, <3>1 DEF HandlerSpeaks, Turn
    <3>3. QED
      BY <1>1, <2>1, <3>2 DEF Handled, QueuedKinds
  <2>2. CASE HandlerTells /\ pending # NoTurn
    BY <1>1, <2>2 DEF HandlerTells, SameBut, Handled
  <2>3. QED
    BY <2>1, <2>2
<1>3. CASE HandlerDelivered
  <2>1. PICK n \in Turns : n = handler.on
    BY <1>3, OverValue DEF HandlerDelivered, OverFits
  <2>2. PICK t \in [Turns -> Turn] : t = Over(n)
    BY <1>3, <2>1, OverValue DEF HandlerDelivered, OverFits
  <2>3. OverFits(n, t) /\ Drained(t, n) /\ (HandlerSpeaks \/ HandlerTells)
    BY <1>3, <2>1, <2>2, OverValue, HandlerDeliveredEffect DEF HandlerDelivered
  <2>4. SameBut(n, t[n])
    BY <2>3, AsInSame, TurnNumbers DEF Drained
  <2>5. ~turn[n].fed /\ Handled(n)
    <3>1. ~turn[n].fed
      BY <2>3 DEF OverFits, IInv, ShapesOK, ShapeOK, FedAt
    <3>2. QED
      BY <2>3, <2>4, <3>1 DEF OverFits, SameBut, Handled, QueuedKinds
  <2>6. \A m \in Turns \ {n, pending} : Bystander(m)
    BY <2>3, BesideView DEF Drained
  <2>7. QED
    BY <1>1, <1>2, <2>3, <2>5, <2>6, TurnNumbers DEF Drained
<1>4. CASE PlaybackStops
  <2>1. Drained(turn, NoTurn) /\ (HandlerSpeaks \/ HandlerTells)
    BY <1>4, PlaybackStopsEffect
  <2>2. \A m \in Turns \ {NoTurn, pending} : Bystander(m)
    BY <2>1, BesideView DEF Drained
  <2>3. QED
    BY <1>1, <1>2, <2>1, <2>2, TurnNumbers DEF Drained
<1>5. QED
  BY <1>3, <1>4

-----------------------------------------------------------------------------
(* What is awaited will end                                                  *)
(* The turns, and the messages that only start one, leave the inbound loop    *)
(* where it is.                                                              *)
LEMMA LoopStands ==
  ASSUME NEW n \in Turns,
         \/ VoiceBegins(n) \/ ChatBegins(n) \/ ProactiveBegins(n) \/ Token(n)
         \/ PipelineSpeaks(n) \/ PipelineDrains(n) \/ Sounds(n)
         \/ Answers(n) \/ RowStored(n) \/ SpeaksWhole(n) \/ HearsNothing(n) \/ CancelledEarly(n)
         \/ Unwinds(n) \/ Salvages(n) \/ Flushes(n)
         \/ Tells(n) \/ Fails(n) \/ NothingToSalvage(n) \/ Saved(n) \/ CancelledLate(n)
         \/ ComputeAnswers(n) \/ ComputeDelivers(n) \/ ComputeCancelled(n) \/ Joined(n)
         \/ ChatRequeues(n) \/ ComputeFails(n) \/ AudioEnd(n) \/ ChatStarts(n)
  PROVE  handler' = handler
<1>1. CASE VoiceBegins(n) \/ ChatBegins(n)
  <2>1. \E via : Begin(n, via)
    BY <1>1 DEF VoiceBegins, ChatBegins
  <2>2. QED
    BY <2>1 DEF Begin
<1>2. CASE ProactiveBegins(n) \/ Token(n)
  BY <1>2 DEF ProactiveBegins, Token
<1>3. CASE PipelineSpeaks(n) \/ PipelineDrains(n) \/ Sounds(n)
  BY <1>3 DEF PipelineSpeaks, PipelineDrains, Sounds
<1>4. CASE Answers(n) \/ RowStored(n) \/ SpeaksWhole(n)
  BY <1>4 DEF Answers, RowStored, Moves, SpeaksWhole
<1>5. CASE HearsNothing(n) \/ CancelledEarly(n)
  BY <1>5 DEF HearsNothing, CancelledEarly
<1>6. CASE Unwinds(n) \/ Salvages(n) \/ Flushes(n)
  BY <1>6 DEF Unwinds, Salvages, Flushes
<1>7. CASE Tells(n) \/ Fails(n) \/ NothingToSalvage(n) \/ Saved(n) \/ CancelledLate(n)
  <2>1. \E t : EndTurn(n, t)
    BY <1>7 DEF Tells, Fails, NothingToSalvage, Saved, CancelledLate
  <2>2. QED
    BY <2>1 DEF EndTurn
<1>8. CASE ComputeAnswers(n) \/ ComputeDelivers(n)
  BY <1>8 DEF ComputeAnswers, ComputeDelivers
<1>9. CASE ComputeCancelled(n) \/ Joined(n)
  BY <1>9 DEF ComputeCancelled, Joined
<1>10. CASE ChatRequeues(n) \/ ComputeFails(n)
  BY <1>10 DEF ChatRequeues, ComputeFails
<1>11. CASE AudioEnd(n) \/ ChatStarts(n)
  BY <1>11 DEF AudioEnd, ChatStarts
<1>12. QED
  BY <1>1, <1>2, <1>3, <1>4, <1>5, <1>6, <1>7, <1>8, <1>9, <1>10, <1>11

AwaitedNext(m) ==
  /\ m \in Turns /\ m # pending'
  /\ turn'[m].at = "gone" \/ (turn'[m].cancelled /\ turn'[m].at \in {"computing", "delivering"})

RunsNext ==
  computeTask' # NoTurn =>
    turn'[computeTask'].kind = "compute" /\ turn'[computeTask'].at \in {"computing", "delivering"}

StillWaits(m) == turn[m].at = "joining" /\ turn'[m].on = turn[m].on

LEMMA AwaitStep ==
  ASSUME AwaitInv, RunsNext, \A m \in Turns : Awaited(m) => AwaitedNext(m),
         \A m \in Turns : turn'[m].at = "joining" => StillWaits(m) \/ AwaitedNext(turn'[m].on),
         handler'.at = "joining" => handler' = handler \/ AwaitedNext(handler'.on)
  PROVE  AwaitInv'
<1>1. RecordedRuns'
  BY DEF RunsNext, RecordedRuns
<1>2. ASSUME NEW m \in Turns, turn'[m].at = "joining" PROVE AwaitedNext(turn'[m].on)
  <2>1. CASE StillWaits(m)
    <3>1. Awaited(turn[m].on) /\ turn[m].on \in Turns
      BY <2>1 DEF StillWaits, AwaitInv, Awaited
    <3>2. QED
      BY <2>1, <3>1 DEF StillWaits
  <2>2. QED
    BY <1>2, <2>1
<1>3. ASSUME handler'.at = "joining" PROVE AwaitedNext(handler'.on)
  <2>1. CASE handler' = handler
    <3>1. Awaited(handler.on) /\ handler.on \in Turns
      BY <1>3, <2>1 DEF AwaitInv, Awaited
    <3>2. QED
      BY <2>1, <3>1
  <2>2. QED
    BY <1>3, <2>1
<1>4. QED
  BY <1>1, <1>2, <1>3 DEF AwaitInv, Awaited, AwaitedNext, WillEnd

LEMMA RecordedFacts ==
  ASSUME IInv, AwaitInv
  PROVE  /\ turn \in [Turns -> Turn] /\ computeTask \in Turns \cup {NoTurn} /\ queued \in Turns \cup {NoTurn}
         /\ pending \in Turns \cup {NoTurn} /\ NoTurn \notin Turns
         /\ computeTask # NoTurn => /\ turn[computeTask].kind = "compute"
                                    /\ turn[computeTask].at \in {"computing", "delivering"}
                                    /\ computeTask # pending /\ computeTask # queued
         /\ queued # NoTurn => turn[queued].at = "waiting"
         /\ pending # NoTurn => turn[pending].at \in {"gone", "joining"}
  BY TypedTurns, TurnNumbers DEF IInv, QueueOK, AwaitInv, RecordedRuns

LEMMA BesideAwaits ==
  ASSUME IInv, AwaitInv, NEW m \in Turns, Beside(m)
  PROVE  /\ turn'[m].at = "joining" => StillWaits(m)
         /\ Awaited(m) /\ m # pending' => AwaitedNext(m)
         /\ m = computeTask => turn'[m].kind = "compute" /\ turn'[m].at \in {"computing", "delivering"}
<1>1. turn[m] \in Turn
  BY RecordedFacts
<1>2. CASE turn'[m] = turn[m]
  BY <1>2, RecordedFacts DEF StillWaits, Awaited, AwaitedNext, WillEnd
<1>3. CASE m = computeTask /\ turn'[m] = [turn[m] EXCEPT !.cancelled = TRUE]
  <2>1. turn'[m].cancelled /\ turn'[m].at = turn[m].at /\ turn'[m].kind = turn[m].kind /\ turn'[m].on = turn[m].on
    BY <1>1, <1>3, CutTyped
  <2>2. QED
    BY <1>3, <2>1, RecordedFacts DEF StillWaits, Awaited, AwaitedNext, WillEnd
<1>4. CASE m = queued /\ turn'[m] = [turn[m] EXCEPT !.kind = "compute", !.at = "computing"]
  <2>1. turn'[m].at = "computing" /\ turn'[m].kind = "compute" /\ turn[m].at = "waiting"
    BY <1>1, <1>4, RecordedFacts DEF Turn
  <2>2. QED
    BY <2>1 DEF StillWaits, Awaited, WillEnd
<1>5. QED
  BY <1>2, <1>3, <1>4 DEF Beside

(* The compute task that a step has cancelled will end.                       *)
LEMMA CutAwaited ==
  ASSUME IInv, AwaitInv, NEW m, Cut(m), pending' # m PROVE AwaitedNext(m)
<1>1. m \in Turns /\ m = computeTask /\ turn[m] \in Turn /\ turn'[m] = [turn[m] EXCEPT !.cancelled = TRUE]
  BY RecordedFacts DEF Cut
<1>2. turn'[m].cancelled /\ turn'[m].at = turn[m].at
  BY <1>1, CutTyped
<1>3. QED
  BY <1>1, <1>2, RecordedFacts DEF AwaitedNext

LEMMA StepRuns ==
  ASSUME IInv, AwaitInv, NEW n, StepOf(n), computeTask' # n,
         QueueMoves \/ computeTask' \in {computeTask, NoTurn}
  PROVE  RunsNext
<1>1. CASE computeTask' \in {computeTask, NoTurn}
  <2>1. computeTask' # NoTurn => computeTask \in Turns \ {n} /\ Beside(computeTask)
    BY <1>1, RecordedFacts DEF StepOf
  <2>2. QED
    BY <1>1, <2>1, BesideAwaits DEF RunsNext
<1>2. CASE /\ queued # NoTurn /\ computeTask' \in {queued, NoTurn}
           /\ turn'[queued] = [turn[queued] EXCEPT !.kind = "compute", !.at = "computing"]
  <2>1. turn[queued] \in Turn
    BY <1>2, RecordedFacts
  <2>2. turn'[queued].kind = "compute" /\ turn'[queued].at = "computing"
    BY <1>2, <2>1 DEF Turn
  <2>3. QED
    BY <1>2, <2>2 DEF RunsNext
<1>3. QED
  BY <1>1, <1>2 DEF QueueMoves

(* A step of turn n, which is not awaited or is over.                         *)
LEMMA AwaitActor ==
  ASSUME IInv, AwaitInv, NEW n \in Turns, StepOf(n), RunsNext, handler' = handler,
         pending' \in {pending, NoTurn, n}, ~Awaited(n) \/ (turn'[n].at = "gone" /\ pending' # n),
         turn'[n].at = "joining" => StillWaits(n) \/ (turn'[n].on # n /\ Cut(turn'[n].on))
  PROVE  AwaitInv'
<1>1. ASSUME NEW m \in Turns, Awaited(m) PROVE AwaitedNext(m)
  <2>1. CASE m = n
    BY <1>1, <2>1 DEF AwaitedNext
  <2>2. CASE m # n
    <3>1. m # pending'
      BY <1>1, <2>2, RecordedFacts DEF Awaited
    <3>2. QED
      BY <1>1, <2>2, <3>1, BesideAwaits DEF StepOf
  <2>3. QED
    BY <2>1, <2>2
<1>2. ASSUME NEW m \in Turns, turn'[m].at = "joining" PROVE StillWaits(m) \/ AwaitedNext(turn'[m].on)
  <2>1. CASE m # n
    BY <1>2, <2>1, BesideAwaits DEF StepOf
  <2>2. CASE m = n /\ ~StillWaits(n)
    <3>1. PICK w : w = turn'[n].on
      OBVIOUS
    <3>2. w # n /\ Cut(w)
      BY <1>2, <2>2, <3>1
    <3>3. pending' # w
      BY <3>2, RecordedFacts DEF Cut
    <3>4. AwaitedNext(w)
      BY <3>2, <3>3, CutAwaited
    <3>5. QED
      BY <2>2, <3>1, <3>4
  <2>3. QED
    BY <2>1, <2>2
<1>3. QED
  BY <1>1, <1>2, AwaitStep

(* ... which does not end with it, or ends at once.                           *)
LEMMA AwaitView ==
  ASSUME IInv, AwaitInv, NEW n \in Turns, NEW kind, NEW at, NEW fed, NEW cancelled, NEW rows,
         View(n, kind, at, fed, cancelled, rows), handler' = handler, pending' \in {pending, NoTurn},
         computeTask' \in {computeTask, NoTurn}, computeTask' # n,
         at = "joining" => turn[n].at = "joining", ~Awaited(n) \/ at = "gone"
  PROVE  AwaitInv'
<1>1. StepOf(n) /\ turn'[n].at = at /\ turn'[n].on = turn[n].on
  BY DEF View, StepOf, Beside
<1>2. RunsNext
  BY <1>1, StepRuns
<1>3. Awaited(n) => pending' # n
  BY TurnNumbers DEF Awaited
<1>4. turn'[n].at = "joining" => StillWaits(n)
  BY <1>1 DEF StillWaits
<1>5. QED
  BY <1>1, <1>2, <1>3, <1>4, AwaitActor

LEMMA AwaitReplies ==
  ASSUME IInv, AwaitInv, NEW n \in Turns,
         \/ VoiceBegins(n) \/ ChatBegins(n) \/ ProactiveBegins(n) \/ Token(n)
         \/ Answers(n) \/ RowStored(n) \/ SpeaksWhole(n)
         \/ HearsNothing(n) \/ CancelledEarly(n) \/ Unwinds(n) \/ Salvages(n) \/ Flushes(n) \/ ChatRequeues(n)
  PROVE  AwaitInv'
<1>1. /\ turn[n].at \in {"unused", "created", "hearing"} \cup InReply
      /\ UNCHANGED <<computeTask, pending>>
  <2>1. CASE VoiceBegins(n) \/ ChatBegins(n) \/ ProactiveBegins(n) \/ Token(n)
    BY <2>1 DEF VoiceBegins, ChatBegins, Begin, ProactiveBegins, NextTurn, Token, InReply, queueVars
  <2>2. CASE Answers(n) \/ RowStored(n) \/ SpeaksWhole(n) \/ Flushes(n)
    BY <2>2 DEF Answers, RowStored, Moves, SpeaksWhole, ReadyToTell, Flushes, InReply, queueVars
  <2>3. CASE HearsNothing(n) \/ CancelledEarly(n) \/ Unwinds(n) \/ Salvages(n) \/ ChatRequeues(n)
    BY <2>3 DEF HearsNothing, CancelledEarly, Unwinds, Salvages, CanSalvage, ChatRequeues, InReply, queueVars
  <2>4. QED
    BY <2>1, <2>2, <2>3
<1>2. handler' = handler /\ TypeOK
  BY LoopStands DEF IInv
<1>3. ~Awaited(n) /\ computeTask' # n /\ computeTask' \in {computeTask, NoTurn} /\ pending' \in {pending, NoTurn}
  BY <1>1, RecordedFacts DEF Awaited, WillEnd, InReply
<1>4. PICK at \in {"thinking", "storing", "stored", "batch", "gone", "unwinding", "saving", "flushing", "waiting"} :
        \E kind, fed, cancelled, rows : View(n, kind, at, fed, cancelled, rows)
  <2>1. CASE VoiceBegins(n) \/ ChatBegins(n)
    BY <1>2, <2>1, BeginsView
  <2>2. CASE ProactiveBegins(n) \/ Token(n)
    BY <1>2, <2>2, ProactiveView, FeedView
  <2>3. CASE Flushes(n)
    BY <1>2, <2>3, FlushView
  <2>4. CASE Answers(n) \/ RowStored(n) \/ SpeaksWhole(n)
    BY <1>2, <2>4, ReplyView
  <2>5. CASE HearsNothing(n) \/ CancelledEarly(n) \/ Unwinds(n) \/ Salvages(n) \/ ChatRequeues(n)
    BY <1>2, <2>5, ReplyView
  <2>6. QED
    BY <2>1, <2>2, <2>3, <2>4, <2>5
<1>5. PICK kind, fed, cancelled, rows : View(n, kind, at, fed, cancelled, rows)
  BY <1>4
<1>6. QED
  BY <1>2, <1>3, <1>5, AwaitView

(* The pipeline of a turn may go on when the turn has failed.                 *)
LEMMA AwaitPipeline ==
  ASSUME IInv, AwaitInv, NEW n \in Turns, PipelineSpeaks(n) \/ PipelineDrains(n)
  PROVE  AwaitInv'
<1>1. turn[n].at \in FedAt /\ UNCHANGED <<computeTask, pending>>
  BY DEF PipelineSpeaks, PipelineDrains, IInv, ShapesOK, ShapeOK, queueVars
<1>2. handler' = handler /\ TypeOK
  BY LoopStands DEF IInv
<1>3. computeTask' # n /\ (~Awaited(n) \/ turn[n].at = "gone")
  BY <1>1, RecordedFacts DEF Awaited, WillEnd, FedAt
<1>4. \E fed : View(n, turn[n].kind, turn[n].at, fed, turn[n].cancelled, turn[n].rows)
  BY <1>2, FeedView
<1>5. QED
  BY <1>1, <1>2, <1>3, <1>4, AwaitView

LEMMA AwaitEnds ==
  ASSUME IInv, AwaitInv, NEW n \in Turns, NEW fed, NEW rows, EndsWith(n, fed, rows), handler' = handler,
         pending' \in {pending, NoTurn, n}, computeTask' # n, ~Awaited(n)
  PROVE  AwaitInv'
<1>1. StepOf(n) /\ QueueMoves /\ Waits(n)
  BY DEF EndsWith
<1>2. RunsNext
  BY <1>1, StepRuns
<1>3. QED
  BY <1>1, <1>2, AwaitActor DEF Waits

LEMMA AwaitTurnEnds ==
  ASSUME IInv, AwaitInv, NEW n \in Turns,
         Tells(n) \/ Fails(n) \/ NothingToSalvage(n) \/ Saved(n) \/ CancelledLate(n) \/ Joined(n)
  PROVE  AwaitInv'
<1>1. turn[n].at \in InReply \cup {"joining"} /\ pending' = pending
  <2>1. CASE Joined(n)
    BY <2>1 DEF Joined
  <2>2. CASE ~Joined(n)
    <3>1. \E t : EndTurn(n, t)
      BY <2>2 DEF Tells, Fails, NothingToSalvage, Saved, CancelledLate
    <3>2. pending' = pending
      BY <3>1 DEF EndTurn
    <3>3. QED
      BY <2>2, <3>2 DEF Tells, ReadyToTell, Fails, NothingToSalvage, CanSalvage, Saved, CancelledLate, InReply
  <2>3. QED
    BY <2>1, <2>2
<1>2. ~Awaited(n) /\ computeTask # n /\ queued # n
  BY <1>1, RecordedFacts DEF Awaited, WillEnd, InReply
<1>3. \E fed, rows : EndsWith(n, fed, rows)
  BY TellsEffect, FailsEffect, NothingToSalvageEffect, SavedEffect, CancelledLateEffect, JoinedEnds
<1>4. computeTask' # n
  BY <1>2, <1>3, TurnNumbers DEF EndsWith, QueueMoves
<1>5. handler' = handler
  BY LoopStands
<1>6. QED
  BY <1>1, <1>2, <1>3, <1>4, <1>5, AwaitEnds

LEMMA AwaitDelivers ==
  ASSUME IInv, AwaitInv, NEW n \in Turns, ComputeDelivers(n) \/ ComputeCancelled(n) \/ ComputeFails(n)
  PROVE  AwaitInv'
<1>1. handler' = handler /\ pending' = pending /\ turn[n] \in Turn /\ TypeOK
  <2>1. handler' = handler
    BY LoopStands
  <2>2. pending' = pending
    BY DEF ComputeDelivers, ComputeCancelled, ComputeFails
  <2>3. QED
    BY <2>1, <2>2, RecordedFacts DEF IInv
<1>2. CASE ComputeDelivers(n)
  <2>1. ~Awaited(n)
    BY <1>2 DEF ComputeDelivers, Awaited, WillEnd
  <2>2. computeTask' # n
    BY <1>2, RecordedFacts DEF ComputeDelivers, ComputeEnds
  <2>3. QED
    BY <1>1, <1>2, <2>1, <2>2, ComputeDeliversEffect, AwaitEnds
<1>3. CASE ComputeCancelled(n)
  <2>1. turn[n].at \in {"computing", "delivering"} /\ computeTask' = NoTurn
    BY <1>3 DEF ComputeCancelled
  <2>2. StepOf(n) /\ turn'[n].at = "gone" /\ pending' # n
    BY <1>1, <1>3, <2>1, ComputeCancelledEffect, RecordedFacts
  <2>3. RunsNext
    BY <2>1 DEF RunsNext
  <2>4. QED
    BY <1>1, <2>2, <2>3, AwaitActor
<1>4. CASE ComputeFails(n)
  <2>1. turn[n].at = "computing" /\ ~turn[n].cancelled /\ computeTask' = NoTurn
    BY <1>4 DEF ComputeFails
  <2>2. View(n, turn[n].kind, "waiting", turn[n].fed, turn[n].cancelled, turn[n].rows)
    BY <1>1, <1>4, ReplyView
  <2>3. ~Awaited(n) /\ computeTask' # n
    BY <2>1, RecordedFacts DEF Awaited, WillEnd
  <2>4. QED
    BY <1>1, <2>1, <2>2, <2>3, AwaitView
<1>5. QED
  BY <1>2, <1>3, <1>4

LEMMA AwaitAnswers ==
  ASSUME IInv, AwaitInv, NEW n \in Turns, ComputeAnswers(n)
  PROVE  AwaitInv'
<1>1. turn[n].at = "computing" /\ ~turn[n].cancelled /\ handler' = handler
  BY DEF ComputeAnswers
<1>2. ~Awaited(n) /\ n # NoTurn /\ TypeOK
  BY <1>1, TurnNumbers DEF Awaited, WillEnd, IInv
<1>3. computeTask' # n \/ turn'[n].at = "delivering"
  <2>1. CASE \E t : ComputeEnds(n, t)
    BY <1>2, <2>1, RecordedFacts DEF ComputeEnds
  <2>2. CASE turn' = [[turn EXCEPT ![n].rows = @ + 1] EXCEPT ![n].at = "delivering"]
    <3>1. turn \in [Turns -> Turn] /\ turn[n] \in Turn
      BY RecordedFacts
    <3>2. turn'[n] = [turn[n] EXCEPT !.rows = turn[n].rows + 1, !.at = "delivering"]
      BY <2>2, <3>1
    <3>3. QED
      BY <3>1, <3>2 DEF Turn
  <2>3. QED
    BY <2>1, <2>2 DEF ComputeAnswers
<1>4. CASE Keeps(n) \/ TellsOnly(n)
  <2>1. \E fed, rows : EndsWith(n, fed, rows)
    BY <1>4 DEF Keeps, TellsOnly
  <2>2. turn'[n].at # "delivering" /\ pending' \in {pending, NoTurn, n}
    BY <1>4 DEF Keeps, TellsOnly, EndsWith, LastOf
  <2>3. QED
    BY <1>1, <1>2, <1>3, <2>1, <2>2, AwaitEnds
<1>5. CASE Speaks(n)
  <2>1. View(n, turn[n].kind, "delivering", turn[n].fed, turn[n].cancelled, turn[n].rows + 1)
    BY <1>2, <1>5, SpeaksView
  <2>2. /\ StepOf(n) /\ turn'[n].at = "delivering" /\ turn'[n].kind = "compute"
        /\ pending' = NoTurn /\ computeTask' = computeTask
    BY <1>1, <1>5, <2>1 DEF View, StepOf, Beside, Speaks, IInv, ShapesOK, ShapeOK, KindFits
  <2>3. RunsNext
    BY <2>2, StepRuns DEF RunsNext
  <2>4. QED
    BY <1>1, <1>2, <2>2, <2>3, AwaitActor
<1>6. QED
  BY <1>4, <1>5, ComputeAnswersEffect

LEMMA AwaitMessages ==
  ASSUME IInv, AwaitInv, NEW n \in Turns, AudioEnd(n) \/ ChatStarts(n) \/ ChatQueues(n)
  PROVE  AwaitInv'
<1>1. turn[n].at = "unused" /\ pending' = pending /\ TypeOK
  BY DEF AudioEnd, ChatStarts, ChatQueues, NextTurn, queueVars, IInv
<1>2. ~Awaited(n) /\ computeTask # n
  BY <1>1, RecordedFacts DEF Awaited, WillEnd
<1>3. CASE AudioEnd(n) \/ ChatStarts(n)
  <2>1. handler' = handler /\ computeTask' = computeTask
    BY <1>3, LoopStands DEF AudioEnd, ChatStarts, queueVars
  <2>2. CASE turn' = turn
    BY <1>1, <2>1, <2>2 DEF AwaitInv, RecordedRuns, Awaited, WillEnd
  <2>3. CASE \E kind, fed, cancelled, rows : \/ View(n, kind, "hearing", fed, cancelled, rows)
                                             \/ View(n, kind, "created", fed, cancelled, rows)
    BY <1>1, <1>2, <2>1, <2>3, AwaitView
  <2>4. QED
    BY <1>1, <1>3, <2>2, <2>3, UserStartView
<1>4. CASE ChatQueues(n)
  <2>1. StepOf(n) /\ (ChatWaits(n) \/ ChatComputes(n))
    BY <1>4, ChatQueuesEffect
  <2>2. turn[n] \in Turn
    BY RecordedFacts
  <2>3. \A m \in Turns : Awaited(m) => AwaitedNext(m)
    BY <1>1, <1>2, <2>1, BesideAwaits DEF StepOf, Awaited
  <2>4. CASE ChatWaits(n)
    <3>1. turn'[n].at = "waiting" /\ computeTask' = computeTask
      BY <2>2, <2>4 DEF ChatWaits, StartedAs, Turn
    <3>2. RunsNext
      BY <1>2, <2>1, <3>1, StepRuns
    <3>3. handler'.on = computeTask /\ AwaitedNext(computeTask)
      <4>1. computeTask \in Turns \ {n} /\ Beside(computeTask) /\ computeTask # pending'
        BY <1>1, <1>2, <2>1, <2>4, RecordedFacts DEF ChatWaits, StepOf
      <4>2. QED
        BY <2>4, <4>1, BesideAwaits DEF ChatWaits, AwaitedNext
    <3>4. \A m \in Turns : turn'[m].at = "joining" => StillWaits(m)
      BY <2>1, <3>1, BesideAwaits DEF StepOf
    <3>5. QED
      BY <2>3, <3>2, <3>3, <3>4, AwaitStep
  <2>5. CASE ChatComputes(n)
    <3>1. turn'[n].at = "computing" /\ turn'[n].kind = "compute"
      BY <2>2, <2>5 DEF ChatComputes, StartedAs, Turn
    <3>2. RunsNext
      BY <2>5, <3>1 DEF ChatComputes, RunsNext
    <3>3. handler'.at # "joining"
      BY <2>5 DEF ChatComputes, AtRest
    <3>4. \A m \in Turns : turn'[m].at = "joining" => StillWaits(m)
      BY <2>1, <3>1, BesideAwaits DEF StepOf
    <3>5. QED
      BY <2>3, <3>2, <3>3, <3>4, AwaitStep
  <2>6. QED
    BY <2>1, <2>4, <2>5
<1>5. QED
  BY <1>3, <1>4

(* The inbound loop, with t and n as in HandlerDrainsEffect.                  *)
LEMMA AwaitDrains ==
  ASSUME IInv, AwaitInv, NEW t \in [Turns -> Turn], NEW n \in Turns \cup {NoTurn}, Drained(t, n),
         n # NoTurn => OverFits(n, t), HandlerSpeaks \/ HandlerTells
  PROVE  AwaitInv'
<1>1. pending' \in {pending, NoTurn}
  BY DEF HandlerSpeaks, HandlerTells
<1>2. n # NoTurn => /\ turn'[n].at = "gone" /\ computeTask # n /\ n # queued /\ n # pending
  <2>1. n # NoTurn => SameBut(n, t[n])
    BY AsInSame, RecordedFacts DEF Drained
  <2>2. QED
    BY <2>1, RecordedFacts DEF OverFits, SameBut
<1>3. pending # NoTurn => /\ turn'[pending].at = "joining" => StillWaits(pending)
                          /\ computeTask # pending
  <2>1. pending # NoTurn => turn[pending] \in Turn
    BY RecordedFacts
  <2>2. CASE HandlerSpeaks
    BY <2>1, <2>2, RecordedFacts DEF HandlerSpeaks, Turn
  <2>3. CASE HandlerTells
    BY <2>1, <2>3, RecordedFacts DEF HandlerTells, SameBut, StillWaits
  <2>4. QED
    BY <2>2, <2>3
<1>4. \A m \in Turns \ {n, pending} : Beside(m)
  BY DEF Drained
<1>5. \A m \in Turns : Awaited(m) => AwaitedNext(m)
  <2>1. ASSUME NEW m \in Turns, Awaited(m) PROVE AwaitedNext(m)
    <3>1. m # pending /\ m # pending' /\ m # NoTurn
      BY <1>1, <2>1, RecordedFacts DEF Awaited
    <3>2. QED
      BY <1>2, <1>4, <2>1, <3>1, BesideAwaits DEF AwaitedNext
  <2>2. QED
    BY <2>1
<1>6. \A m \in Turns : turn'[m].at = "joining" => StillWaits(m)
  <2>1. ASSUME NEW m \in Turns, turn'[m].at = "joining" PROVE StillWaits(m)
    <3>1. m # NoTurn /\ m # n
      BY <1>2, <2>1, RecordedFacts
    <3>2. QED
      BY <1>3, <1>4, <2>1, <3>1, BesideAwaits
  <2>2. QED
    BY <2>1
<1>7. computeTask # NoTurn => /\ turn'[computeTask].kind = "compute"
                              /\ turn'[computeTask].at \in {"computing", "delivering"}
  <2>1. computeTask # NoTurn => computeTask \in Turns \ {n, pending}
    BY <1>2, <1>3, RecordedFacts
  <2>2. QED
    BY <1>4, <2>1, BesideAwaits
<1>8. RunsNext
  <2>1. QueueMoves
    BY DEF Drained
  <2>2. CASE computeTask' \in {computeTask, NoTurn}
    BY <1>7, <2>2 DEF RunsNext
  <2>3. CASE /\ queued # NoTurn /\ computeTask' \in {queued, NoTurn}
             /\ turn'[queued] = [turn[queued] EXCEPT !.kind = "compute", !.at = "computing"]
    <3>1. turn[queued] \in Turn
      BY <2>3, RecordedFacts
    <3>2. turn'[queued].kind = "compute" /\ turn'[queued].at = "computing"
      BY <2>3, <3>1 DEF Turn
    <3>3. QED
      BY <2>3, <3>2 DEF RunsNext
  <2>4. QED
    BY <2>1, <2>2, <2>3 DEF QueueMoves
<1>9. handler'.at = "joining" => AwaitedNext(handler'.on)
  <2>1. CASE HandlerWaits
    <3>1. handler'.on = computeTask /\ computeTask # pending'
      BY <1>1, <1>3, <2>1, RecordedFacts DEF HandlerWaits
    <3>2. QED
      BY <1>7, <2>1, <3>1 DEF HandlerWaits, AwaitedNext
  <2>2. CASE ~HandlerWaits
    BY <2>2 DEF HandlerSpeaks, HandlerTells, AtRest
  <2>3. QED
    BY <2>1, <2>2
<1>10. QED
  BY <1>5, <1>6, <1>8, <1>9, AwaitStep

LEMMA AwaitLoop ==
  ASSUME IInv, AwaitInv, HandlerJoined \/ HandlerDelivered \/ PlaybackStops
  PROVE  AwaitInv'
<1>1. CASE HandlerJoined
  <2>1. StepOf(NoTurn) /\ QueueMoves /\ handler' = AtRest /\ pending' = pending
    BY <1>1, HandlerJoinedKeeps DEF HandlerJoined
  <2>2. \A m \in Turns : Beside(m)
    BY <2>1, RecordedFacts DEF StepOf
  <2>3. RunsNext
    BY <2>1, StepRuns DEF RunsNext
  <2>4. \A m \in Turns : Awaited(m) => AwaitedNext(m)
    BY <2>1, <2>2, BesideAwaits DEF Awaited
  <2>5. \A m \in Turns : turn'[m].at = "joining" => StillWaits(m)
    BY <2>2, BesideAwaits
  <2>6. QED
    BY <2>1, <2>3, <2>4, <2>5, AwaitStep DEF AtRest
<1>2. CASE HandlerDelivered
  <2>1. PICK n \in Turns : n = handler.on
    BY <1>2, OverValue DEF HandlerDelivered, OverFits
  <2>2. PICK t \in [Turns -> Turn] : t = Over(n)
    BY <1>2, <2>1, OverValue DEF HandlerDelivered, OverFits
  <2>3. OverFits(n, t) /\ Drained(t, n) /\ (HandlerSpeaks \/ HandlerTells)
    BY <1>2, <2>1, <2>2, OverValue, HandlerDeliveredEffect DEF HandlerDelivered
  <2>4. QED
    BY <2>3, AwaitDrains
<1>3. CASE PlaybackStops
  <2>1. Drained(turn, NoTurn) /\ (HandlerSpeaks \/ HandlerTells) /\ turn \in [Turns -> Turn]
    BY <1>3, PlaybackStopsEffect, RecordedFacts
  <2>2. QED
    BY <2>1, AwaitDrains
<1>4. QED
  BY <1>1, <1>2, <1>3

(* A step that leaves every turn where it is.                                 *)
LEMMA AwaitStill ==
  ASSUME IInv, AwaitInv, UNCHANGED <<computeTask, pending>>, handler' = handler \/ handler'.at # "joining",
         \A m \in Turns : /\ turn'[m].at = turn[m].at /\ turn'[m].kind = turn[m].kind /\ turn'[m].on = turn[m].on
                          /\ turn[m].cancelled => turn'[m].cancelled
  PROVE  AwaitInv'
<1>1. RunsNext
  BY RecordedFacts DEF RunsNext
<1>2. \A m \in Turns : Awaited(m) => AwaitedNext(m)
  BY DEF Awaited, AwaitedNext, WillEnd
<1>3. QED
  BY <1>1, <1>2, AwaitStep DEF StillWaits

LEMMA AwaitInterrupts ==
  ASSUME IInv, AwaitInv, Interrupt \/ InterruptSaved
  PROVE  AwaitInv'
<1>1. CASE Interrupt
  <2>1. \A n \in Turns : InterruptedAs(turn'[n], n)
    BY <1>1, InterruptEffect DEF IInv
  <2>2. UNCHANGED <<computeTask, pending>> /\ (handler' = handler \/ handler'.at # "joining")
    <3>1. handler' = handler \/ handler' = [at |-> "saving", on |-> current]
      BY <1>1 DEF Interrupt
    <3>2. UNCHANGED <<computeTask, pending>>
      BY <1>1 DEF Interrupt, queueVars
    <3>3. QED
      BY <3>1, <3>2
  <2>3. QED
    BY <2>1, <2>2, AwaitStill DEF InterruptedAs
<1>2. CASE InterruptSaved
  <2>1. PICK n \in Turns, r \in Turn :
          /\ Edits(n, r) /\ r.kind = turn[n].kind /\ r.at = turn[n].at
          /\ r.cancelled = turn[n].cancelled /\ r.on = turn[n].on
    BY <1>2, InterruptSavedEffect
  <2>2. turn'[n] = r /\ \A m \in Turns \ {n} : turn'[m] = turn[m]
    BY <2>1, EditEffect DEF IInv
  <2>3. UNCHANGED <<computeTask, pending>> /\ handler'.at # "joining"
    BY <1>2 DEF InterruptSaved, queueVars, AtRest
  <2>4. QED
    BY <2>1, <2>2, <2>3, AwaitStill
<1>3. QED
  BY <1>1, <1>2

LEMMA AwaitKept ==
  ASSUME IInv, AwaitInv, Next PROVE AwaitInv'
<1>1. CASE StillStep \/ \E n \in Turns : Sounds(n)
  <2>1. UNCHANGED <<turn, computeTask, pending, handler>>
    BY <1>1 DEF StillStep, Sounds, AudioStart, AudioEndsEmpty, PlaybackStarts, GraceOver, queueVars
  <2>2. QED
    BY <2>1, AwaitStill
<1>2. QED
  BY <1>1, AwaitReplies, AwaitPipeline, AwaitTurnEnds, AwaitDelivers, AwaitAnswers, AwaitMessages, AwaitLoop,
     AwaitInterrupts, NextCases DEF StillStep

(* Whatever happens in the session, with any number of turns: what a turn, a  *)
(* queued chat or the inbound loop awaits (drain_chat_queue and               *)
(* start_background_chat_compute await the task they cancel) is over or will  *)
(* end at its cancellation without awaiting another, so that they never wait  *)
(* in a circle.                                                              *)
THEOREM AwaitedWillEndHolds == Spec => []AwaitedWillEnd
<1>1. Init => AwaitInv
  BY DEF Init, AtRest, AwaitInv, RecordedRuns, Fresh
<1>2. IInv /\ AwaitInv /\ [Next]_vars => AwaitInv'
  <2>1. ASSUME AwaitInv, UNCHANGED vars PROVE AwaitInv'
    BY <2>1 DEF vars, AwaitInv, RecordedRuns, Awaited, WillEnd
  <2>2. QED
    BY <2>1, AwaitKept
<1>3. AwaitInv => AwaitedWillEnd
  BY DEF AwaitInv, Awaited, AwaitedWillEnd
<1>4. QED
  BY <1>1, <1>2, <1>3, Inductive, PTL DEF Spec

-----------------------------------------------------------------------------
(* Without failures: the session is busy for a turn                          *)
FedOK(t) == t.fed => t.at \in InReply

BusyAt == InReply \cup {"delivering"}

(* The three ways in which a step keeps BusyForATurn.                         *)
Quiet == speech' \notin {"thinking", "speaking"}
BusyTurn == \E n \in Turns : turn'[n].at \in BusyAt
StaysBusy == speech' = speech /\ \A n \in Turns : turn[n].at \in BusyAt => turn'[n].at \in BusyAt

LEMMA BusyWays ==
  ASSUME BusyForATurn, Quiet \/ BusyTurn \/ StaysBusy PROVE BusyForATurn'
<1>1. ASSUME NEW n \in Turns, turn'[n].at \in BusyAt PROVE Alive(n)' /\ turn'[n].at \in InReply \cup {"delivering"}
  BY <1>1, TurnNumbers DEF Alive, BusyAt, InReply
<1>2. CASE Quiet
  BY <1>2 DEF Quiet, BusyForATurn, session_busy
<1>3. CASE BusyTurn
  BY <1>1, <1>3 DEF BusyTurn, BusyForATurn
<1>4. CASE StaysBusy /\ session_busy'
  <2>1. session_busy
    BY <1>4 DEF StaysBusy, session_busy
  <2>2. PICK n \in Turns : turn[n].at \in BusyAt
    BY <2>1 DEF BusyForATurn, BusyAt
  <2>3. turn'[n].at \in BusyAt
    BY <1>4, <2>2 DEF StaysBusy
  <2>4. QED
    BY <1>1, <2>3 DEF BusyForATurn
<1>5. QED
  BY <1>2, <1>3, <1>4 DEF BusyForATurn

LEMMA BystanderFed ==
  ASSUME IInv, NEW m \in Turns, FedOK(turn[m]), Bystander(m)
  PROVE  FedOK(turn'[m]) /\ (turn[m].at \in BusyAt => turn'[m].at \in BusyAt)
<1>1. turn[m].at = "waiting" => ~turn[m].fed
  BY DEF IInv, ShapesOK, ShapeOK, FedAt
<1>2. QED
  BY <1>1 DEF Bystander, FedOK, BusyAt, InReply

(* A step of turn n that leaves the others alone.                             *)
LEMMA BusyView ==
  ASSUME IInv, BusyInv, NEW n \in Turns, NEW kind, NEW at, NEW fed, NEW cancelled, NEW rows,
         View(n, kind, at, fed, cancelled, rows), fed => at \in InReply,
         at \in BusyAt \/ (speech' = speech /\ turn[n].at \notin BusyAt)
  PROVE  BusyInv'
<1>1. FedReplies'
  BY DEF BusyInv, FedReplies, View
<1>2. BusyTurn \/ StaysBusy
  BY DEF View, BusyTurn, StaysBusy
<1>3. QED
  BY <1>1, <1>2, BusyWays DEF BusyInv

(* A turn n ends.                                                             *)
LEMMA BusyEnds ==
  ASSUME IInv, BusyInv, NEW n \in Turns, NEW fed, NEW rows, EndsWith(n, fed, rows), ~fed,
         Quiet \/ (speech' = speech /\ turn[n].at \notin BusyAt)
  PROVE  BusyInv'
<1>1. \A m \in Turns \ {n} : Bystander(m)
  BY BesideView DEF EndsWith, StepOf
<1>2. \A m \in Turns \ {n} : FedOK(turn'[m]) /\ (turn[m].at \in BusyAt => turn'[m].at \in BusyAt)
  BY <1>1, BystanderFed DEF BusyInv, FedReplies, FedOK
<1>3. FedReplies'
  BY <1>2 DEF FedReplies, FedOK, EndsWith
<1>4. Quiet \/ StaysBusy
  BY <1>2 DEF StaysBusy
<1>5. QED
  BY <1>3, <1>4, BusyWays DEF BusyInv

LEMMA BusyReplies ==
  ASSUME IInv, BusyInv, NEW n \in Turns,
         \/ VoiceBegins(n) \/ ChatBegins(n) \/ ProactiveBegins(n) \/ Token(n)
         \/ PipelineSpeaks(n) \/ PipelineDrains(n) \/ Answers(n) \/ RowStored(n) \/ SpeaksWhole(n)
         \/ HearsNothing(n) \/ CancelledEarly(n) \/ Unwinds(n) \/ Salvages(n) \/ Flushes(n)
         \/ ChatRequeues(n)
  PROVE  BusyInv'
<1>1. /\ turn[n] \in Turn /\ TypeOK /\ ShapeOK(turn[n]) /\ FedOK(turn[n])
      /\ turn[n].fed \in BOOLEAN
  <2>1. turn[n] \in Turn /\ TypeOK /\ ShapeOK(turn[n]) /\ FedOK(turn[n])
    BY TypedTurns DEF IInv, ShapesOK, BusyInv, FedReplies, FedOK
  <2>2. QED
    BY <2>1 DEF Turn
<1>2. {"thinking", "storing", "stored", "batch", "unwinding", "saving", "flushing"} \subseteq InReply \cap BusyAt
  BY DEF InReply, BusyAt
<1>3. CASE VoiceBegins(n) \/ ChatBegins(n) \/ ProactiveBegins(n)
  <2>1. \E kind : View(n, kind, "thinking", turn[n].fed, turn[n].cancelled, turn[n].rows)
    BY <1>1, <1>3, BeginsView, ProactiveView
  <2>2. QED
    BY <1>2, <2>1, BusyView
<1>4. CASE Token(n)
  <2>1. View(n, turn[n].kind, "thinking", turn[n].voice, turn[n].cancelled, turn[n].rows)
    BY <1>1, <1>4, FeedView
  <2>2. QED
    BY <1>2, <2>1, BusyView
<1>5. CASE PipelineSpeaks(n) \/ PipelineDrains(n)
  <2>1. turn[n].at \in InReply /\ turn[n].at \in BusyAt
    BY <1>1, <1>5 DEF PipelineSpeaks, PipelineDrains, FedOK, BusyAt
  <2>2. \E fed : View(n, turn[n].kind, turn[n].at, fed, turn[n].cancelled, turn[n].rows)
    BY <1>1, <1>5, FeedView
  <2>3. QED
    BY <2>1, <2>2, BusyView
<1>6. CASE Answers(n) \/ RowStored(n) \/ SpeaksWhole(n) \/ Unwinds(n) \/ Salvages(n)
  <2>1. \E at \in {"storing", "stored", "batch", "unwinding", "saving"} : \E cancelled, rows :
          View(n, turn[n].kind, at, turn[n].fed, cancelled, rows)
    BY <1>1, <1>6, ReplyView
  <2>2. QED
    BY <1>2, <2>1, BusyView
<1>7. CASE Flushes(n)
  <2>1. PICK fed \in BOOLEAN : View(n, turn[n].kind, "flushing", fed, turn[n].cancelled, turn[n].rows)
    BY <1>1, <1>7, FlushView
  <2>2. QED
    BY <1>2, <2>1, BusyView
<1>8. CASE HearsNothing(n) \/ CancelledEarly(n) \/ ChatRequeues(n)
  <2>1. turn[n].at \in {"created", "hearing"} /\ speech' = speech
    BY <1>8 DEF HearsNothing, CancelledEarly, ChatRequeues, speechVars
  <2>2. ~turn[n].fed /\ turn[n].at \notin BusyAt
    BY <1>1, <2>1 DEF FedOK, InReply, BusyAt
  <2>3. \E at, cancelled, rows : View(n, turn[n].kind, at, turn[n].fed, cancelled, rows)
    BY <1>1, <1>8, ReplyView
  <2>4. QED
    BY <2>1, <2>2, <2>3, BusyView
<1>9. QED
  BY <1>3, <1>4, <1>5, <1>6, <1>7, <1>8

(* A turn that ends has no pipeline left to do.                               *)
LEMMA DrainedEnds ==
  ASSUME IInv, NEW n \in Turns, Tells(n) \/ NothingToSalvage(n) \/ Saved(n) \/ CancelledLate(n)
  PROVE  /\ \E fed, rows : EndsWith(n, fed, rows) /\ ~fed
         /\ speech' = "idle"
<1>1. turn[n].fed => turn[n].voice /\ turn[n].at \in FedAt
  BY DEF IInv, ShapesOK, ShapeOK
<1>2. Tells(n) \/ NothingToSalvage(n) \/ Saved(n) => ~turn[n].fed
  BY <1>1 DEF Tells, ReadyToTell, NothingToSalvage, CanSalvage, Saved, FedAt
<1>3. \E fed, rows : EndsWith(n, fed, rows) /\ ~fed
  <2>1. CASE Tells(n) \/ NothingToSalvage(n)
    BY <1>2, <2>1, TellsEffect, NothingToSalvageEffect
  <2>2. CASE Saved(n)
    BY <1>2, <2>2, SavedEffect
  <2>3. CASE CancelledLate(n)
    BY <2>3, CancelledLateEffect
  <2>4. QED
    BY <2>1, <2>2, <2>3
<1>4. \E t : EndTurn(n, t)
  BY DEF Tells, NothingToSalvage, Saved, CancelledLate
<1>5. QED
  BY <1>3, <1>4 DEF EndTurn, FinishTurn

(* Nothing happens to what is fed, and no turn stops being what it is busy    *)
(* with.                                                                     *)
LEMMA BusyBystanders ==
  ASSUME IInv, BusyInv, \A m \in Turns : Bystander(m) \/ Handled(m),
         Quiet \/ BusyTurn \/ (speech' = speech /\ \A m \in Turns : turn[m].at \in BusyAt => Bystander(m))
  PROVE  BusyInv'
<1>1. \A m \in Turns : Bystander(m) => FedOK(turn'[m]) /\ (turn[m].at \in BusyAt => turn'[m].at \in BusyAt)
  BY BystanderFed DEF BusyInv, FedReplies, FedOK
<1>2. FedReplies'
  BY <1>1 DEF FedReplies, FedOK, Handled
<1>3. Quiet \/ BusyTurn \/ StaysBusy
  BY <1>1 DEF StaysBusy
<1>4. QED
  BY <1>2, <1>3, BusyWays DEF BusyInv

LEMMA BusyLoop ==
  ASSUME IInv, BusyInv, HandlerDelivered \/ PlaybackStops PROVE BusyInv'
<1>1. \A m \in Turns : Bystander(m) \/ Handled(m)
  BY DrainView
<1>2. CASE HandlerSpeaks
  <2>1. pending \in Turns /\ turn[pending] \in Turn
    BY <1>2, TypedTurns DEF HandlerSpeaks, IInv
  <2>2. turn'[pending].at = "delivering"
    BY <1>2, <2>1 DEF HandlerSpeaks, Turn
  <2>3. BusyTurn
    BY <2>1, <2>2 DEF BusyTurn, BusyAt
  <2>4. QED
    BY <1>1, <2>3, BusyBystanders
<1>3. CASE speech' = "idle"
  BY <1>1, <1>3, BusyBystanders DEF Quiet
<1>4. CASE PlaybackStops /\ speech' = speech
  <2>1. \A m \in Turns \ {pending} : Bystander(m)
    BY <1>4, PlaybackStopsEffect, BesideView, TurnNumbers DEF Drained
  <2>2. pending # NoTurn => turn[pending].at \notin BusyAt
    BY DEF IInv, QueueOK, BusyAt, InReply
  <2>3. QED
    BY <1>1, <1>4, <2>1, <2>2, TurnNumbers, BusyBystanders
<1>5. HandlerSpeaks \/ speech' = "idle" \/ (PlaybackStops /\ speech' = speech)
  BY HandlerDeliveredEffect, PlaybackStopsEffect DEF FinishTurn
<1>6. QED
  BY <1>2, <1>3, <1>4, <1>5

LEMMA BusyKept ==
  ASSUME IInv, NoFailures, BusyInv, Next PROVE BusyInv'
<1>1. TypeOK /\ \A m \in Turns : FedOK(turn[m]) /\ ShapeOK(turn[m])
  BY DEF IInv, ShapesOK, BusyInv, FedReplies, FedOK
<1>2. ASSUME NEW n \in Turns PROVE ~Fails(n) /\ ~ComputeFails(n)
  BY DEF NoFailures, Fails, ComputeFails
<1>3. ASSUME NEW n \in Turns, Tells(n) \/ NothingToSalvage(n) \/ Saved(n) \/ CancelledLate(n) PROVE BusyInv'
  BY <1>3, DrainedEnds, BusyEnds DEF Quiet
<1>4. ASSUME NEW n \in Turns, ComputeAnswers(n) PROVE BusyInv'
  <2>1. turn[n].at = "computing" /\ ~turn[n].fed
    BY <1>1, <1>4 DEF ComputeAnswers, FedOK, InReply
  <2>2. CASE Keeps(n)
    <3>1. EndsWith(n, turn[n].fed, turn[n].rows + 1) /\ speech' = speech
      BY <2>2 DEF Keeps, speechVars
    <3>2. turn[n].at \notin BusyAt
      BY <2>1 DEF BusyAt, InReply
    <3>3. QED
      BY <2>1, <3>1, <3>2, BusyEnds
  <2>3. CASE TellsOnly(n)
    <3>1. EndsWith(n, turn[n].fed, turn[n].rows + 1) /\ Quiet
      BY <2>3 DEF TellsOnly, FinishTurn, Quiet
    <3>2. QED
      BY <2>1, <3>1, BusyEnds
  <2>4. CASE Speaks(n)
    <3>1. View(n, turn[n].kind, "delivering", turn[n].fed, turn[n].cancelled, turn[n].rows + 1)
      BY <1>1, <2>4, SpeaksView
    <3>2. "delivering" \in BusyAt
      BY DEF BusyAt
    <3>3. QED
      BY <2>1, <3>1, <3>2, BusyView
  <2>5. QED
    BY <1>4, <2>2, <2>3, <2>4, ComputeAnswersEffect
<1>5. ASSUME NEW n \in Turns, ComputeDelivers(n) \/ Joined(n) PROVE BusyInv'
  <2>1. EndsWith(n, turn[n].fed, turn[n].rows)
    BY <1>5, ComputeDeliversEffect, JoinedEnds
  <2>2. turn[n].at \in {"delivering", "joining"} /\ ~turn[n].fed
    BY <1>1, <1>5 DEF ComputeDelivers, Joined, FedOK, InReply
  <2>3. Quiet \/ (speech' = speech /\ turn[n].at \notin BusyAt)
    BY <1>5, <2>2 DEF ComputeDelivers, FinishTurn, Quiet, Joined, speechVars, BusyAt, InReply
  <2>4. QED
    BY <2>1, <2>2, <2>3, BusyEnds
<1>6. ASSUME NEW n \in Turns, ComputeCancelled(n) PROVE BusyInv'
  <2>1. turn[n].at \in {"computing", "delivering"} /\ ~turn[n].fed
    BY <1>1, <1>6 DEF ComputeCancelled, FedOK, InReply
  <2>2. /\ \A m \in Turns \ {n} : turn'[m] = turn[m]
        /\ ~turn'[n].fed
    BY <1>6, <2>1, ComputeCancelledEffect
  <2>3. FedReplies'
    BY <1>1, <2>2 DEF FedReplies, FedOK
  <2>4. Quiet \/ StaysBusy
    BY <1>6, <2>1, <2>2 DEF ComputeCancelled, FinishTurn, Quiet, StaysBusy, BusyAt, InReply
  <2>5. QED
    BY <2>3, <2>4, BusyWays DEF BusyInv
<1>7. ASSUME NEW n \in Turns, AudioEnd(n) \/ ChatStarts(n) \/ ChatQueues(n) PROVE BusyInv'
  <2>1. turn[n].at = "unused" /\ ~turn[n].fed /\ turn[n].at \notin BusyAt
    BY <1>1, <1>7 DEF AudioEnd, ChatStarts, ChatQueues, NextTurn, ShapeOK, BusyAt, InReply
  <2>2. Quiet \/ speech' = speech
    BY <1>7 DEF AudioEnd, ChatStarts, ChatQueues, speechVars, Quiet
  <2>3. CASE AudioEnd(n) \/ ChatStarts(n)
    <3>1. turn' = turn \/ \E kind, at : View(n, kind, at, turn[n].fed, turn[n].cancelled, turn[n].rows)
      BY <1>1, <2>3, UserStartView
    <3>2. FedReplies' /\ \A m \in Turns : turn[m].at \in BusyAt => turn'[m].at = turn[m].at
      BY <1>1, <2>1, <3>1 DEF FedReplies, FedOK, View
    <3>3. QED
      BY <2>2, <3>2, BusyWays DEF StaysBusy, BusyInv
  <2>4. CASE ChatQueues(n)
    <3>1. ~turn'[n].fed /\ \A m \in Turns \ {n} : Bystander(m)
      BY <2>1, <2>4, ChatQueuesView, BesideView DEF StepOf
    <3>2. \A m \in Turns \ {n} : FedOK(turn'[m]) /\ (turn[m].at \in BusyAt => turn'[m].at \in BusyAt)
      BY <1>1, <3>1, BystanderFed
    <3>3. FedReplies'
      BY <3>1, <3>2 DEF FedReplies, FedOK
    <3>4. Quiet \/ StaysBusy
      BY <2>1, <2>2, <3>2 DEF StaysBusy
    <3>5. QED
      BY <3>3, <3>4, BusyWays DEF BusyInv
  <2>5. QED
    BY <1>7, <2>3, <2>4
<1>8. CASE HandlerJoined
  <2>1. \A m \in Turns : Bystander(m)
    BY <1>8, HandlerJoinedKeeps, BesideView, TurnNumbers DEF StepOf
  <2>2. speech' = speech
    BY <1>8 DEF HandlerJoined, speechVars
  <2>3. QED
    BY <2>1, <2>2, BusyBystanders
<1>9. CASE Interrupt
  <2>1. \A m \in Turns : InterruptedAs(turn'[m], m)
    BY <1>1, <1>9, InterruptEffect
  <2>2. FedReplies'
    BY <1>1, <2>1 DEF FedReplies, FedOK, InterruptedAs
  <2>3. Quiet
    BY <1>9 DEF Interrupt, Quiet
  <2>4. QED
    BY <2>2, <2>3, BusyWays DEF BusyInv
<1>10. CASE InterruptSaved
  <2>1. PICK n \in Turns, r \in Turn : Edits(n, r) /\ r.at = turn[n].at /\ r.fed = turn[n].fed
    BY <1>10, InterruptSavedEffect
  <2>2. turn'[n] = r /\ \A m \in Turns \ {n} : turn'[m] = turn[m]
    BY <1>1, <2>1, EditEffect
  <2>3. FedReplies'
    BY <1>1, <2>1, <2>2 DEF FedReplies, FedOK
  <2>4. StaysBusy
    BY <1>10, <2>1, <2>2 DEF StaysBusy, InterruptSaved, speechVars
  <2>5. QED
    BY <2>3, <2>4, BusyWays DEF BusyInv
<1>11. CASE AudioStart \/ AudioEndsEmpty \/ PlaybackStarts \/ GraceOver \/ \E n \in Turns : Sounds(n)
  <2>1. turn' = turn /\ (speech' = speech \/ Quiet)
    BY <1>11 DEF AudioStart, AudioEndsEmpty, PlaybackStarts, GraceOver, Sounds, speechVars, Quiet
  <2>2. FedReplies'
    BY <1>1, <2>1 DEF FedReplies, FedOK
  <2>3. QED
    BY <2>1, <2>2, BusyWays DEF StaysBusy, BusyInv
<1>12. QED
  BY <1>2, <1>3, <1>4, <1>5, <1>6, <1>7, <1>8, <1>9, <1>10, <1>11, BusyReplies, BusyLoop, NextCases

LEMMA BusyInductive == ASSUME NoFailures PROVE Spec => []BusyInv
<1>1. Init => BusyInv
  BY DEF Init, BusyInv, FedReplies, Fresh, BusyForATurn, session_busy
<1>2. IInv /\ BusyInv /\ [Next]_vars => BusyInv'
  <2>1. ASSUME BusyInv, UNCHANGED vars PROVE BusyInv'
    BY <2>1 DEF vars, BusyInv, FedReplies, BusyForATurn, session_busy, Alive
  <2>2. QED
    BY <2>1, BusyKept
<1>3. QED
  BY <1>1, <1>2, Inductive, PTL DEF Spec

(* The session is never busy for nobody, so that typed messages queue and the *)
(* notifier keeps still only while some turn will call finish_turn: as long   *)
(* as no exception leaves the pipeline of a failed turn running.             *)
THEOREM BusyForATurnHolds == ASSUME NoFailures PROVE Spec => []BusyForATurn
<1>1. BusyInv => BusyForATurn
  BY DEF BusyInv
<1>2. QED
  BY <1>1, BusyInductive, PTL

-----------------------------------------------------------------------------
(* Without proactive turns: an interrupted turn of the user is over          *)

(* The step lets no silenced turn be heard, and leaves the cancel event set   *)
(* for those that still run.                                                 *)
Spared ==
  \A m \in Turns :
    IsUserTurn(m) /\ turn[m].silenced => heard' # m /\ (~IsOver(turn[m]) => ttsCancel')

LEMMA SparedStill ==
  ASSUME SilenceInv, UNCHANGED <<heard, ttsCancel>> PROVE Spared
  BY DEF SilenceInv, SilencedEnds, SilentOK, Spared

(* No silenced turn still runs when no user turn does.                        *)
LEMMA SilencedRuns ==
  ASSUME IInv, SilenceInv, NEW m \in Turns, IsUserTurn(m), turn[m].silenced, ~IsOver(turn[m])
  PROVE  m = turnTask /\ Alive(turnTask) /\ IsEnding(turn[m]) /\ ttsCancel
<1>1. IsEnding(turn[m]) /\ ttsCancel
  BY DEF SilenceInv, SilencedEnds, SilentOK
<1>2. Alive(m)
  BY <1>1, TurnNumbers DEF IsEnding, Alive, InReply
<1>3. QED
  BY <1>1, <1>2 DEF IInv, OneUserTurn

LEMMA SparedSpeech ==
  ASSUME IInv, SilenceInv, NEW n \in Turns, PipelineSpeaks(n) \/ Sounds(n) \/ SpeaksWhole(n)
  PROVE  Spared
<1>1. heard' = n
  BY DEF PipelineSpeaks, Sounds, SpeaksWhole, BeginSpeaking
<1>2. ASSUME NEW m \in Turns, IsUserTurn(m), turn[m].silenced PROVE m # n /\ IsOver(turn[m])
  <2>1. CASE PipelineSpeaks(n) \/ Sounds(n)
    <3>1. ~ttsCancel /\ (turn[n].fed \/ turn[n].at \in {"batch", "delivering"})
      BY <2>1 DEF PipelineSpeaks, Sounds
    <3>2. IsOver(turn[m])
      BY <1>2, <3>1, SilencedRuns
    <3>3. QED
      BY <3>1, <3>2 DEF IsOver
  <2>2. CASE SpeaksWhole(n)
    <3>1. turn[n].at \in {"stored", "flushing"} /\ ~turn[n].cancelled
      BY <2>2 DEF SpeaksWhole, ReadyToTell
    <3>2. IsUserTurn(n)
      BY <3>1 DEF IInv, ShapesOK, ShapeOK, KindFits, SilenceInv, NoneProactive, IsUserTurn, UserKinds, InReply
    <3>3. Alive(n) /\ n = turnTask
      BY <3>1, <3>2, TurnNumbers DEF Alive, IInv, OneUserTurn
    <3>4. m # n
      BY <1>2, <3>1 DEF SilenceInv, SilencedEnds, SilentOK, IsOver, IsEnding
    <3>5. QED
      BY <1>2, <3>3, <3>4, SilencedRuns
  <2>3. QED
    BY <2>1, <2>2
<1>3. QED
  BY <1>1, <1>2 DEF Spared

LEMMA SparedQuiet ==
  ASSUME IInv, SilenceInv, NEW n \in Turns, turn[n].kind \in QueuedKinds, heard' = n, ~Alive(turnTask)
  PROVE  Spared
<1>1. ASSUME NEW m \in Turns, IsUserTurn(m), turn[m].silenced PROVE m # n /\ IsOver(turn[m])
  BY <1>1, SilencedRuns DEF IsUserTurn, QueuedKinds
<1>2. QED
  BY <1>1 DEF Spared

LEMMA SilenceBystander ==
  ASSUME SilenceInv, Spared, NEW m \in Turns, Bystander(m) \/ Handled(m)
  PROVE  SilentOK(m)' /\ turn'[m].kind # "proactive"
<1>1. turn[m].kind # "proactive" /\ SilentOK(m)
  BY DEF SilenceInv, NoneProactive, SilencedEnds
<1>2. turn'[m].kind # "proactive"
  BY <1>1 DEF Bystander, Handled, QueuedKinds
<1>3. ASSUME IsUserTurn(m)', turn'[m].silenced
      PROVE  heard' # m /\ (IsOver(turn'[m]) \/ (IsEnding(turn'[m]) /\ ttsCancel'))
  <2>1. Bystander(m) /\ turn'[m].kind = turn[m].kind /\ turn'[m].at = turn[m].at
    BY <1>3 DEF IsUserTurn, Bystander, Handled, QueuedKinds
  <2>2. IsUserTurn(m) /\ turn[m].silenced
    BY <1>3, <2>1 DEF IsUserTurn, Bystander
  <2>3. heard' # m /\ (IsOver(turn[m]) \/ (IsEnding(turn[m]) /\ ttsCancel'))
    BY <1>1, <2>2 DEF Spared, SilentOK
  <2>4. QED
    BY <2>1, <2>3 DEF Bystander, IsOver, IsEnding
<1>4. QED
  BY <1>2, <1>3 DEF SilentOK

LEMMA SilenceBystanders ==
  ASSUME SilenceInv, Spared, \A m \in Turns : Bystander(m) \/ Handled(m) PROVE SilenceInv'
<1>1. \A m \in Turns : SilentOK(m)' /\ turn'[m].kind # "proactive"
  BY SilenceBystander
<1>2. QED
  BY <1>1 DEF SilenceInv, NoneProactive, SilencedEnds

(* Turn n is not silenced, or it is over, or it is past what clears the event.*)
LEMMA SilenceStep ==
  ASSUME SilenceInv, Spared, NEW n \in Turns, \A m \in Turns \ {n} : Bystander(m),
         turn'[n].kind # "proactive", turn'[n].silenced = turn[n].silenced,
         IsUserTurn(n)' /\ turn[n].silenced =>
           IsUserTurn(n) /\ (IsOver(turn'[n]) \/ (IsEnding(turn'[n]) /\ ~IsOver(turn[n])))
  PROVE  SilenceInv'
<1>1. \A m \in Turns \ {n} : SilentOK(m)' /\ turn'[m].kind # "proactive"
  BY SilenceBystander
<1>2. SilentOK(n)'
  BY DEF SilentOK, Spared
<1>3. QED
  BY <1>1, <1>2 DEF SilenceInv, NoneProactive, SilencedEnds

LEMMA SameIsBystander ==
  ASSUME NEW m \in Turns, turn'[m] = turn[m] PROVE Bystander(m)
  BY DEF Bystander

(* Steps that a silenced turn of the user is past.                            *)
LEMMA SilenceReplies ==
  ASSUME IInv, SilenceInv, NEW n \in Turns,
         \/ VoiceBegins(n) \/ ChatBegins(n) \/ Token(n) \/ PipelineSpeaks(n)
         \/ Answers(n) \/ RowStored(n) \/ SpeaksWhole(n) \/ Flushes(n)
         \/ HearsNothing(n) \/ CancelledEarly(n) \/ ChatRequeues(n) \/ ComputeFails(n)
  PROVE  SilenceInv'
<1>1. TypeOK /\ turn[n].kind # "proactive"
  BY DEF IInv, SilenceInv, NoneProactive
<1>2. \E at, fed, cancelled, rows : View(n, turn[n].kind, at, fed, cancelled, rows)
  <2>1. CASE VoiceBegins(n) \/ ChatBegins(n) \/ Flushes(n)
    BY <1>1, <2>1, BeginsView, FlushView
  <2>2. CASE Token(n) \/ PipelineSpeaks(n)
    BY <1>1, <2>2, FeedView
  <2>3. CASE \/ Answers(n) \/ RowStored(n) \/ SpeaksWhole(n)
             \/ HearsNothing(n) \/ CancelledEarly(n) \/ ChatRequeues(n) \/ ComputeFails(n)
    BY <1>1, <2>3, ReplyView
  <2>4. QED
    BY <2>1, <2>2, <2>3
<1>3. Spared
  <2>1. CASE PipelineSpeaks(n) \/ SpeaksWhole(n)
    BY <2>1, SparedSpeech
  <2>2. CASE VoiceBegins(n) \/ ChatBegins(n)
    <3>1. \E via : Begin(n, via)
      BY <2>2 DEF VoiceBegins, ChatBegins
    <3>2. QED
      BY <3>1, SparedStill DEF Begin
  <2>3. CASE Token(n) \/ Answers(n) \/ RowStored(n) \/ Flushes(n)
    BY <2>3, SparedStill DEF Token, Answers, RowStored, Moves, Flushes, speechVars
  <2>4. CASE HearsNothing(n) \/ CancelledEarly(n) \/ ChatRequeues(n) \/ ComputeFails(n)
    BY <2>4, SparedStill DEF HearsNothing, CancelledEarly, ChatRequeues, ComputeFails, speechVars
  <2>5. QED
    BY <2>1, <2>2, <2>3, <2>4
<1>4. IsUserTurn(n) => ~turn[n].silenced
  <2>1. ASSUME IsUserTurn(n), turn[n].silenced PROVE FALSE
    <3>1. IsOver(turn[n]) \/ (IsEnding(turn[n]) /\ ttsCancel)
      BY <2>1 DEF SilenceInv, SilencedEnds, SilentOK
    <3>2. CASE Token(n) \/ PipelineSpeaks(n)
      BY <3>1, <3>2 DEF Token, PipelineSpeaks, IsOver, IsEnding
    <3>3. CASE Answers(n) \/ RowStored(n) \/ Flushes(n)
      BY <3>1, <3>3 DEF Answers, RowStored, Moves, Flushes, IsOver, IsEnding
    <3>4. CASE SpeaksWhole(n)
      BY <3>1, <3>4 DEF SpeaksWhole, ReadyToTell, IsOver, IsEnding
    <3>5. CASE VoiceBegins(n) \/ ChatBegins(n) \/ HearsNothing(n) \/ CancelledEarly(n)
      BY <3>1, <3>5 DEF VoiceBegins, ChatBegins, HearsNothing, CancelledEarly, IsOver, IsEnding, InReply
    <3>6. CASE ChatRequeues(n) \/ ComputeFails(n)
      BY <3>1, <3>6 DEF ChatRequeues, ComputeFails, IsOver, IsEnding, InReply
    <3>7. QED
      BY <3>2, <3>3, <3>4, <3>5, <3>6
  <2>2. QED
    BY <2>1
<1>5. \A m \in Turns \ {n} : Bystander(m)
  BY <1>2, SameIsBystander DEF View
<1>6. QED
  BY <1>1, <1>2, <1>3, <1>4, <1>5, SilenceStep DEF View, IsUserTurn

(* Steps of a turn that has been cut short.                                   *)
LEMMA SilenceCut ==
  ASSUME IInv, SilenceInv, NEW n \in Turns, PipelineDrains(n) \/ Unwinds(n) \/ Salvages(n)
  PROVE  SilenceInv'
<1>1. TypeOK /\ turn[n].kind # "proactive"
  BY DEF IInv, SilenceInv, NoneProactive
<1>2. Spared
  BY SparedStill DEF PipelineDrains, Unwinds, Salvages, speechVars
<1>3. \/ View(n, turn[n].kind, turn[n].at, FALSE, turn[n].cancelled, turn[n].rows) /\ turn[n].fed
      \/ View(n, turn[n].kind, "unwinding", turn[n].fed, FALSE, turn[n].rows) /\ turn[n].at # "gone" /\ turn[n].at # "joining"
      \/ View(n, turn[n].kind, "saving", turn[n].fed, FALSE, turn[n].rows) /\ turn[n].at # "gone" /\ turn[n].at # "joining"
  <2>1. CASE PipelineDrains(n)
    BY <1>1, <2>1, FeedView DEF PipelineDrains
  <2>2. CASE Unwinds(n) \/ Salvages(n)
    <3>1. turn[n].at # "gone" /\ turn[n].at # "joining"
      BY <2>2 DEF Unwinds, Salvages, CanSalvage
    <3>2. QED
      BY <1>1, <2>2, <3>1, ReplyView
  <2>3. QED
    BY <2>1, <2>2
<1>4. IsUserTurn(n) /\ turn[n].silenced => IsOver(turn[n]) \/ IsEnding(turn[n])
  BY DEF SilenceInv, SilencedEnds, SilentOK
<1>5. /\ turn'[n].kind = turn[n].kind /\ turn'[n].silenced = turn[n].silenced
      /\ \A m \in Turns \ {n} : Bystander(m)
  BY <1>3, SameIsBystander DEF View
<1>6. IsUserTurn(n) /\ turn[n].silenced => IsEnding(turn'[n]) /\ ~IsOver(turn[n])
  BY <1>3, <1>4 DEF View, IsOver, IsEnding, InReply
<1>7. QED
  BY <1>1, <1>2, <1>5, <1>6, SilenceStep DEF IsUserTurn

(* A turn ends.                                                               *)
LEMMA SilenceEnds ==
  ASSUME IInv, SilenceInv, Spared, NEW n \in Turns, NEW fed, NEW rows, EndsWith(n, fed, rows),
         ~fed \/ ~IsUserTurn(n) \/ ~turn[n].silenced
  PROVE  SilenceInv'
<1>1. \A m \in Turns \ {n} : Bystander(m)
  BY BesideView DEF EndsWith, StepOf
<1>2. turn'[n].kind = turn[n].kind /\ turn'[n].silenced = turn[n].silenced /\ turn[n].kind # "proactive"
  BY DEF EndsWith, LastOf, SilenceInv, NoneProactive
<1>3. ~fed => IsOver(turn'[n])
  BY DEF EndsWith, LastOf, IsOver
<1>4. QED
  BY <1>1, <1>2, <1>3, SilenceStep DEF IsUserTurn

LEMMA SilenceTurnEnds ==
  ASSUME IInv, SilenceInv, NEW n \in Turns,
         \/ Tells(n) \/ Fails(n) \/ NothingToSalvage(n) \/ Saved(n) \/ CancelledLate(n)
         \/ ComputeDelivers(n) \/ Joined(n)
  PROVE  SilenceInv'
<1>1. Spared
  <2>1. CASE Tells(n) \/ Fails(n) \/ NothingToSalvage(n) \/ Saved(n) \/ CancelledLate(n)
    <3>1. \E t : EndTurn(n, t)
      BY <2>1 DEF Tells, Fails, NothingToSalvage, Saved, CancelledLate
    <3>2. QED
      BY <3>1, SparedStill DEF EndTurn
  <2>2. CASE ComputeDelivers(n) \/ Joined(n)
    BY <2>2, SparedStill DEF ComputeDelivers, Joined, speechVars
  <2>3. QED
    BY <2>1, <2>2
<1>2. CASE Tells(n) \/ NothingToSalvage(n) \/ Saved(n) \/ CancelledLate(n)
  BY <1>1, <1>2, DrainedEnds, SilenceEnds
<1>3. CASE Fails(n)
  <2>1. turn[n].at \in {"thinking", "storing"} /\ ~turn[n].cancelled
    BY <1>3 DEF Fails
  <2>2. IsUserTurn(n) => ~turn[n].silenced
    BY <2>1 DEF SilenceInv, SilencedEnds, SilentOK, IsOver, IsEnding
  <2>3. QED
    BY <1>1, <1>3, <2>2, FailsEffect, SilenceEnds
<1>4. CASE ComputeDelivers(n)
  <2>1. ~IsUserTurn(n)
    BY <1>4 DEF ComputeDelivers, IsUserTurn
  <2>2. QED
    BY <1>1, <1>4, <2>1, ComputeDeliversEffect, SilenceEnds
<1>5. CASE Joined(n)
  <2>1. turn[n].at = "joining"
    BY <1>5 DEF Joined
  <2>2. IsUserTurn(n) /\ turn[n].silenced => ~turn[n].fed
    BY <2>1 DEF SilenceInv, SilencedEnds, SilentOK, IsOver, IsEnding, InReply
  <2>3. QED
    BY <1>1, <1>5, <2>2, JoinedEnds, SilenceEnds
<1>6. QED
  BY <1>2, <1>3, <1>4, <1>5

LEMMA SilenceLoop ==
  ASSUME IInv, SilenceInv, HandlerDelivered \/ PlaybackStops PROVE SilenceInv'
<1>1. \A m \in Turns : Bystander(m) \/ Handled(m)
  BY DrainView
<1>2. CASE HandlerTells
  BY <1>1, <1>2, SparedStill, SilenceBystanders DEF HandlerTells
<1>3. CASE HandlerSpeaks /\ (CanDeliver(playback) \/ CanDeliver(FALSE))
  <2>1. ~Alive(turnTask)
    BY <1>3 DEF CanDeliver, Blocks
  <2>2. pending \in Turns /\ turn[pending].kind \in QueuedKinds /\ heard' = pending
    BY <1>3, TypedTurns DEF HandlerSpeaks, BeginSpeaking, IInv, QueueOK
  <2>3. QED
    BY <1>1, <2>1, <2>2, SparedQuiet, SilenceBystanders
<1>4. QED
  BY <1>2, <1>3, HandlerDeliveredEffect, PlaybackStopsEffect

LEMMA SilenceInterrupt ==
  ASSUME IInv, SilenceInv, Interrupt PROVE SilenceInv'
<1>1. turn \in [Turns -> Turn] /\ \A m \in Turns : InterruptedAs(turn'[m], m)
  BY InterruptEffect, TypedTurns DEF IInv
<1>2. heard' = NoTurn /\ ttsCancel' = TRUE
  BY DEF Interrupt
<1>3. ASSUME NEW m \in Turns, IsUserTurn(m)', turn'[m].silenced
      PROVE  heard' # m /\ (IsOver(turn'[m]) \/ IsEnding(turn'[m]))
  <2>1. InterruptedAs(turn'[m], m) /\ IsUserTurn(m)
    BY <1>1, <1>3 DEF InterruptedAs, IsUserTurn
  <2>2. CASE turn[m].silenced
    <3>1. IsOver(turn[m]) \/ IsEnding(turn[m])
      BY <2>1, <2>2 DEF SilenceInv, SilencedEnds, SilentOK
    <3>2. QED
      BY <1>2, <2>1, <3>1, TurnNumbers DEF InterruptedAs, IsOver, IsEnding
  <2>3. CASE Alive(m) /\ turn[m].at \in InReply \cup {"delivering"}
    <3>1. m = turnTask /\ turn[m].at \in InReply
      BY <2>1, <2>3 DEF IInv, OneUserTurn, ShapesOK, ShapeOK, KindFits, IsUserTurn, QueuedKinds
    <3>2. turn'[m].cancelled /\ turn'[m].at \in InReply
      BY <2>1, <2>3, <3>1 DEF InterruptedAs
    <3>3. QED
      BY <1>2, <3>2, TurnNumbers DEF IsEnding
  <2>4. QED
    BY <1>3, <2>1, <2>2, <2>3 DEF InterruptedAs
<1>4. SilencedEnds'
  BY <1>2, <1>3 DEF SilencedEnds, SilentOK
<1>5. NoneProactive'
  BY <1>1 DEF NoneProactive, SilenceInv, InterruptedAs
<1>6. QED
  BY <1>4, <1>5 DEF SilenceInv

LEMMA SilenceMessages ==
  ASSUME IInv, SilenceInv, NEW n \in Turns, AudioEnd(n) \/ ChatStarts(n) \/ ChatQueues(n) PROVE SilenceInv'
<1>1. turn[n].at = "unused" /\ ~turn[n].silenced /\ TypeOK
  BY DEF AudioEnd, ChatStarts, ChatQueues, NextTurn, IInv, ShapesOK, ShapeOK
<1>2. Spared
  BY SparedStill DEF AudioEnd, ChatStarts, ChatQueues, speechVars
<1>3. CASE ChatQueues(n)
  <2>1. \A m \in Turns \ {n} : Bystander(m)
    BY <1>3, ChatQueuesView, BesideView DEF StepOf
  <2>2. turn'[n].kind # "proactive" /\ turn'[n].silenced = turn[n].silenced
    BY <1>3, ChatQueuesView
  <2>3. QED
    BY <1>1, <1>2, <2>1, <2>2, SilenceStep
<1>4. CASE (AudioEnd(n) \/ ChatStarts(n)) /\ turn' = turn
  BY <1>2, <1>4, SameIsBystander, SilenceBystanders
<1>5. CASE (AudioEnd(n) \/ ChatStarts(n)) /\ turn' # turn
  <2>1. \E kind \in {"voice", "chat"} : \E at : View(n, kind, at, turn[n].fed, turn[n].cancelled, turn[n].rows)
    BY <1>1, <1>5, UserStartView
  <2>2. \A m \in Turns \ {n} : Bystander(m)
    BY <2>1, SameIsBystander DEF View
  <2>3. turn'[n].kind # "proactive" /\ turn'[n].silenced = turn[n].silenced
    BY <2>1 DEF View
  <2>4. QED
    BY <1>1, <1>2, <2>2, <2>3, SilenceStep
<1>6. QED
  BY <1>3, <1>4, <1>5

LEMMA SilenceKept ==
  ASSUME IInv, NoSignals, SilenceInv, Next PROVE SilenceInv'
<1>1. TypeOK
  BY DEF IInv
<1>2. ASSUME NEW n \in Turns PROVE ~ProactiveBegins(n)
  BY DEF NoSignals, ProactiveBegins
<1>3. ASSUME NEW n \in Turns, ComputeAnswers(n) PROVE SilenceInv'
  <2>1. turn[n].kind = "compute" /\ turn[n].kind \in QueuedKinds /\ ~IsUserTurn(n)
    BY <1>3 DEF ComputeAnswers, IInv, ShapesOK, ShapeOK, KindFits, QueuedKinds, IsUserTurn
  <2>2. CASE Keeps(n) \/ TellsOnly(n)
    <3>1. Spared
      BY <2>2, SparedStill DEF Keeps, TellsOnly, speechVars
    <3>2. QED
      BY <2>1, <2>2, <3>1, SilenceEnds DEF Keeps, TellsOnly
  <2>3. CASE Speaks(n)
    <3>1. View(n, turn[n].kind, "delivering", turn[n].fed, turn[n].cancelled, turn[n].rows + 1)
      BY <1>1, <2>3, SpeaksView
    <3>2. Spared
      BY <2>1, <2>3, SparedQuiet DEF Speaks, Blocks, BeginSpeaking
    <3>3. turn'[n].kind = "compute" /\ turn'[n].silenced = turn[n].silenced
          /\ \A m \in Turns \ {n} : Bystander(m)
      BY <2>1, <3>1, SameIsBystander DEF View
    <3>4. QED
      BY <3>2, <3>3, SilenceStep DEF IsUserTurn
  <2>4. QED
    BY <1>3, <2>2, <2>3, ComputeAnswersEffect
<1>4. ASSUME NEW n \in Turns, ComputeCancelled(n) PROVE SilenceInv'
  <2>1. Spared /\ turn[n].kind = "compute"
    BY <1>4, SparedStill DEF ComputeCancelled
  <2>2. /\ turn'[n].kind = turn[n].kind /\ turn'[n].silenced = turn[n].silenced
        /\ \A m \in Turns \ {n} : Bystander(m)
    BY <1>4, ComputeCancelledEffect, SameIsBystander
  <2>3. QED
    BY <2>1, <2>2, SilenceStep DEF IsUserTurn
<1>5. CASE HandlerJoined
  <2>1. \A m \in Turns : Bystander(m)
    BY <1>5, HandlerJoinedKeeps, BesideView, TurnNumbers DEF StepOf
  <2>2. Spared
    BY <1>5, SparedStill DEF HandlerJoined, speechVars
  <2>3. QED
    BY <2>1, <2>2, SilenceBystanders
<1>6. CASE InterruptSaved
  <2>1. PICK n \in Turns, r \in Turn :
          /\ Edits(n, r) /\ r.kind = turn[n].kind /\ r.at = turn[n].at /\ r.fed = turn[n].fed
          /\ r.silenced = turn[n].silenced /\ r.cancelled = turn[n].cancelled
    BY <1>6, InterruptSavedEffect
  <2>2. turn'[n] = r /\ \A m \in Turns \ {n} : turn'[m] = turn[m]
    BY <1>1, <2>1, EditEffect
  <2>3. Spared
    BY <1>6, SparedStill DEF InterruptSaved, speechVars
  <2>4. IsUserTurn(n) /\ turn[n].silenced => IsOver(turn[n]) \/ IsEnding(turn[n])
    BY DEF SilenceInv, SilencedEnds, SilentOK
  <2>5. IsOver(turn'[n]) = IsOver(turn[n]) /\ IsEnding(turn'[n]) = IsEnding(turn[n])
    BY <2>1, <2>2 DEF IsOver, IsEnding
  <2>6. QED
    BY <2>1, <2>2, <2>3, <2>4, <2>5, SameIsBystander, SilenceStep DEF IsUserTurn, SilenceInv, NoneProactive
<1>7. ASSUME NEW n \in Turns, Sounds(n) PROVE SilenceInv'
  <2>1. Spared /\ turn' = turn
    BY <1>7, SparedSpeech DEF Sounds
  <2>2. QED
    BY <2>1, SameIsBystander, SilenceBystanders
<1>8. CASE AudioStart \/ AudioEndsEmpty \/ PlaybackStarts \/ GraceOver
  <2>1. Spared /\ turn' = turn
    BY <1>8, SparedStill DEF AudioStart, AudioEndsEmpty, PlaybackStarts, GraceOver, speechVars
  <2>2. QED
    BY <2>1, SameIsBystander, SilenceBystanders
<1>9. QED
  BY <1>2, <1>3, <1>4, <1>5, <1>6, <1>7, <1>8, SilenceReplies, SilenceCut, SilenceTurnEnds, SilenceLoop,
     SilenceInterrupt, SilenceMessages, NextCases

LEMMA SilenceInductive == ASSUME NoSignals PROVE Spec => []SilenceInv
<1>1. Init => SilenceInv
  BY DEF Init, SilenceInv, NoneProactive, SilencedEnds, SilentOK, Fresh
<1>2. IInv /\ SilenceInv /\ [Next]_vars => SilenceInv'
  <2>1. ASSUME SilenceInv, UNCHANGED vars PROVE SilenceInv'
    BY <2>1 DEF vars, SilenceInv, NoneProactive, SilencedEnds, SilentOK, IsUserTurn
  <2>2. QED
    BY <2>1, SilenceKept
<1>3. QED
  BY <1>1, <1>2, Inductive, PTL DEF Spec

(* "They are NOT spoken after the interrupt. The interrupted turn is over"    *)
(* (PLAN.md): a spoken or typed turn an interrupt met in its reply is heard   *)
(* no more, whatever is queued, delivered, cancelled or fails afterwards, as  *)
(* long as no proactive turn overlaps with it.                               *)
THEOREM InterruptedTurnIsOver == ASSUME NoSignals PROVE Spec => []InterruptedUserTurnIsOver
<1>1. IInv /\ SilenceInv => InterruptedUserTurnIsOver
  BY DEF IInv, TypeOK, SilenceInv, SilencedEnds, SilentOK, InterruptedUserTurnIsOver
<1>2. QED
  BY <1>1, Inductive, SilenceInductive, PTL

-----------------------------------------------------------------------------
(* Without failures and proactive turns: no typed message is lost            *)
ChatKinds == {"chat", "compute", "handled"}

ChatMoves(m) ==
  /\ turn'[m].at = "unused" => turn[m].at = "unused"
  /\ turn[m].at = "unused" => turn'[m].at = "unused" \/ NextTurn(m)
  /\ turn[m].kind \in ChatKinds => turn'[m].kind \in ChatKinds
  /\ turn'[m].at = "waiting" => turn[m].at = "waiting" \/ queued' = m

(* The queued chat stays, is taken up, or is replaced by a newer one.         *)
QueueKeeps ==
  \/ queued' = queued \/ queued = NoTurn \/ turn'[queued].at # "waiting"
  \/ \E k \in Turns : NextTurn(k) /\ turn'[k].kind \in ChatKinds

CreatedMoves(m) == turn'[m].at = "created" => turn[m].at = "created"

QuietWays ==
  \/ ~session_busy'
  \/ \A m \in Turns : turn'[m].at # "created"
  \/ speech' = speech /\ \A m \in Turns : CreatedMoves(m)

LEMMA ChatWays ==
  ASSUME IInv, ChatInv, \A m \in Turns : ChatMoves(m), QueueKeeps, QuietWays PROVE ChatInv'
<1>1. CreatedQuiet'
  BY DEF QuietWays, CreatedMoves, ChatInv, CreatedQuiet, session_busy
<1>2. UnusedLast'
  <2>1. ASSUME NEW m \in Turns, NEW n \in Turns, m < n, turn'[m].at = "unused" PROVE turn'[n].at = "unused"
    <3>1. turn[m].at = "unused" /\ turn[n].at = "unused"
      BY <2>1 DEF ChatMoves, ChatInv, UnusedLast
    <3>2. ~NextTurn(n)
      BY <2>1, <3>1 DEF NextTurn, Turns
    <3>3. QED
      BY <3>1, <3>2 DEF ChatMoves
  <2>2. QED
    BY <2>1 DEF UnusedLast
<1>3. NoChatLost'
  <2>1. ASSUME NEW n \in Turns, turn'[n].at = "waiting", queued' # n
        PROVE  \E m \in Turns : m > n /\ turn'[m].kind \in ChatKinds
    <3>1. turn[n].at = "waiting"
      BY <2>1 DEF ChatMoves
    <3>2. CASE queued # n
      <4>1. PICK m \in Turns : m > n /\ turn[m].kind \in ChatKinds
        BY <3>1, <3>2 DEF ChatInv, NoChatLost, ChatKinds
      <4>2. turn'[m].kind \in ChatKinds
        BY <4>1 DEF ChatMoves
      <4>3. QED
        BY <4>1, <4>2
    <3>3. CASE queued = n
      <4>1. PICK k \in Turns : NextTurn(k) /\ turn'[k].kind \in ChatKinds
        BY <2>1, <3>3, TurnNumbers DEF QueueKeeps
      <4>2. turn[k].at = "unused" /\ turn[n].at # "unused"
        BY <3>1, <4>1 DEF NextTurn
      <4>3. ~(k < n) /\ k # n
        BY <4>2 DEF ChatInv, UnusedLast
      <4>4. k > n
        BY <4>3, TurnNumbers
      <4>5. QED
        BY <4>1, <4>4
    <3>4. QED
      BY <3>2, <3>3
  <2>2. QED
    BY <2>1 DEF NoChatLost, ChatKinds
<1>4. QED
  BY <1>1, <1>2, <1>3 DEF ChatInv

LEMMA ChatBystander ==
  ASSUME NEW m \in Turns, Bystander(m) \/ Handled(m)
  PROVE  ChatMoves(m) /\ CreatedMoves(m)
  BY DEF Bystander, Handled, ChatMoves, CreatedMoves, ChatKinds, QueuedKinds

LEMMA QueueMovesKeeps == ASSUME IInv, QueueMoves PROVE QueueKeeps
<1>1. CASE queued # NoTurn /\ turn'[queued] = [turn[queued] EXCEPT !.kind = "compute", !.at = "computing"]
  <2>1. turn[queued] \in Turn
    BY <1>1, TypedTurns DEF IInv
  <2>2. turn'[queued].at = "computing"
    BY <1>1, <2>1 DEF Turn
  <2>3. QED
    BY <2>2 DEF QueueKeeps
<1>2. QED
  BY <1>1 DEF QueueMoves, QueueKeeps

(* Turn n goes on or ends.                                                    *)
LEMMA ChatStep ==
  ASSUME IInv, ChatInv, NEW n \in Turns, \A m \in Turns \ {n} : Bystander(m), turn[n].at # "unused",
         turn'[n].kind = turn[n].kind, turn'[n].at \notin {"unused", "waiting", "created"} \/ turn'[n].at = turn[n].at,
         QueueKeeps,
         \/ ~session_busy' \/ speech' = speech
         \/ \A m \in Turns : turn[m].at # "created"
         \/ turn'[n].at # "created" /\ \A m \in Turns \ {n} : turn[m].at # "created"
  PROVE  ChatInv'
<1>1. \A m \in Turns \ {n} : ChatMoves(m) /\ CreatedMoves(m)
  BY ChatBystander
<1>2. ChatMoves(n) /\ CreatedMoves(n)
  BY DEF ChatMoves, CreatedMoves
<1>3. QuietWays
  BY <1>1, <1>2 DEF QuietWays, CreatedMoves
<1>4. QED
  BY <1>1, <1>2, <1>3, ChatWays

(* No typed turn is created while another user turn runs.                     *)
LEMMA OnlyCreated ==
  ASSUME IInv, NEW n \in Turns, IsUserTurn(n), Alive(n)
  PROVE  \A m \in Turns \ {n} : turn[m].at # "created"
<1>1. ASSUME NEW m \in Turns, turn[m].at = "created" PROVE m = n
  <2>1. IsUserTurn(m) /\ Alive(m)
    BY <1>1, TurnNumbers DEF IInv, ShapesOK, ShapeOK, KindFits, IsUserTurn, Alive
  <2>2. QED
    BY <2>1 DEF IInv, OneUserTurn
<1>2. QED
  BY <1>1

LEMMA NoneCreated ==
  ASSUME IInv, ~Alive(turnTask) PROVE \A m \in Turns : turn[m].at # "created"
<1>1. ASSUME NEW m \in Turns, turn[m].at = "created" PROVE FALSE
  <2>1. IsUserTurn(m) /\ Alive(m)
    BY <1>1, TurnNumbers DEF IInv, ShapesOK, ShapeOK, KindFits, IsUserTurn, Alive
  <2>2. QED
    BY <2>1 DEF IInv, OneUserTurn
<1>2. QED
  BY <1>1

LEMMA ChatReplies ==
  ASSUME IInv, BusyInv, SilenceInv, ChatInv, NEW n \in Turns,
         \/ VoiceBegins(n) \/ ChatBegins(n) \/ Token(n) \/ PipelineSpeaks(n) \/ PipelineDrains(n)
         \/ Answers(n) \/ RowStored(n) \/ SpeaksWhole(n) \/ Flushes(n)
         \/ HearsNothing(n) \/ CancelledEarly(n) \/ Unwinds(n) \/ Salvages(n)
  PROVE  ChatInv'
<1>1. TypeOK /\ ShapeOK(turn[n]) /\ turn[n].kind # "proactive" /\ (turn[n].fed => turn[n].at \in InReply)
  BY DEF IInv, ShapesOK, SilenceInv, NoneProactive, BusyInv, FedReplies
<1>2. \E at, fed, cancelled, rows :
        /\ View(n, turn[n].kind, at, fed, cancelled, rows)
        /\ at \notin {"unused", "waiting", "created"} \/ at = turn[n].at
  <2>1. CASE VoiceBegins(n) \/ ChatBegins(n) \/ Flushes(n)
    <3>1. \E at \in {"thinking", "flushing"} : \E fed, cancelled, rows : View(n, turn[n].kind, at, fed, cancelled, rows)
      BY <1>1, <2>1, BeginsView, FlushView
    <3>2. QED
      BY <3>1
  <2>2. CASE Token(n)
    <3>1. View(n, turn[n].kind, "thinking", turn[n].voice, turn[n].cancelled, turn[n].rows)
      BY <1>1, <2>2, FeedView
    <3>2. QED
      BY <3>1
  <2>3. CASE PipelineSpeaks(n) \/ PipelineDrains(n)
    BY <1>1, <2>3, FeedView
  <2>4. CASE \/ Answers(n) \/ RowStored(n) \/ SpeaksWhole(n)
             \/ HearsNothing(n) \/ CancelledEarly(n) \/ Unwinds(n) \/ Salvages(n)
    <3>1. \E at \in {"storing", "stored", "batch", "gone", "unwinding", "saving"} : \E cancelled, rows :
            View(n, turn[n].kind, at, turn[n].fed, cancelled, rows)
      BY <1>1, <2>4, ReplyView
    <3>2. QED
      BY <3>1
  <2>5. QED
    BY <2>1, <2>2, <2>3, <2>4
<1>3. turn[n].at \in InReply \cup {"created", "hearing"}
  <2>1. CASE VoiceBegins(n) \/ ChatBegins(n) \/ Token(n) \/ PipelineSpeaks(n) \/ PipelineDrains(n)
    BY <1>1, <2>1 DEF VoiceBegins, ChatBegins, Token, PipelineSpeaks, PipelineDrains, InReply
  <2>2. CASE \/ Answers(n) \/ RowStored(n) \/ SpeaksWhole(n) \/ Flushes(n)
             \/ HearsNothing(n) \/ CancelledEarly(n) \/ Unwinds(n) \/ Salvages(n)
    BY <2>2 DEF Answers, RowStored, Moves, SpeaksWhole, ReadyToTell, HearsNothing, CancelledEarly, Unwinds, Salvages,
                CanSalvage, Flushes, InReply
  <2>3. QED
    BY <2>1, <2>2
<1>4. queued' = queued
  <2>1. CASE VoiceBegins(n) \/ ChatBegins(n)
    <3>1. \E via : Begin(n, via)
      BY <2>1 DEF VoiceBegins, ChatBegins
    <3>2. QED
      BY <3>1 DEF Begin, queueVars
  <2>2. CASE Token(n) \/ PipelineSpeaks(n) \/ PipelineDrains(n)
    BY <2>2 DEF Token, PipelineSpeaks, PipelineDrains, queueVars
  <2>3. CASE Answers(n) \/ RowStored(n) \/ SpeaksWhole(n) \/ Flushes(n)
    BY <2>3 DEF Answers, RowStored, Moves, SpeaksWhole, Flushes, queueVars
  <2>4. CASE HearsNothing(n) \/ CancelledEarly(n) \/ Unwinds(n) \/ Salvages(n)
    BY <2>4 DEF HearsNothing, CancelledEarly, Unwinds, Salvages, queueVars
  <2>5. QED
    BY <2>1, <2>2, <2>3, <2>4
<1>5. IsUserTurn(n) /\ Alive(n) /\ turn[n].at # "unused"
  BY <1>1, <1>3, TurnNumbers DEF ShapeOK, KindFits, IsUserTurn, UserKinds, Alive, InReply
<1>6. \A m \in Turns \ {n} : turn[m].at # "created"
  BY <1>5, OnlyCreated
<1>7. speech' = speech \/ turn'[n].at # "created"
  <2>1. CASE VoiceBegins(n) \/ ChatBegins(n)
    <3>1. View(n, turn[n].kind, "thinking", turn[n].fed, turn[n].cancelled, turn[n].rows)
      BY <1>1, <2>1, BeginsView
    <3>2. QED
      BY <3>1 DEF View
  <2>2. CASE PipelineSpeaks(n)
    <3>1. View(n, turn[n].kind, turn[n].at, turn[n].fed, turn[n].cancelled, turn[n].rows)
      BY <1>1, <2>2, FeedView
    <3>2. turn[n].at # "created"
      BY <1>1, <2>2 DEF PipelineSpeaks, InReply
    <3>3. QED
      BY <3>1, <3>2 DEF View
  <2>3. CASE SpeaksWhole(n)
    <3>1. View(n, turn[n].kind, "batch", turn[n].fed, turn[n].cancelled, turn[n].rows)
      BY <1>1, <2>3, ReplyView
    <3>2. QED
      BY <3>1 DEF View
  <2>4. CASE Token(n) \/ PipelineDrains(n) \/ Answers(n) \/ RowStored(n) \/ Flushes(n)
    BY <2>4 DEF Token, PipelineDrains, Answers, RowStored, Moves, Flushes, speechVars
  <2>5. CASE HearsNothing(n) \/ CancelledEarly(n) \/ Unwinds(n) \/ Salvages(n)
    BY <2>5 DEF HearsNothing, CancelledEarly, Unwinds, Salvages, speechVars
  <2>6. QED
    BY <2>1, <2>2, <2>3, <2>4, <2>5
<1>8. /\ \A m \in Turns \ {n} : Bystander(m)
      /\ turn'[n].kind = turn[n].kind
      /\ turn'[n].at \notin {"unused", "waiting", "created"} \/ turn'[n].at = turn[n].at
  BY <1>2, SameIsBystander DEF View
<1>9. QueueKeeps
  BY <1>4 DEF QueueKeeps
<1>10. QED
  BY <1>5, <1>6, <1>7, <1>8, <1>9, ChatStep

LEMMA ChatEnds ==
  ASSUME IInv, ChatInv, NEW n \in Turns, NEW fed, NEW rows, EndsWith(n, fed, rows), turn[n].at # "unused",
         ~session_busy' \/ speech' = speech
  PROVE  ChatInv'
<1>1. \A m \in Turns \ {n} : Bystander(m)
  BY BesideView DEF EndsWith, StepOf
<1>2. turn'[n].kind = turn[n].kind /\ turn'[n].at \notin {"unused", "waiting", "created"}
  BY DEF EndsWith, LastOf
<1>3. QueueKeeps
  BY QueueMovesKeeps DEF EndsWith
<1>4. QED
  BY <1>1, <1>2, <1>3, ChatStep

LEMMA ChatTurnEnds ==
  ASSUME IInv, ChatInv, NEW n \in Turns,
         \/ Tells(n) \/ NothingToSalvage(n) \/ Saved(n) \/ CancelledLate(n)
         \/ ComputeDelivers(n) \/ Joined(n)
  PROVE  ChatInv'
<1>1. CASE Tells(n) \/ NothingToSalvage(n) \/ Saved(n) \/ CancelledLate(n)
  <2>1. turn[n].at # "unused"
    BY <1>1 DEF Tells, ReadyToTell, NothingToSalvage, CanSalvage, Saved, CancelledLate
  <2>2. ~session_busy'
    BY <1>1, DrainedEnds DEF session_busy
  <2>3. QED
    BY <1>1, <2>1, <2>2, DrainedEnds, ChatEnds
<1>2. CASE ComputeDelivers(n) \/ Joined(n)
  <2>1. turn[n].at # "unused" /\ (~session_busy' \/ speech' = speech)
    BY <1>2 DEF ComputeDelivers, Joined, FinishTurn, session_busy, speechVars
  <2>2. QED
    BY <1>2, <2>1, ComputeDeliversEffect, JoinedEnds, ChatEnds
<1>3. QED
  BY <1>1, <1>2

LEMMA ChatLoop ==
  ASSUME IInv, ChatInv, HandlerDelivered \/ PlaybackStops PROVE ChatInv'
<1>1. /\ \A m \in Turns : ChatMoves(m) /\ CreatedMoves(m)
      /\ QueueKeeps
  BY DrainView, ChatBystander, QueueMovesKeeps
<1>2. CASE HandlerSpeaks /\ (CanDeliver(playback) \/ CanDeliver(FALSE))
  <2>1. \A m \in Turns : turn'[m].at # "created"
    BY <1>1, <1>2, NoneCreated DEF CanDeliver, Blocks, CreatedMoves
  <2>2. QED
    BY <1>1, <2>1, ChatWays DEF QuietWays
<1>3. CASE speech' = "idle" \/ speech' = speech
  BY <1>1, <1>3, ChatWays DEF QuietWays, session_busy
<1>4. QED
  BY <1>2, <1>3, HandlerDeliveredEffect, PlaybackStopsEffect DEF FinishTurn

LEMMA ChatMessages ==
  ASSUME IInv, ChatInv, NEW n \in Turns, AudioEnd(n) \/ ChatStarts(n) \/ ChatQueues(n) PROVE ChatInv'
<1>1. turn[n].at = "unused" /\ turn[n].kind = "none" /\ NextTurn(n) /\ TypeOK
  BY DEF AudioEnd, ChatStarts, ChatQueues, NextTurn, IInv, ShapesOK, ShapeOK
<1>2. CASE ChatQueues(n)
  <2>1. \A m \in Turns \ {n} : ChatMoves(m) /\ CreatedMoves(m)
    BY <1>2, ChatQueuesView, BesideView, ChatBystander DEF StepOf
  <2>2. \/ turn'[n].kind = "chat" /\ turn'[n].at = "waiting" /\ queued' = n
        \/ turn'[n].kind = "compute" /\ turn'[n].at = "computing"
    BY <1>2, ChatQueuesView
  <2>3. ChatMoves(n) /\ CreatedMoves(n) /\ turn'[n].kind \in ChatKinds
    BY <1>1, <2>2 DEF ChatMoves, CreatedMoves, ChatKinds
  <2>4. speech' = speech
    BY <1>2 DEF ChatQueues, speechVars
  <2>5. QueueKeeps
    BY <1>1, <2>3 DEF QueueKeeps
  <2>6. QED
    BY <2>1, <2>3, <2>4, <2>5, ChatWays DEF QuietWays
<1>3. CASE AudioEnd(n) \/ ChatStarts(n)
  <2>1. turn' = turn \/ \E kind \in {"voice", "chat"}, at \in {"hearing", "created"} :
                          View(n, kind, at, turn[n].fed, turn[n].cancelled, turn[n].rows)
    BY <1>1, <1>3, UserStartView
  <2>2. \A m \in Turns \ {n} : Bystander(m)
    BY <2>1, SameIsBystander DEF View
  <2>3. turn'[n] = turn[n] \/ turn'[n].at \in {"hearing", "created"}
    BY <2>1 DEF View
  <2>4. ChatMoves(n)
    BY <1>1, <2>3 DEF ChatMoves, ChatKinds
  <2>5. ~session_busy'
    BY <1>3 DEF AudioEnd, ChatStarts, ShouldQueue, session_busy, speechVars
  <2>6. QueueKeeps
    BY <1>3 DEF AudioEnd, ChatStarts, queueVars, QueueKeeps
  <2>7. QED
    BY <2>2, <2>4, <2>5, <2>6, ChatBystander, ChatWays DEF QuietWays
<1>4. QED
  BY <1>2, <1>3

LEMMA ChatKept ==
  ASSUME IInv, NoFailures, NoSignals, BusyInv, SilenceInv, ChatInv, Next PROVE ChatInv'
<1>1. TypeOK
  BY DEF IInv
<1>2. ASSUME NEW n \in Turns PROVE ~ProactiveBegins(n) /\ ~Fails(n) /\ ~ComputeFails(n) /\ ~ChatRequeues(n)
  BY DEF NoSignals, ProactiveBegins, NoFailures, Fails, ComputeFails, ChatRequeues, ChatInv, CreatedQuiet
<1>3. ASSUME NEW n \in Turns, ComputeAnswers(n) PROVE ChatInv'
  <2>1. turn[n].at = "computing"
    BY <1>3 DEF ComputeAnswers
  <2>2. CASE Keeps(n) \/ TellsOnly(n)
    <3>1. ~session_busy' \/ speech' = speech
      BY <2>2 DEF Keeps, TellsOnly, FinishTurn, session_busy, speechVars
    <3>2. QED
      BY <2>1, <2>2, <3>1, ChatEnds DEF Keeps, TellsOnly
  <2>3. CASE Speaks(n)
    <3>1. View(n, turn[n].kind, "delivering", turn[n].fed, turn[n].cancelled, turn[n].rows + 1)
      BY <1>1, <2>3, SpeaksView
    <3>2. \A m \in Turns : turn[m].at # "created"
      BY <2>3, NoneCreated DEF Speaks, Blocks
    <3>3. turn'[n].kind = turn[n].kind /\ turn'[n].at = "delivering" /\ \A m \in Turns \ {n} : Bystander(m)
      BY <3>1, SameIsBystander DEF View
    <3>4. QueueKeeps
      BY <2>3 DEF Speaks, QueueKeeps
    <3>5. QED
      BY <2>1, <3>2, <3>3, <3>4, ChatStep
  <2>4. QED
    BY <1>3, <2>2, <2>3, ComputeAnswersEffect
<1>4. ASSUME NEW n \in Turns, ComputeCancelled(n) PROVE ChatInv'
  <2>1. turn[n].at # "unused" /\ (~session_busy' \/ speech' = speech) /\ QueueKeeps
    BY <1>4 DEF ComputeCancelled, FinishTurn, session_busy, QueueKeeps
  <2>2. turn'[n].kind = turn[n].kind /\ turn'[n].at = "gone" /\ \A m \in Turns \ {n} : Bystander(m)
    BY <1>4, ComputeCancelledEffect, SameIsBystander
  <2>3. QED
    BY <2>1, <2>2, ChatStep
<1>5. CASE HandlerJoined
  <2>1. \A m \in Turns : ChatMoves(m) /\ CreatedMoves(m)
    BY <1>5, HandlerJoinedKeeps, BesideView, ChatBystander, TurnNumbers DEF StepOf
  <2>2. speech' = speech
    BY <1>5 DEF HandlerJoined, speechVars
  <2>3. QueueKeeps
    <3>1. queued # NoTurn => turn' = [turn EXCEPT ![queued].kind = "compute", ![queued].at = "computing"]
      BY <1>5 DEF HandlerJoined, Launch
    <3>2. queued # NoTurn => turn'[queued].at = "computing"
      BY <1>1, <3>1, TypedTurns DEF Turn
    <3>3. QED
      BY <3>2 DEF QueueKeeps
  <2>4. QED
    BY <2>1, <2>2, <2>3, ChatWays DEF QuietWays
<1>6. CASE Interrupt
  <2>1. \A m \in Turns : InterruptedAs(turn'[m], m)
    BY <1>1, <1>6, InterruptEffect
  <2>2. \A m \in Turns : ChatMoves(m)
    BY <2>1 DEF InterruptedAs, ChatMoves, ChatKinds
  <2>3. ~session_busy' /\ QueueKeeps
    BY <1>6 DEF Interrupt, session_busy, queueVars, QueueKeeps
  <2>4. QED
    BY <2>2, <2>3, ChatWays DEF QuietWays
<1>7. CASE InterruptSaved
  <2>1. PICK n \in Turns, r \in Turn : Edits(n, r) /\ r.kind = turn[n].kind /\ r.at = turn[n].at
    BY <1>7, InterruptSavedEffect
  <2>2. turn'[n] = r /\ \A m \in Turns \ {n} : turn'[m] = turn[m]
    BY <1>1, <2>1, EditEffect
  <2>3. \A m \in Turns : ChatMoves(m) /\ CreatedMoves(m)
    BY <2>1, <2>2 DEF ChatMoves, CreatedMoves
  <2>4. speech' = speech /\ QueueKeeps
    BY <1>7 DEF InterruptSaved, speechVars, queueVars, QueueKeeps
  <2>5. QED
    BY <2>3, <2>4, ChatWays DEF QuietWays
<1>8. CASE AudioStart \/ AudioEndsEmpty \/ PlaybackStarts \/ GraceOver \/ \E n \in Turns : Sounds(n)
  <2>1. turn' = turn /\ queued' = queued /\ (speech' = speech \/ ~session_busy')
    BY <1>8 DEF AudioStart, AudioEndsEmpty, PlaybackStarts, GraceOver, Sounds, speechVars, queueVars, session_busy
  <2>2. \A m \in Turns : ChatMoves(m) /\ CreatedMoves(m)
    BY <2>1 DEF ChatMoves, CreatedMoves
  <2>3. QED
    BY <2>1, <2>2, ChatWays DEF QuietWays, QueueKeeps
<1>9. QED
  BY <1>2, <1>3, <1>4, <1>5, <1>6, <1>7, <1>8, ChatReplies, ChatTurnEnds, ChatLoop, ChatMessages, NextCases

(* No typed message is forgotten but for a newer one: the single slot of the  *)
(* queue is never overwritten by an older chat that was started and then      *)
(* requeued, as long as no turn fails and no proactive turn speaks while a    *)
(* chat starts.                                                              *)
THEOREM NoChatIsLost == ASSUME NoFailures, NoSignals PROVE Spec => []NoChatLost
<1>1. Init => ChatInv
  BY DEF Init, ChatInv, CreatedQuiet, UnusedLast, NoChatLost, Fresh
<1>2. IInv /\ BusyInv /\ SilenceInv /\ ChatInv /\ [Next]_vars => ChatInv'
  <2>1. ASSUME ChatInv, UNCHANGED vars PROVE ChatInv'
    BY <2>1 DEF vars, ChatInv, CreatedQuiet, session_busy, UnusedLast, NoChatLost
  <2>2. QED
    BY <2>1, ChatKept
<1>3. ChatInv => NoChatLost
  BY DEF ChatInv
<1>4. QED
  BY <1>1, <1>2, <1>3, Inductive, BusyInductive, SilenceInductive, PTL DEF Spec
=============================================================================
