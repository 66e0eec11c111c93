----------------------------- MODULE Live_proofs -----------------------------
(* Theorems about Live, for any sockets, turns, meetings and retries.        *)
EXTENDS Live, TLAPS

(* What TypeOK says of the actors.                                           *)
JobOK(j) ==
  /\ j \in [Actors -> Job]
  /\ \A s \in Sockets : j[s].at \in SocketStage
  /\ \A t \in Turns : j[t].at \in TurnStage
  /\ \A a \in Actors : j[a].at \in {"flushing", "finalizing"} => j[a].met # NoMeeting
  /\ \A s \in Sockets : j[s].at = "superseding" => j[s].found # NoSocket

(* Stages in which an actor has neither a chunk nor a socket in hand.         *)
Bare(a) == IF a \in Sockets THEN SocketStage \ {"superseding", "finalizing"}
           ELSE TurnStage \ {"flushing", "finalizing"}

LEMMA AtType ==
  ASSUME NEW stage \in SocketStage \cup TurnStage
  PROVE  At(stage) \in Job /\ At(stage).at = stage /\ At(stage).met = NoMeeting
         /\ At(stage).found = NoSocket
  BY DEF At, Job

(* An actor that goes to a bare stage leaves the actors well typed.           *)
LEMMA GoesType ==
  ASSUME JobOK(job), NEW a \in Actors, NEW stage \in Bare(a), Goes(a, stage)
  PROVE  JobOK(job')
<1>1. stage \in SocketStage \cup TurnStage
        /\ stage \notin {"superseding", "flushing", "finalizing"}
  BY DEF Bare, SocketStage, TurnStage, Serving, Running
<1>2. At(stage) \in Job /\ At(stage).at = stage
  BY <1>1, AtType
<1>3. a \in Sockets => a \notin Turns
  BY ActorsAssumption
<1>4. a \in Turns => a \notin Sockets
  BY ActorsAssumption
<1>5. QED
  BY <1>1, <1>2, <1>3, <1>4 DEF JobOK, Goes, Bare, Actors

(* So does the cancellation of a turn.                                       *)
LEMMA CancelType ==
  ASSUME NEW j, JobOK(j), turnTask \in Turns \cup {NoTurn}
  PROVE  JobOK(TurnCancelled(j))
<1>1. At("over") \in Job /\ At("over").at = "over"
  BY AtType DEF TurnStage
<1>2. CASE TurnRuns
  <2>1. turnTask \in Turns /\ turnTask \notin Sockets /\ turnTask \in Actors
    BY <1>2, ActorsAssumption DEF TurnRuns, Actors
  <2>2. "over" \in TurnStage
    BY DEF TurnStage
  <2>3. QED
    BY <1>1, <1>2, <2>1, <2>2 DEF TurnCancelled, JobOK
<1>3. CASE ~TurnRuns
  BY <1>3 DEF TurnCancelled
<1>4. QED
  BY <1>2, <1>3

(* The rest of TypeOK.                                                       *)
RestOK ==
  /\ attached \in Sockets \cup {NoSocket} /\ closed \subseteq Sockets
  /\ turnTask \in Turns \cup {NoTurn}
  /\ mode \in {"conversation", "meeting"} /\ meeting \in Meetings \cup {NoMeeting}
  /\ begun \subseteq Meetings
  /\ buffer \in [Meetings -> SUBSET Turns] /\ stored \in [Meetings -> SUBSET Turns]
  /\ post \in [Meetings -> Post]
  /\ said \in [Meetings -> SUBSET Turns] /\ owed \in [Meetings -> SUBSET Turns]

LEMMA TypeParts == TypeOK <=> JobOK(job) /\ RestOK
  BY DEF TypeOK, JobOK, RestOK

(* A job that flushes has a meeting, in its field and in Meetings.           *)
LEMMA JobFields ==
  ASSUME JobOK(job), NEW a \in Actors
  PROVE  /\ job[a] \in Job
         /\ job[a].text \subseteq Turns /\ job[a].before \subseteq Turns
         /\ job[a].at \in {"flushing", "finalizing"} => job[a].met \in Meetings
         /\ a \in Sockets /\ job[a].at = "superseding" => job[a].found \in Sockets
  BY DEF JobOK, Job

-----------------------------------------------------------------------------
(* The strengthening: of the meeting there is now everything said is in the   *)
(* buffer or stored, because only one turn runs, so that nobody says anything *)
(* while a turn stores a chunk. Only exits lose what is said while they store *)
(* their chunk, and with them the meeting is over.                            *)
BegunOnce ==
  /\ meeting # NoMeeting => meeting \in begun
  /\ \A m \in Meetings \ begun : said[m] = {}

OneTurn == \A t \in Turns : job[t].at \in Running => turnTask = t

Heard == meeting # NoMeeting => said[meeting] \subseteq stored[meeting] \cup buffer[meeting]

InChunk ==
  \A t \in Turns : job[t].at = "flushing"
    => buffer[job[t].met] \subseteq job[t].text \cup stored[job[t].met]

ExitCovers ==
  \A a \in Actors : job[a].at = "finalizing"
    => job[a].before \subseteq job[a].text \cup stored[job[a].met]

IInv ==
  /\ TypeOK /\ ModeMatchesMeeting /\ BegunOnce /\ OneTurn
  /\ Heard /\ InChunk /\ ExitCovers /\ RemainingIsFlushed

LEMMA InitIInv == Init => IInv
<1> SUFFICES ASSUME Init PROVE IInv
  OBVIOUS
<1>1. At("new") \in Job /\ At("unused") \in Job /\ At("new").at = "new"
        /\ At("unused").at = "unused"
  BY AtType DEF SocketStage, TurnStage
<1>2. \A s \in Sockets : job[s].at = "new"
  BY <1>1 DEF Init, Actors
<1>3. \A t \in Turns : job[t].at = "unused"
  BY <1>1, ActorsAssumption DEF Init, Actors
<1>4. job \in [Actors -> Job]
  BY <1>1 DEF Init
<1>5. JobOK(job)
  BY <1>2, <1>3, <1>4 DEF JobOK, Actors, SocketStage, TurnStage
<1>6. RestOK
  BY DEF Init, RestOK, Post
<1>7. BegunOnce /\ ModeMatchesMeeting /\ RemainingIsFlushed /\ Heard
  BY DEF Init, BegunOnce, ModeMatchesMeeting, RemainingIsFlushed, Heard
<1>8. OneTurn /\ InChunk /\ ExitCovers
  BY <1>2, <1>3 DEF OneTurn, InChunk, ExitCovers, Running, Actors
<1>9. QED
  BY <1>5, <1>6, <1>7, <1>8, TypeParts DEF IInv

-----------------------------------------------------------------------------
(* Steps after which nobody flushes who has not flushed the same before, and  *)
(* which leave the meetings alone.                                            *)
Retreats ==
  \A a \in Actors : job'[a].at \in {"flushing", "finalizing"} => job'[a] = job[a]

LEMMA QuietKeeps ==
  ASSUME IInv, Retreats, UNCHANGED <<session, text, owed>>,
         JobOK(job'), RestOK', OneTurn'
  PROVE  IInv'
<1>1. TypeOK'
  BY TypeParts DEF TypeOK, JobOK, RestOK
<1>2. ModeMatchesMeeting' /\ BegunOnce' /\ Heard' /\ RemainingIsFlushed'
  BY DEF IInv, ModeMatchesMeeting, BegunOnce, Heard, RemainingIsFlushed, session, text
<1>3. InChunk'
  BY DEF IInv, InChunk, Retreats, text, Actors
<1>4. ExitCovers'
  BY DEF IInv, ExitCovers, Retreats, text
<1>5. QED
  BY <1>1, <1>2, <1>3, <1>4 DEF IInv

(* One turn remains one when an actor moves, or a turn is cancelled.          *)
LEMMA MoveKeepsOneTurn ==
  ASSUME OneTurn, JobOK(job), UNCHANGED turnTask, NEW a \in Actors, NEW r,
         job' = [job EXCEPT ![a] = r], a \in Turns => job[a].at \in Running
  PROVE  OneTurn'
<1>1. \A t \in Turns : t \in Actors
  BY DEF Actors
<1>2. QED
  BY <1>1 DEF OneTurn, JobOK

LEMMA CancelKeepsOneTurn ==
  ASSUME OneTurn, UNCHANGED turnTask, NEW j \in [Actors -> Job], job' = TurnCancelled(j),
         \A t \in Turns : j[t].at \in Running => job[t].at \in Running
  PROVE  OneTurn'
<1>1. CASE TurnRuns
  <2>1. job' = [j EXCEPT ![turnTask] = At("over")]
    BY <1>1 DEF TurnCancelled
  <2>2. turnTask \in Actors => At("over") = job'[turnTask]
    BY <2>1
  <2>3. "over" \notin Running /\ At("over").at = "over"
    BY DEF Running, At
  <2>4. QED
    BY <2>1, <2>2, <2>3 DEF OneTurn, Actors
<1>2. CASE ~TurnRuns
  BY <1>2 DEF TurnCancelled, OneTurn
<1>3. QED
  BY <1>1, <1>2

(* An actor that goes to a bare stage retreats, and so does one with a turn   *)
(* that is cancelled.                                                        *)
LEMMA GoesRetreats ==
  ASSUME JobOK(job), NEW a \in Actors, NEW stage \in Bare(a), Goes(a, stage)
  PROVE  Retreats
<1>1. stage \in SocketStage \cup TurnStage /\ stage \notin {"flushing", "finalizing"}
  BY DEF Bare, SocketStage, TurnStage, Serving, Running
<1>2. At(stage).at = stage
  BY DEF At
<1>3. QED
  BY <1>1, <1>2 DEF Retreats, Goes, JobOK

LEMMA CancelRetreats ==
  ASSUME NEW j \in [Actors -> Job], job' = TurnCancelled(j),
         \A a \in Actors : j[a].at \in {"flushing", "finalizing"} => j[a] = job[a]
  PROVE  Retreats
<1>1. At("over").at = "over"
  BY DEF At
<1>2. QED
  BY <1>1 DEF Retreats, TurnCancelled

-----------------------------------------------------------------------------
(* Connections                                                               *)

LEMMA HelloKeeps ==
  ASSUME IInv, NEW s \in Sockets, HelloArrives(s)
  PROVE  IInv'
<1>0. JobOK(job) /\ RestOK /\ OneTurn /\ s \in Actors /\ s \notin Turns
  BY TypeParts, ActorsAssumption DEF IInv, Actors
<1> DEFINE Supersedes ==
      /\ attached # NoSocket
      /\ job' = [job EXCEPT ![s] = [At("superseding") EXCEPT !.found = attached]]
      /\ UNCHANGED attached
<1>1. CASE Supersedes
  <2> DEFINE r == [At("superseding") EXCEPT !.found = attached]
  <2>1. job' = [job EXCEPT ![s] = r] /\ UNCHANGED attached
    BY <1>1
  <2>2. attached \in Sockets
    BY <1>0, <1>1 DEF RestOK
  <2>3. r \in Job /\ r.at = "superseding" /\ r.found = attached
    BY <2>2 DEF At, Job, SocketStage
  <2>4. JobOK(job')
    BY <1>0, <2>1, <2>2, <2>3, NoneAssumption, ActorsAssumption DEF JobOK, SocketStage, Actors
  <2>5. Retreats
    BY <1>0, <2>1, <2>3 DEF Retreats, JobOK
  <2>6. OneTurn'
    BY <1>0, <2>1, MoveKeepsOneTurn DEF HelloArrives
  <2>7. RestOK'
    BY <1>0, <2>1 DEF RestOK, HelloArrives, session, text, history
  <2>8. QED
    BY <2>4, <2>5, <2>6, <2>7, QuietKeeps DEF HelloArrives, history
<1>2. CASE ~Supersedes
  <2>1. Goes(s, "ensuring") /\ attached' = s /\ "ensuring" \in Bare(s)
    BY <1>2 DEF HelloArrives, Bare, SocketStage
  <2>2. JobOK(job') /\ Retreats
    BY <1>0, <2>1, GoesType, GoesRetreats
  <2>3. OneTurn'
    BY <1>0, <2>1, MoveKeepsOneTurn DEF HelloArrives, Goes
  <2>4. RestOK'
    BY <1>0, <2>1 DEF RestOK, HelloArrives, session, text, history
  <2>5. QED
    BY <2>2, <2>3, <2>4, QuietKeeps DEF HelloArrives, history
<1>3. QED
  BY <1>1, <1>2

LEMMA SocketGoes ==
  ASSUME IInv, NEW s \in Sockets, TakesOver(s) \/ Welcomes(s)
  PROVE  IInv'
<1>0. JobOK(job) /\ RestOK /\ OneTurn /\ s \in Actors /\ s \notin Turns
  BY TypeParts, ActorsAssumption DEF IInv, Actors
<1>1. PICK stage \in {"ensuring", "ready"} : Goes(s, stage)
  BY DEF TakesOver, Welcomes
<1>2. stage \in Bare(s)
  BY DEF Bare, SocketStage, Serving
<1>3. JobOK(job') /\ Retreats
  BY <1>0, <1>1, <1>2, GoesType, GoesRetreats
<1>4. OneTurn'
  BY <1>0, <1>1, MoveKeepsOneTurn DEF TakesOver, Welcomes, Goes
<1>5. RestOK'
  BY <1>0, JobFields DEF RestOK, TakesOver, Welcomes, transport, session, text, history
<1>6. QED
  BY <1>3, <1>4, <1>5, QuietKeeps DEF TakesOver, Welcomes, history

(* A loop ends, by itself or because a chunk cannot be stored, and cancels    *)
(* the turn of the session.                                                  *)
LEMMA SocketGone ==
  ASSUME IInv, NEW s \in Sockets,
         \/ job' = [job EXCEPT ![s] = At("gone")]
         \/ job' = TurnCancelled([job EXCEPT ![s] = At("gone")]),
         UNCHANGED <<transport, turnTask, session, text, history>>
  PROVE  IInv'
<1> DEFINE j == [job EXCEPT ![s] = At("gone")]
<1>0. JobOK(job) /\ RestOK /\ OneTurn /\ s \in Actors /\ s \notin Turns
  BY TypeParts, ActorsAssumption DEF IInv, Actors
<1>1. At("gone") \in Job /\ At("gone").at = "gone"
  BY AtType DEF SocketStage
<1>2. JobOK(j)
  BY <1>0, <1>1 DEF JobOK, SocketStage, Actors
<1>3. \A t \in Turns : j[t] = job[t]
  BY <1>0 DEF JobOK, Actors
<1>4. \A a \in Actors : j[a].at \in {"flushing", "finalizing"} => j[a] = job[a]
  BY <1>0, <1>1 DEF JobOK
<1>5. RestOK'
  BY <1>0 DEF RestOK, transport, session, text, history
<1>6. CASE job' = j
  <2>1. JobOK(job') /\ Retreats
    BY <1>2, <1>4, <1>6 DEF Retreats
  <2>2. OneTurn'
    BY <1>0, <1>6, MoveKeepsOneTurn
  <2>3. QED
    BY <1>5, <2>1, <2>2, QuietKeeps DEF history
<1>7. CASE job' = TurnCancelled(j)
  <2>1. j \in [Actors -> Job]
    BY <1>2 DEF JobOK
  <2>2. JobOK(job')
    BY <1>0, <1>2, <1>7, CancelType DEF RestOK
  <2>3. Retreats
    BY <1>4, <1>7, <2>1, CancelRetreats
  <2>4. OneTurn'
    BY <1>0, <1>3, <1>7, <2>1, CancelKeepsOneTurn
  <2>5. QED
    BY <1>5, <2>2, <2>3, <2>4, QuietKeeps DEF history
<1>8. QED
  BY <1>6, <1>7

-----------------------------------------------------------------------------
(* Quiet steps of loops and turns                                            *)

(* An actor goes on, or ends, and changes nothing but that.                  *)
LEMMA SimpleMove ==
  ASSUME IInv, NEW a \in Actors, NEW stage \in Bare(a), Goes(a, stage),
         a \in Turns => job[a].at \in Running,
         UNCHANGED <<transport, turnTask, session, text, history>>
  PROVE  IInv'
<1>0. JobOK(job) /\ RestOK /\ OneTurn
  BY TypeParts DEF IInv
<1>1. JobOK(job') /\ Retreats
  BY <1>0, GoesType, GoesRetreats
<1>2. OneTurn'
  BY <1>0, MoveKeepsOneTurn DEF Goes
<1>3. RestOK'
  BY <1>0 DEF RestOK, transport, session, text, history
<1>4. QED
  BY <1>1, <1>2, <1>3, QuietKeeps DEF history

(* A stage a turn is in tells that it runs.                                  *)
LEMMA BareStages ==
  /\ \A t \in Turns : t \in Actors /\ {"over", "replying", "captioning", "hearing",
       "transcribing", "entering", "announcing"} \subseteq Bare(t)
  /\ \A s \in Sockets : s \in Actors /\ {"ready", "entering", "announcing", "gone"} \subseteq Bare(s)
  /\ \A a \in Actors : AtRest(a) \in Bare(a) /\ AfterError(a) \in Bare(a)
  BY ActorsAssumption
  DEF Bare, Actors, AtRest, AfterError, SocketStage, TurnStage, Serving, Running

LEMMA AnnouncedKeeps ==
  ASSUME IInv, NEW a \in Actors, Announced(a)
  PROVE  IInv'
  BY SimpleMove, BareStages DEF Announced, Running

LEMMA TurnEndsKeeps ==
  ASSUME IInv, NEW t \in Turns, TurnEnds(t)
  PROVE  IInv'
  BY SimpleMove, BareStages DEF TurnEnds, Running

LEMMA FlushFailsKeeps ==
  ASSUME IInv, NEW a \in Actors, FlushFails(a)
  PROVE  IInv'
<1>1. CASE a \in Sockets
  BY <1>1, SocketGone DEF FlushFails, AfterError
<1>2. CASE a \notin Sockets
  <2>1. Goes(a, AfterError(a))
    BY <1>2 DEF FlushFails, Goes
  <2>2. QED
    BY <2>1, SimpleMove, BareStages DEF FlushFails, Running
<1>3. QED
  BY <1>1, <1>2

LEMMA SocketEndsKeeps ==
  ASSUME IInv, NEW s \in Sockets, SocketEnds(s)
  PROVE  IInv'
  BY SocketGone DEF SocketEnds

(* A turn starts only when none runs.                                        *)
LEMMA TurnStarts ==
  ASSUME IInv, CanStart, ~TurnRuns, NEW stage \in {"hearing", "transcribing", "replying"},
         turnTask' = NextTurn, Goes(NextTurn, stage),
         UNCHANGED <<transport, session, text, history>>
  PROVE  IInv'
<1>0. JobOK(job) /\ RestOK /\ OneTurn
  BY TypeParts DEF IInv
<1>1. NextTurn \in Turns
  BY DEF NextTurn, CanStart
<1>2. \A t \in Turns : job[t].at \notin Running
  BY <1>0, NoneAssumption DEF OneTurn, TurnRuns
<1>3. JobOK(job') /\ Retreats
  BY <1>0, <1>1, BareStages, GoesType, GoesRetreats
<1>4. \A t \in Turns : t # NextTurn => job'[t] = job[t]
  BY <1>0 DEF Goes, JobOK, Actors
<1>5. OneTurn'
  BY <1>2, <1>4 DEF OneTurn
<1>6. RestOK'
  BY <1>0, <1>1 DEF RestOK, transport, session, text, history
<1>7. QED
  BY <1>3, <1>5, <1>6, QuietKeeps DEF history

LEMMA InterruptKeeps ==
  ASSUME IInv, NEW s \in Sockets, Interrupt(s)
  PROVE  IInv'
<1>0. JobOK(job) /\ RestOK /\ OneTurn /\ job \in [Actors -> Job]
  BY TypeParts DEF IInv, JobOK
<1>1. JobOK(job')
  BY <1>0, CancelType DEF Interrupt, RestOK
<1>2. Retreats
  BY <1>0, CancelRetreats DEF Interrupt
<1>3. OneTurn'
  BY <1>0, CancelKeepsOneTurn DEF Interrupt
<1>4. RestOK'
  BY <1>0 DEF RestOK, Interrupt, transport, session, text, history
<1>5. QED
  BY <1>1, <1>2, <1>3, <1>4, QuietKeeps DEF Interrupt, history

LEMMA SummaryKeeps ==
  ASSUME IInv, NEW m \in Meetings, SummaryStep(m)
  PROVE  IInv'
<1>0. JobOK(job) /\ RestOK /\ OneTurn
  BY TypeParts DEF IInv
<1>1. post[m] \in Post
  BY <1>0 DEF RestOK
<1>a. ASSUME NEW at \in {"idle", "asking", "persisting"}
      PROVE  /\ [post[m] EXCEPT !.at = at] \in Post
             /\ [post[m] EXCEPT !.at = at, !.attempt = 0] \in Post
             /\ post[m].waiting > 0 => [post[m] EXCEPT !.waiting = @ - 1, !.at = at] \in Post
  <2>1. [post[m] EXCEPT !.at = at] \in Post
    BY <1>1 DEF Post
  <2>2. [post[m] EXCEPT !.at = at, !.attempt = 0] \in Post
    BY <1>1 DEF Post
  <2>3. post[m].waiting > 0 => post[m].waiting - 1 \in Nat
    BY <1>1 DEF Post
  <2>4. post[m].waiting > 0 => [post[m] EXCEPT !.waiting = @ - 1, !.at = at] \in Post
    BY <1>1, <2>3 DEF Post
  <2>5. QED
    BY <2>1, <2>2, <2>4
<1>b. [post[m] EXCEPT !.attempt = @ + 1] \in Post /\ post[m].at \in {"idle", "asking", "persisting"}
  BY <1>1 DEF Post
<1>2. PICK record \in Post : Summarizing(m, record)
  <2>1. CASE SummaryStarts(m)
    <3> DEFINE at == IF post[m].at = "idle" /\ stored[m] # {} THEN "asking" ELSE post[m].at
    <3>1. at \in {"idle", "asking", "persisting"}
      BY <1>b
    <3>2. [post[m] EXCEPT !.waiting = @ - 1, !.at = at] \in Post
      BY <1>a, <2>1, <3>1 DEF SummaryStarts
    <3>3. QED
      BY <2>1, <3>2, Zenon DEF SummaryStarts
  <2>2. CASE SummaryAnswered(m)
    BY <1>a, <2>2, Zenon DEF SummaryAnswered
  <2>3. CASE AttemptFails(m)
    <3>1. CASE post[m].attempt < MaxRetries
      BY <1>b, <2>3, <3>1, Zenon DEF AttemptFails
    <3>2. CASE ~(post[m].attempt < MaxRetries)
      BY <1>a, <2>3, <3>2, Zenon DEF AttemptFails
    <3>3. QED
      BY <3>1, <3>2
  <2>4. CASE FactStored(m)
    BY <1>a, <2>4, Zenon DEF FactStored
  <2>5. QED
    BY <2>1, <2>2, <2>3, <2>4 DEF SummaryStep
<1>3. JobOK(job') /\ Retreats /\ OneTurn'
  BY <1>0, <1>2 DEF Summarizing, Retreats, OneTurn
<1>4. RestOK'
  BY <1>0, <1>2 DEF RestOK, Summarizing, transport, session, text
<1>5. QED
  BY <1>2, <1>3, <1>4, QuietKeeps DEF Summarizing

-----------------------------------------------------------------------------
(* Steps that begin or end a meeting, or change what is said and stored       *)

LEMMA EnterKeeps ==
  ASSUME IInv, NEW a \in Actors, Enter(a), meeting = NoMeeting, UNCHANGED turnTask,
         a \in Turns => job[a].at \in Running
  PROVE  IInv'
<1>0. JobOK(job) /\ RestOK /\ OneTurn
  BY TypeParts DEF IInv
<1> DEFINE new == CHOOSE m \in Meetings : m \notin begun
<1>1. new \in Meetings /\ new \notin begun
  BY <1>0 DEF Enter, RestOK
<1>2. meeting' = new /\ begun' = begun \cup {new} /\ mode' = "meeting" /\ Goes(a, "entering")
  BY DEF Enter
<1>a. "entering" \in Bare(a)
  BY BareStages DEF Actors
<1>3. JobOK(job') /\ Retreats
  BY <1>0, <1>2, <1>a, GoesType, GoesRetreats
<1>4. OneTurn'
  BY <1>0, <1>2, MoveKeepsOneTurn DEF Goes
<1> HIDE DEF new
<1>5. RestOK'
  BY <1>0, <1>1, <1>2 DEF RestOK, Enter, transport, text, history
<1>6. ModeMatchesMeeting'
  BY <1>1, <1>2, NoneAssumption DEF ModeMatchesMeeting
<1>7. said[new] = {}
  BY <1>1 DEF IInv, BegunOnce
<1>8. BegunOnce' /\ Heard'
  BY <1>2, <1>7 DEF IInv, BegunOnce, Heard, Enter, text
<1>9. InChunk'
  BY <1>3 DEF IInv, InChunk, Retreats, Enter, text, Actors
<1>10. ExitCovers' /\ RemainingIsFlushed'
  BY <1>3 DEF IInv, ExitCovers, Retreats, Enter, text, history, RemainingIsFlushed
<1>11. TypeOK'
  BY <1>3, <1>5, TypeParts DEF TypeOK, JobOK, RestOK
<1>12. QED
  BY <1>4, <1>6, <1>8, <1>9, <1>10, <1>11 DEF IInv

(* The end of a meeting m whose chunks cover what the exit has to cover.      *)
LEMMA FinalizesKeeps ==
  ASSUME IInv, NEW a \in Actors, NEW m \in Meetings, NEW before \in SUBSET Turns,
         Finalizes(a, m, before), a \in Turns => job[a].at \in Running,
         UNCHANGED <<transport, turnTask, said>>,
         buffer' \in [Meetings -> SUBSET Turns], stored' \in [Meetings -> SUBSET Turns],
         \A n \in Meetings : stored[n] \subseteq stored'[n] /\ buffer'[n] \subseteq buffer[n],
         before \subseteq stored'[m]
  PROVE  IInv'
<1>0. JobOK(job) /\ RestOK /\ OneTurn
  BY TypeParts DEF IInv
<1>1. meeting' = NoMeeting /\ mode' = "conversation" /\ Goes(a, "announcing")
        /\ owed' = [owed EXCEPT ![m] = @ \cup before] /\ UNCHANGED begun
  BY DEF Finalizes
<1>a. "announcing" \in Bare(a)
  BY BareStages DEF Actors
<1>2. JobOK(job') /\ Retreats
  BY <1>0, <1>1, <1>a, GoesType, GoesRetreats
<1>3. OneTurn'
  BY <1>0, <1>1, MoveKeepsOneTurn DEF Goes
<1>4. post' \in [Meetings -> Post]
  <2>1. post[m] \in Post
    BY <1>0 DEF RestOK
  <2>2. [post[m] EXCEPT !.waiting = @ + 1] \in Post
    BY <2>1 DEF Post
  <2> HIDE DEF Post
  <2>3. QED
    BY <1>0, <2>2 DEF RestOK, Finalizes
<1>5. RestOK'
  BY <1>0, <1>1, <1>4 DEF RestOK, transport
<1>6. ModeMatchesMeeting' /\ Heard' /\ BegunOnce'
  BY <1>1 DEF ModeMatchesMeeting, Heard, BegunOnce, IInv
<1>7. InChunk'
  <2> SUFFICES ASSUME NEW t \in Turns, job'[t].at = "flushing"
               PROVE  buffer'[job'[t].met] \subseteq job'[t].text \cup stored'[job'[t].met]
    BY DEF InChunk
  <2>1. job'[t] = job[t] /\ job[t].met \in Meetings
    BY <1>0, <1>2, JobFields DEF Retreats, Actors
  <2>2. QED
    BY <2>1 DEF IInv, InChunk
<1>8. ExitCovers'
  <2> SUFFICES ASSUME NEW b \in Actors, job'[b].at = "finalizing"
               PROVE  job'[b].before \subseteq job'[b].text \cup stored'[job'[b].met]
    BY DEF ExitCovers
  <2>1. job'[b] = job[b] /\ job[b].met \in Meetings
    BY <1>0, <1>2, JobFields DEF Retreats
  <2>2. QED
    BY <2>1 DEF IInv, ExitCovers
<1>9. RemainingIsFlushed'
  BY <1>0, <1>1 DEF IInv, RemainingIsFlushed, RestOK
<1>10. TypeOK'
  BY <1>2, <1>5, TypeParts DEF TypeOK, JobOK, RestOK
<1>11. QED
  BY <1>3, <1>6, <1>7, <1>8, <1>9, <1>10 DEF IInv

LEMMA ExitKeeps ==
  ASSUME IInv, NEW a \in Actors, Exit(a), UNCHANGED turnTask,
         a \in Turns => job[a].at \in Running
  PROVE  IInv'
<1>0. JobOK(job) /\ RestOK /\ OneTurn
  BY TypeParts DEF IInv
<1>1. CASE meeting = NoMeeting
  <2>1. mode' = "conversation" /\ Goes(a, "announcing")
          /\ UNCHANGED <<meeting, begun, history, transport, text>>
    BY <1>1 DEF Exit
  <2>2. mode = "conversation"
    BY <1>0, <1>1 DEF IInv, ModeMatchesMeeting, RestOK
  <2>3. "announcing" \in Bare(a)
    BY BareStages DEF Actors
  <2>4. QED
    BY <2>1, <2>2, <2>3, SimpleMove DEF session
<1>2. CASE meeting # NoMeeting /\ buffer[meeting] = {}
  <2>1. Finalizes(a, meeting, said[meeting]) /\ UNCHANGED <<transport, text>>
    BY <1>2 DEF Exit
  <2>2. meeting \in Meetings /\ said[meeting] \in SUBSET Turns
    BY <1>0, <1>2 DEF RestOK
  <2>3. said[meeting] \subseteq stored[meeting]
    BY <1>2 DEF IInv, Heard
  <2>4. UNCHANGED <<buffer, stored, said>>
    BY <2>1 DEF text
  <2>5. QED
    BY <1>0, <2>1, <2>2, <2>3, <2>4, FinalizesKeeps DEF RestOK
<1>3. CASE meeting # NoMeeting /\ buffer[meeting] # {}
  <2> DEFINE r == [At("finalizing") EXCEPT !.met = meeting, !.text = buffer[meeting],
                                           !.before = said[meeting]]
  <2>1. job' = [job EXCEPT ![a] = r] /\ UNCHANGED <<session, history, transport, text>>
    BY <1>3 DEF Exit
  <2>2. meeting \in Meetings /\ said[meeting] \subseteq Turns /\ buffer[meeting] \subseteq Turns
    BY <1>0, <1>3 DEF RestOK
  <2>3. r \in Job /\ r.at = "finalizing" /\ r.met = meeting /\ r.text = buffer[meeting]
          /\ r.before = said[meeting]
    BY <2>2 DEF At, Job, SocketStage, Serving
  <2> HIDE DEF r
  <2>4. JobOK(job')
    BY <1>0, <1>3, <2>1, <2>3, ActorsAssumption
    DEF JobOK, Actors, SocketStage, TurnStage, Serving, Running
  <2>5. OneTurn'
    BY <1>0, <2>1, MoveKeepsOneTurn
  <2>6. TypeOK'
    BY <1>0, <2>1, <2>4, TypeParts DEF RestOK, TypeOK, JobOK, session, history, transport, text
  <2>7. ModeMatchesMeeting' /\ BegunOnce' /\ Heard' /\ RemainingIsFlushed'
    BY <2>1 DEF IInv, ModeMatchesMeeting, BegunOnce, Heard, RemainingIsFlushed,
                session, text, history
  <2>8. \A b \in Actors : job'[b] = IF b = a THEN r ELSE job[b]
    BY <1>0, <2>1 DEF JobOK
  <2>9. InChunk'
    BY <2>1, <2>3, <2>8 DEF IInv, InChunk, text, Actors
  <2>10. ExitCovers'
    <3>1. r.before \subseteq r.text \cup stored[r.met]
      BY <1>3, <2>3 DEF IInv, Heard
    <3>2. QED
      BY <2>1, <2>8, <3>1 DEF IInv, ExitCovers, text
  <2>11. QED
    BY <2>5, <2>6, <2>7, <2>9, <2>10 DEF IInv
<1>4. QED
  BY <1>1, <1>2, <1>3

LEMMA RemainderKeeps ==
  ASSUME IInv, NEW a \in Actors, RemainderStored(a)
  PROVE  IInv'
<1>0. JobOK(job) /\ RestOK
  BY TypeParts DEF IInv
<1> DEFINE m == job[a].met
<1>1. m \in Meetings /\ job[a].before \in SUBSET Turns /\ job[a].text \subseteq Turns
  BY <1>0, JobFields DEF RemainderStored
<1>2. stored' = [stored EXCEPT ![m] = @ \cup job[a].text]
        /\ buffer' = [buffer EXCEPT ![m] = {}] /\ UNCHANGED said
  BY DEF RemainderStored, Stores
<1>3. Finalizes(a, m, job[a].before) /\ UNCHANGED <<transport, turnTask>>
        /\ job[a].at = "finalizing"
  BY DEF RemainderStored
<1>4. job[a].before \subseteq stored'[m]
  BY <1>0, <1>1, <1>2, <1>3 DEF IInv, ExitCovers, RestOK
<1> HIDE DEF m
<1>5. \A n \in Meetings : stored[n] \subseteq stored'[n] /\ buffer'[n] \subseteq buffer[n]
  BY <1>0, <1>1, <1>2 DEF RestOK
<1>6. buffer' \in [Meetings -> SUBSET Turns] /\ stored' \in [Meetings -> SUBSET Turns]
  BY <1>0, <1>1, <1>2 DEF RestOK
<1>7. job[a].at \in Running
  BY <1>3 DEF Running
<1>8. QED
  BY <1>1, <1>2, <1>3, <1>4, <1>5, <1>6, <1>7, FinalizesKeeps

LEMMA AppendKeeps ==
  ASSUME IInv, NEW t \in Turns, job[t].at = "transcribing", Append(t), UNCHANGED turnTask
  PROVE  IInv'
<1>0. JobOK(job) /\ RestOK /\ OneTurn
  BY TypeParts DEF IInv
<1>1. Goes(t, "captioning") /\ UNCHANGED <<transport, stored, session, history>>
        /\ meeting # NoMeeting
        /\ buffer' = [buffer EXCEPT ![meeting] = @ \cup {t}]
        /\ said' = [said EXCEPT ![meeting] = @ \cup {t}]
  BY DEF Append
<1>2. meeting \in Meetings
  BY <1>0, <1>1 DEF RestOK
<1>3. JobOK(job') /\ Retreats
  BY <1>0, <1>1, BareStages, GoesType, GoesRetreats
<1>4. OneTurn'
  <2>1. t \in Actors /\ job[t].at \in Running
    BY DEF Actors, Running
  <2>2. QED
    BY <1>0, <1>1, <2>1, MoveKeepsOneTurn DEF Goes
<1>5. RestOK'
  BY <1>0, <1>1, <1>2 DEF RestOK, transport, session, history
<1>6. TypeOK'
  BY <1>3, <1>5, TypeParts DEF TypeOK, JobOK, RestOK
<1>7. ModeMatchesMeeting' /\ RemainingIsFlushed'
  BY <1>1 DEF IInv, ModeMatchesMeeting, RemainingIsFlushed, session, history
<1>8. BegunOnce' /\ Heard'
  BY <1>0, <1>1, <1>2 DEF IInv, BegunOnce, Heard, session, RestOK
<1>9. InChunk'
  <2> SUFFICES ASSUME NEW u \in Turns, job'[u].at = "flushing" PROVE FALSE
    BY DEF InChunk
  <2>1. job'[u] = job[u] /\ job[u].at = "flushing"
    BY <1>3 DEF Retreats, Actors
  <2>2. turnTask = t /\ turnTask = u
    BY <1>0, <2>1 DEF OneTurn, Running
  <2>3. QED
    BY <2>1, <2>2
<1>10. ExitCovers'
  BY <1>1, <1>3 DEF IInv, ExitCovers, Retreats
<1>11. QED
  BY <1>4, <1>6, <1>7, <1>8, <1>9, <1>10 DEF IInv

LEMMA FlushStartsKeeps ==
  ASSUME IInv, NEW t \in Turns, FlushStarts(t)
  PROVE  IInv'
<1>0. JobOK(job) /\ RestOK /\ OneTurn /\ t \in Actors
  BY TypeParts DEF IInv, Actors
<1> DEFINE r == [At("flushing") EXCEPT !.met = meeting, !.text = buffer[meeting]]
<1>1. job' = [job EXCEPT ![t] = r] /\ meeting # NoMeeting
        /\ UNCHANGED <<transport, turnTask, session, text, history>>
  BY DEF FlushStarts
<1>2. meeting \in Meetings /\ buffer[meeting] \subseteq Turns
  BY <1>0, <1>1 DEF RestOK
<1>3. r \in Job /\ r.at = "flushing" /\ r.met = meeting /\ r.text = buffer[meeting]
  BY <1>2 DEF At, Job, TurnStage, Running
<1> HIDE DEF r
<1>4. JobOK(job')
  BY <1>0, <1>1, <1>3, ActorsAssumption DEF JobOK, Actors, TurnStage, Running
<1>5. OneTurn'
  BY <1>0, <1>1, MoveKeepsOneTurn DEF FlushStarts, Running
<1>6. TypeOK'
  BY <1>0, <1>1, <1>4, TypeParts DEF RestOK, TypeOK, JobOK, session, history, transport, text
<1>7. ModeMatchesMeeting' /\ BegunOnce' /\ Heard' /\ RemainingIsFlushed'
  BY <1>1 DEF IInv, ModeMatchesMeeting, BegunOnce, Heard, RemainingIsFlushed,
              session, text, history
<1>8. \A b \in Actors : job'[b] = IF b = t THEN r ELSE job[b]
  BY <1>0, <1>1 DEF JobOK
<1>9. InChunk' /\ ExitCovers'
  BY <1>1, <1>3, <1>8 DEF IInv, InChunk, ExitCovers, text, Actors
<1>10. QED
  BY <1>5, <1>6, <1>7, <1>9 DEF IInv

LEMMA ChunkStoredKeeps ==
  ASSUME IInv, NEW t \in Turns, ChunkStored(t)
  PROVE  IInv'
<1>0. JobOK(job) /\ RestOK /\ OneTurn /\ t \in Actors
  BY TypeParts DEF IInv, Actors
<1> DEFINE m == job[t].met
<1>1. m \in Meetings /\ job[t].text \subseteq Turns
  BY <1>0, JobFields DEF ChunkStored
<1>2. stored' = [stored EXCEPT ![m] = @ \cup job[t].text]
        /\ buffer' = [buffer EXCEPT ![m] = {}] /\ UNCHANGED said
  BY DEF ChunkStored, Stores
<1>3. Goes(t, "over") /\ job[t].at = "flushing"
        /\ UNCHANGED <<transport, turnTask, session, history>>
  BY DEF ChunkStored
<1>4. buffer[m] \subseteq job[t].text \cup stored[m]
  BY <1>3 DEF IInv, InChunk
<1> HIDE DEF m
<1>5. JobOK(job') /\ Retreats
  BY <1>0, <1>3, BareStages, GoesType, GoesRetreats
<1>6. OneTurn'
  BY <1>0, <1>3, MoveKeepsOneTurn DEF Goes, Running
<1>7. RestOK'
  BY <1>0, <1>1, <1>2, <1>3 DEF RestOK, transport, session, history
<1>8. TypeOK'
  BY <1>5, <1>7, TypeParts DEF TypeOK, JobOK, RestOK
<1>9. ModeMatchesMeeting' /\ BegunOnce'
  BY <1>2, <1>3 DEF IInv, ModeMatchesMeeting, BegunOnce, session
<1>10. \A n \in Meetings : /\ stored'[n] = IF n = m THEN stored[n] \cup job[t].text ELSE stored[n]
                           /\ buffer'[n] = IF n = m THEN {} ELSE buffer[n]
  BY <1>0, <1>1, <1>2 DEF RestOK
<1>11. Heard'
  <2> SUFFICES ASSUME meeting # NoMeeting
               PROVE  said[meeting] \subseteq stored'[meeting] \cup buffer'[meeting]
    BY <1>2, <1>3 DEF Heard, session
  <2>1. meeting \in Meetings /\ said[meeting] \subseteq stored[meeting] \cup buffer[meeting]
    BY <1>0 DEF IInv, Heard, RestOK
  <2>2. QED
    BY <1>4, <1>10, <2>1
<1>12. InChunk' /\ ExitCovers'
  <2>1. \A a \in Actors : job'[a].at \in {"flushing", "finalizing"}
          => job'[a] = job[a] /\ job[a].met \in Meetings
    BY <1>0, <1>5, JobFields DEF Retreats
  <2>2. \A n \in Meetings : stored[n] \subseteq stored'[n] /\ buffer'[n] \subseteq buffer[n]
    BY <1>10
  <2>3. InChunk'
    <3> SUFFICES ASSUME NEW u \in Turns, job'[u].at = "flushing"
                 PROVE  buffer'[job'[u].met] \subseteq job'[u].text \cup stored'[job'[u].met]
      BY DEF InChunk
    <3>1. job'[u] = job[u] /\ job[u].met \in Meetings
      BY <2>1 DEF Actors
    <3>2. buffer[job[u].met] \subseteq job[u].text \cup stored[job[u].met]
      BY <3>1 DEF IInv, InChunk
    <3>3. QED
      BY <2>2, <3>1, <3>2
  <2>4. ExitCovers'
    <3> SUFFICES ASSUME NEW a \in Actors, job'[a].at = "finalizing"
                 PROVE  job'[a].before \subseteq job'[a].text \cup stored'[job'[a].met]
      BY DEF ExitCovers
    <3>1. job'[a] = job[a] /\ job[a].met \in Meetings
      BY <2>1
    <3>2. job[a].before \subseteq job[a].text \cup stored[job[a].met]
      BY <3>1 DEF IInv, ExitCovers
    <3>3. QED
      BY <2>2, <3>1, <3>2
  <2>5. QED
    BY <2>3, <2>4
<1>13. RemainingIsFlushed'
  BY <1>3, <1>10 DEF IInv, RemainingIsFlushed, history
<1>14. QED
  BY <1>6, <1>8, <1>9, <1>11, <1>12, <1>13 DEF IInv

-----------------------------------------------------------------------------
(* What a turn and a socket do                                               *)

LEMMA TurnKeeps ==
  ASSUME IInv, NEW t \in Turns, TurnStep(t)
  PROVE  IInv'
<1>0. t \in Actors /\ TypeOK /\ ModeMatchesMeeting
  BY DEF Actors, IInv
<1>1. CASE VoiceTranscribed(t)
  <2>1. job[t].at \in Running
    BY <1>1 DEF VoiceTranscribed, Running
  <2>2. CASE mode = "conversation" /\ Enter(t)
    <3>1. meeting = NoMeeting
      BY <1>0, <2>2 DEF ModeMatchesMeeting
    <3>2. QED
      BY <1>0, <1>1, <2>1, <2>2, <3>1, EnterKeeps DEF VoiceTranscribed
  <2>3. CASE Goes(t, "replying") /\ UNCHANGED <<transport, session, text, history>>
    BY <1>0, <1>1, <2>1, <2>3, SimpleMove, BareStages DEF VoiceTranscribed
  <2>4. QED
    BY <1>1, <2>2, <2>3 DEF VoiceTranscribed
<1>2. CASE MeetingTranscribed(t)
  <2>1. job[t].at \in Running /\ job[t].at = "transcribing" /\ UNCHANGED turnTask
    BY <1>2 DEF MeetingTranscribed, Running
  <2>2. CASE Exit(t)
    BY <1>0, <2>1, <2>2, ExitKeeps
  <2>3. CASE meeting = NoMeeting /\ Enter(t)
    BY <1>0, <2>1, <2>3, EnterKeeps
  <2>4. CASE Append(t)
    BY <2>1, <2>4, AppendKeeps
  <2>5. CASE Goes(t, "replying") /\ UNCHANGED <<transport, session, text, history>>
    BY <1>0, <2>1, <2>5, SimpleMove, BareStages
  <2>6. QED
    BY <1>2, <2>2, <2>3, <2>4, <2>5 DEF MeetingTranscribed
<1>3. QED
  BY <1>0, <1>1, <1>2, FlushStartsKeeps, ChunkStoredKeeps, RemainderKeeps, AnnouncedKeeps,
     FlushFailsKeeps, TurnEndsKeeps
  DEF TurnStep

LEMMA SocketKeeps ==
  ASSUME IInv, NEW s \in Sockets,
         \/ HelloArrives(s) \/ SocketEnds(s) \/ SocketStep(s)
         \/ ModeMessage(s) \/ AudioEnd(s) \/ Chat(s) \/ Interrupt(s)
  PROVE  IInv'
<1>0. s \in Actors /\ s \notin Turns /\ TypeOK /\ ModeMatchesMeeting
  BY ActorsAssumption DEF Actors, IInv
<1>1. CASE ModeMessage(s)
  <2>1. CASE mode = "meeting"
    BY <1>0, <1>1, <2>1, ExitKeeps DEF ModeMessage
  <2>2. CASE mode # "meeting"
    BY <1>0, <1>1, <2>2, EnterKeeps DEF ModeMessage, ModeMatchesMeeting
  <2>3. QED
    BY <2>1, <2>2
<1>2. CASE AudioEnd(s)
  BY <1>2, TurnStarts DEF AudioEnd
<1>3. CASE Chat(s)
  BY <1>3, TurnStarts DEF Chat
<1>4. CASE SocketStep(s)
  BY <1>0, <1>4, SocketGoes, RemainderKeeps, AnnouncedKeeps, FlushFailsKeeps DEF SocketStep
<1>5. QED
  BY <1>1, <1>2, <1>3, <1>4, HelloKeeps, SocketEndsKeeps, InterruptKeeps

LEMMA StepIInv == IInv /\ [Next]_vars => IInv'
<1> SUFFICES ASSUME IInv, [Next]_vars PROVE IInv'
  OBVIOUS
<1>1. CASE Next
  BY <1>1, SocketKeeps, TurnKeeps, SummaryKeeps DEF Next
<1>2. CASE UNCHANGED vars
  <2>1. UNCHANGED <<job, transport, turnTask, session, text, history>>
    BY <1>2 DEF vars, transport, session, text, history
  <2>2. JobOK(job') /\ RestOK' /\ OneTurn' /\ Retreats
    BY <2>1, TypeParts DEF IInv, RestOK, OneTurn, Retreats, transport, session, text, history
  <2>3. QED
    BY <2>1, <2>2, QuietKeeps DEF history
<1>3. QED
  BY <1>1, <1>2

-----------------------------------------------------------------------------
(* Theorems                                                                  *)

LEMMA SpecIInv == Spec => []IInv
  BY InitIInv, StepIInv, PTL DEF Spec

(* Every reachable state of the session is well typed.                        *)
THEOREM TypeCorrect == Spec => []TypeOK
<1>1. IInv => TypeOK
  BY DEF IInv
<1>2. QED
  BY <1>1, SpecIInv, PTL

(* However many devices and turns enter and leave meetings at once, the mode  *)
(* says whether there is one.                                                *)
THEOREM ModeHolds == Spec => []ModeMatchesMeeting
<1>1. IInv => ModeMatchesMeeting
  BY DEF IInv
<1>2. QED
  BY <1>1, SpecIInv, PTL

(* What was said before an exit began is stored when it has ended the meeting. *)
THEOREM RemainingHolds == Spec => []RemainingIsFlushed
<1>1. IInv => RemainingIsFlushed
  BY DEF IInv
<1>2. QED
  BY <1>1, SpecIInv, PTL

(* Only enter_meeting_mode sets a meeting, and it is called only when there   *)
(* is none.                                                                  *)
LEMMA StepKeepsMeeting ==
  ASSUME IInv, Next, meeting # NoMeeting
  PROVE  meeting' \in {meeting, NoMeeting}
<1>1. ASSUME NEW a \in Actors, Exit(a)
      PROVE  meeting' \in {meeting, NoMeeting}
  BY <1>1 DEF Exit, Finalizes, session
<1>2. ASSUME NEW m \in Meetings, SummaryStep(m)
      PROVE  meeting' = meeting
  BY <1>2 DEF SummaryStep, SummaryStarts, SummaryAnswered, AttemptFails, FactStored,
              Summarizing, session
<1>3. ASSUME NEW t \in Turns, TurnStep(t)
      PROVE  meeting' \in {meeting, NoMeeting}
  <2>1. CASE VoiceTranscribed(t)
    BY <2>1 DEF VoiceTranscribed, IInv, ModeMatchesMeeting, session
  <2>2. CASE MeetingTranscribed(t)
    BY <1>1, <2>2 DEF MeetingTranscribed, Append, Actors, session
  <2>3. QED
    BY <1>3, <2>1, <2>2
    DEF TurnStep, FlushStarts, ChunkStored, RemainderStored, Finalizes, Announced, FlushFails,
        TurnEnds, session
<1>4. ASSUME NEW s \in Sockets, ModeMessage(s)
      PROVE  meeting' \in {meeting, NoMeeting}
  BY <1>1, <1>4 DEF ModeMessage, IInv, ModeMatchesMeeting, Actors
<1>5. ASSUME NEW s \in Sockets,
             \/ HelloArrives(s) \/ SocketEnds(s) \/ SocketStep(s)
             \/ AudioEnd(s) \/ Chat(s) \/ Interrupt(s)
      PROVE  meeting' \in {meeting, NoMeeting}
  BY <1>5
  DEF HelloArrives, SocketEnds, SocketStep, AudioEnd, Chat, Interrupt, TakesOver, Welcomes,
      RemainderStored, Finalizes, Announced, FlushFails, session
<1>6. QED
  BY <1>2, <1>3, <1>4, <1>5 DEF Next

(* A meeting is never replaced by another one.                                *)
THEOREM MeetingHolds == Spec => MeetingNotReplaced
<1>1. IInv /\ [Next]_vars => [meeting # NoMeeting => meeting' \in {meeting, NoMeeting}]_vars
  BY StepKeepsMeeting DEF vars
<1>2. QED
  BY <1>1, SpecIInv, PTL DEF Spec, MeetingNotReplaced
=============================================================================
