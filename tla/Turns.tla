------------------------------- MODULE Turns -------------------------------
(***************************************************************************)
(* The turns of one user's session on one socket (Server2): transport/ws.py *)
(* (client messages), transport/turn_coordinator.py (a turn from its text   *)
(* to its delivery), transport/chat_queue.py (typed chats that arrive while *)
(* something is said), voice/turn.py, voice/interrupt.py, voice/delivery.py *)
(* and voice/streaming_tts.py (speech), orchestrator/notifier.py (proactive *)
(* turns).                                                                  *)
(*                                                                          *)
(* Four kinds of turn run as asyncio tasks over one UserSession:            *)
(*   voice, chat   session.turn_task, one at a time;                        *)
(*   compute       a queued chat: answered at once, delivered when quiet;   *)
(*   proactive     run by the notifier's loop.                              *)
(* The socket's inbound loop handles one client message at a time and waits *)
(* in the middle of some of them. They all share one InterruptController    *)
(* (speech state, turn_id, TTS cancel event), one accumulated_partial and   *)
(* one turn_llm_persisted. An action is the code between two awaits that    *)
(* suspend: speech to text, the model, Postgres, speech synthesis, another  *)
(* task. A send to the client is taken to be buffered at once.              *)
(* Conversation mode only: meetings are a component of their own.           *)
(***************************************************************************)
EXTENDS Integers, FiniteSets

CONSTANTS
  MaxTurns,      (* bound: turns of all kinds                                *)
  MaxInterrupts, (* bound: interrupt messages                                *)
  Channels,      (* what compute_respond_via can decide                      *)
  Events         (* what happens: a subset of AllEvents                      *)

Turns == 1 .. MaxTurns
NoTurn == 0

AllChannels == {"voice_and_chat", "chat_only"}

(* voice, chat, interrupt, playback: messages of the client (playback is     *)
(* client_state); proactive: the notifier has a signal to surface; fail: the *)
(* model, Postgres or a tool raises an exception in a turn.                  *)
AllEvents == {"voice", "chat", "interrupt", "playback", "proactive", "fail"}

ASSUME TurnsAssumption == MaxTurns \in Nat /\ MaxInterrupts \in Nat
ASSUME ChannelsAssumption == Channels \subseteq AllChannels
ASSUME EventsAssumption == Events \subseteq AllEvents

VARIABLES
  turn,         (* every turn: its task and what has become of its reply     *)
  turnTask,     (* session.turn_task                                         *)
  queued,       (* queued_chat                                               *)
  computeTask,  (* queued_compute_task                                       *)
  pending,      (* pending_chat_delivery                                     *)
  deferred,     (* pending_voice_chunks is set                               *)
  capturing,    (* voice_capture_active                                      *)
  playback,     (* client_control.playback is "playing"                      *)
  grace,        (* last_turn_completed_at is less than three seconds ago     *)
  partial,      (* whose tokens accumulated_partial holds                    *)
  persisted,    (* turn_llm_persisted                                        *)
  speech,       (* InterruptController.state                                 *)
  current,      (* InterruptController.turn_id                               *)
  ttsCancel,    (* InterruptController._tts_cancel                           *)
  handler,      (* where the inbound loop stands                             *)
  interrupts,   (* interrupt messages so far                                 *)
  heard         (* the turn heard last since the last interrupt              *)

queueVars == <<queued, computeTask, pending, deferred>>
clientVars == <<capturing, playback, interrupts>>
speechVars == <<speech, current, ttsCancel, heard>>
replyVars == <<partial, persisted>>
vars == <<turn, turnTask, queued, computeTask, pending, deferred, capturing,
          playback, grace, partial, persisted, speech, current, ttsCancel,
          handler, interrupts, heard>>

-----------------------------------------------------------------------------
(* created: the task exists; hearing: speech to text; thinking: run_turn up  *)
(* to storing the reply; storing, stored: append_turn before and after the   *)
(* row is in the table; flushing: StreamingTtsPipeline.finish; batch: the    *)
(* reply is spoken as a whole; unwinding: a cancelled turn waits for its     *)
(* pipeline; saving: it stores what it had said; joining: waits for a        *)
(* compute task it has cancelled; computing: run_turn of a queued chat;      *)
(* delivering: try_deliver_pending_chat speaks its reply.                    *)
InReply == {"thinking", "storing", "stored", "flushing", "batch", "unwinding", "saving"}
Stage == {"unused", "waiting", "created", "hearing", "joining", "computing",
          "delivering", "gone"} \cup InReply

Turn == [kind : {"none", "voice", "chat", "compute", "handled", "proactive"},
         at : Stage,
         voice : BOOLEAN,       (* it has a StreamingTtsPipeline             *)
         fed : BOOLEAN,         (* with sentences its worker has still to do *)
         started : BOOLEAN,     (* audio_start has been sent                 *)
         cancelled : BOOLEAN,   (* task.cancel() not yet delivered           *)
         silenced : BOOLEAN,    (* an interrupt came while it was replying   *)
         rows : Nat,            (* rows of its reply in the turns table      *)
         told : {"nothing", "partial", "final"},        (* last chat_message *)
         on : Turns \cup {NoTurn}]           (* the task it waits for        *)

Handler == [at : {"ready", "saving", "joining", "delivering"},
            on : Turns \cup {NoTurn}]

TypeOK ==
  /\ turn \in [Turns -> Turn]
  /\ {turnTask, queued, computeTask, pending, current, heard} \subseteq Turns \cup {NoTurn}
  /\ {deferred, capturing, playback, grace, persisted, ttsCancel} \subseteq BOOLEAN
  /\ partial \subseteq Turns
  /\ speech \in {"idle", "listening", "thinking", "speaking"}
  /\ handler \in Handler
  /\ interrupts \in 0 .. MaxInterrupts

-----------------------------------------------------------------------------
Fresh == [kind |-> "none", at |-> "unused", voice |-> FALSE, fed |-> FALSE,
          started |-> FALSE, cancelled |-> FALSE, silenced |-> FALSE, rows |-> 0,
          told |-> "nothing", on |-> NoTurn]

Alive(n) == n # NoTurn /\ turn[n].at \notin {"unused", "waiting", "gone"}
NextTurn(n) == turn[n].at = "unused" /\ \A m \in 1 .. n - 1 : turn[m].at # "unused"
IsUserTurn(n) == turn[n].kind \in {"voice", "chat"}

session_busy == speech \in {"thinking", "speaking"}

(* playback_blocks_voice, once the client has reported p                      *)
Blocks(p) == p \/ Alive(turnTask) \/ grace
CanDeliver(p) == pending # NoTurn /\ ~Blocks(p)

Ready == handler.at = "ready"
AtRest == [at |-> "ready", on |-> NoTurn]

Cancelled(t, n) == [t EXCEPT ![n].cancelled = TRUE]
Gone(t, n) == [t EXCEPT ![n].at = "gone", ![n].cancelled = FALSE]
Told(t, n) == [t EXCEPT ![n].told = IF ttsCancel THEN "partial" ELSE "final"]

(* begin_speaking clears the cancel event of whatever was interrupted before. *)
BeginSpeaking(n) ==
  /\ speech' = "speaking"
  /\ ttsCancel' = FALSE
  /\ heard' = n

BugFinishTurnStaysBusy == speech' = speech /\ current' = NoTurn

(* finish_turn                                                                *)
FinishTurn == speech' = "idle" /\ current' = NoTurn

Init ==
  /\ turn = [n \in Turns |-> Fresh]
  /\ turnTask = NoTurn /\ queued = NoTurn /\ computeTask = NoTurn /\ pending = NoTurn
  /\ deferred = FALSE /\ capturing = FALSE /\ playback = FALSE /\ grace = FALSE
  /\ partial = {} /\ persisted = FALSE
  /\ speech = "idle" /\ current = NoTurn /\ ttsCancel = FALSE
  /\ handler = AtRest /\ interrupts = 0 /\ heard = NoTurn

-----------------------------------------------------------------------------
(* start_background_chat_compute: a running compute task is cancelled and    *)
(* waited for, then the queued chat is taken. If another starter has taken   *)
(* it meanwhile, a task is made that fails at once and is recorded no more.  *)

Launch(t) ==
  /\ turn' = IF queued = NoTurn THEN t
             ELSE [t EXCEPT ![queued].kind = "compute", ![queued].at = "computing"]
  /\ computeTask' = queued
  /\ queued' = NoTurn

BugHandlerStartsUnqueued(t, chat) ==
  \/ /\ Alive(computeTask)
     /\ turn' = Cancelled(t, computeTask)
     /\ handler' = [at |-> "joining", on |-> computeTask]
     /\ queued' = NoTurn
     /\ UNCHANGED computeTask
  \/ /\ ~Alive(computeTask)
     /\ turn' = [t EXCEPT ![chat].kind = "compute", ![chat].at = "computing"]
     /\ computeTask' = chat /\ queued' = NoTurn
     /\ handler' = AtRest

BugHandlerStartsUncancelled(t, chat) ==
  \/ /\ Alive(computeTask)
     /\ turn' = t
     /\ handler' = [at |-> "joining", on |-> computeTask]
     /\ queued' = chat
     /\ UNCHANGED computeTask
  \/ /\ ~Alive(computeTask)
     /\ turn' = [t EXCEPT ![chat].kind = "compute", ![chat].at = "computing"]
     /\ computeTask' = chat /\ queued' = NoTurn
     /\ handler' = AtRest

(* The inbound loop starts it for the chat in queued', t being the turns.    *)
HandlerStarts(t, chat) ==
  \/ /\ Alive(computeTask)
     /\ turn' = Cancelled(t, computeTask)
     /\ handler' = [at |-> "joining", on |-> computeTask]
     /\ queued' = chat
     /\ UNCHANGED computeTask
  \/ /\ ~Alive(computeTask)
     /\ turn' = [t EXCEPT ![chat].kind = "compute", ![chat].at = "computing"]
     /\ computeTask' = chat /\ queued' = NoTurn
     /\ handler' = AtRest

HandlerJoined ==
  /\ handler.at = "joining" /\ ~Alive(handler.on)
  /\ Launch(turn)
  /\ handler' = AtRest
  /\ UNCHANGED <<turnTask, pending, deferred, clientVars, grace, replyVars, speechVars>>

(* drain_chat_queue at the end of turn n. It runs inside the turn that       *)
(* turn_task refers to, which is not done yet: try_deliver_pending_chat and  *)
(* drain_pending_voice find that and return, so that only a queued chat is   *)
(* taken up. (_run_queued_turn is never reached.)                            *)
TurnDrains(n, t) ==
  \/ /\ queued = NoTurn
     /\ turn' = Gone(t, n)
     /\ UNCHANGED <<queued, computeTask>>
  \/ /\ queued # NoTurn /\ Alive(computeTask)
     /\ turn' = [Cancelled(t, computeTask) EXCEPT ![n].at = "joining", ![n].on = computeTask,
                                                  ![n].cancelled = FALSE]
     /\ UNCHANGED <<queued, computeTask>>
  \/ /\ queued # NoTurn /\ ~Alive(computeTask)
     /\ Launch(Gone(t, n))

(* The compute task n is over. A chat queued meanwhile is taken up at once;  *)
(* if n is itself the recorded task, cancelling and awaiting itself has no   *)
(* effect. Its finally block forgets whichever task is recorded.             *)
ComputeEnds(n, t) ==
  \/ /\ queued = NoTurn
     /\ turn' = Gone(t, n) /\ computeTask' = NoTurn
     /\ UNCHANGED queued
  \/ /\ queued # NoTurn /\ (computeTask = n \/ ~Alive(computeTask))
     /\ turn' = [Gone(t, n) EXCEPT ![queued].kind = "compute", ![queued].at = "computing"]
     /\ computeTask' = NoTurn /\ queued' = NoTurn
  \/ /\ queued # NoTurn /\ computeTask # n /\ Alive(computeTask)
     /\ turn' = [Cancelled(t, computeTask) EXCEPT ![n].at = "joining", ![n].on = computeTask,
                                                  ![n].cancelled = FALSE]
     /\ UNCHANGED <<queued, computeTask>>

(* A cancellation that arrives while a task waits here is swallowed.         *)
Joined(n) ==
  /\ turn[n].at = "joining" /\ ~Alive(turn[n].on)
  /\ IF turn[n].kind = "compute"
       THEN /\ turn' = IF queued = NoTurn THEN Gone(turn, n)
                       ELSE [Gone(turn, n) EXCEPT ![queued].kind = "compute",
                                                  ![queued].at = "computing"]
            /\ computeTask' = NoTurn /\ queued' = NoTurn
       ELSE Launch(Gone(turn, n))
  /\ UNCHANGED <<turnTask, pending, deferred, clientVars, grace, replyVars, speechVars, handler>>

-----------------------------------------------------------------------------
(* A turn's reply: run_supervisor_text_turn                                  *)

BugBeginKeepsFlag(n, via) ==
  /\ turn' = [turn EXCEPT ![n].at = "thinking", ![n].voice = (via = "voice_and_chat")]
  /\ speech' = "thinking" /\ current' = n
  /\ partial' = {} /\ persisted' = persisted
  /\ UNCHANGED <<queueVars, clientVars, grace, ttsCancel, handler, heard>>

Begin(n, via) ==
  /\ turn' = [turn EXCEPT ![n].at = "thinking", ![n].voice = (via = "voice_and_chat")]
  /\ speech' = "thinking" /\ current' = n
  /\ partial' = {} /\ persisted' = FALSE
  /\ UNCHANGED <<queueVars, clientVars, grace, ttsCancel, handler, heard>>

VoiceBegins(n) ==
  /\ turn[n].at = "hearing" /\ ~turn[n].cancelled
  /\ Begin(n, "voice_and_chat")
  /\ UNCHANGED turnTask

(* Nothing was understood, or a meeting is to begin.                         *)
HearsNothing(n) ==
  /\ turn[n].at = "hearing" /\ ~turn[n].cancelled
  /\ turn' = Gone(turn, n)
  /\ UNCHANGED <<turnTask, queueVars, clientVars, grace, replyVars, speechVars, handler>>

ChatBegins(n) ==
  /\ turn[n].at = "created" /\ ~turn[n].cancelled
  /\ ~session_busy
  /\ \E via \in IF playback THEN {"chat_only"} ELSE Channels : Begin(n, via)
  /\ UNCHANGED turnTask

(* The session has become busy since the chat came in.                       *)
ChatRequeues(n) ==
  /\ turn[n].at = "created" /\ ~turn[n].cancelled
  /\ session_busy
  /\ queued' = n
  /\ turn' = [turn EXCEPT ![n].at = "waiting"]
  /\ UNCHANGED <<turnTask, computeTask, pending, deferred, clientVars, grace, replyVars,
                 speechVars, handler>>

(* maybe_surface_signal and build_synthetic_turn                             *)
ProactiveBegins(n) ==
  /\ "proactive" \in Events
  /\ NextTurn(n)
  /\ \A m \in Turns : turn[m].kind = "proactive" => ~Alive(m)
  /\ ~Alive(turnTask) /\ queued = NoTurn /\ ~session_busy /\ ~grace
  /\ \E via \in Channels :
       /\ turn' = [turn EXCEPT ![n].kind = "proactive", ![n].at = "thinking",
                               ![n].voice = (via = "voice_and_chat")]
  /\ speech' = "thinking" /\ current' = n
  /\ partial' = {} /\ persisted' = FALSE
  /\ UNCHANGED <<turnTask, queueVars, clientVars, grace, ttsCancel, handler, heard>>

BugTokenNamesCurrent(n) ==
  /\ turn[n].at = "thinking" /\ ~turn[n].cancelled
  /\ ~ttsCancel
  /\ partial' = partial \cup {current}
  /\ turn' = [turn EXCEPT ![n].fed = turn[n].voice]
  /\ UNCHANGED <<turnTask, queueVars, clientVars, grace, persisted, speechVars, handler>>

(* on_token: what the caption handler and the pipeline do unless cancelled.  *)
Token(n) ==
  /\ turn[n].at = "thinking" /\ ~turn[n].cancelled
  /\ ~ttsCancel
  /\ partial' = partial \cup {n}
  /\ turn' = [turn EXCEPT ![n].fed = turn[n].voice]
  /\ UNCHANGED <<turnTask, queueVars, clientVars, grace, persisted, speechVars, handler>>

BugPipelineSpeaksOn(n) ==
  /\ turn[n].fed
  /\ turn' = [turn EXCEPT ![n].started = TRUE]
  /\ IF turn[n].started THEN heard' = n /\ UNCHANGED <<speech, ttsCancel>> ELSE BeginSpeaking(n)
  /\ UNCHANGED <<turnTask, queueVars, clientVars, grace, replyVars, current, handler>>

(* The pipeline's worker sends audio of the next sentence; the first time it *)
(* begins to speak. A failed turn leaves its worker running.                 *)
PipelineSpeaks(n) ==
  /\ turn[n].fed /\ ~ttsCancel
  /\ turn' = [turn EXCEPT ![n].started = TRUE]
  /\ IF turn[n].started THEN heard' = n /\ UNCHANGED <<speech, ttsCancel>> ELSE BeginSpeaking(n)
  /\ UNCHANGED <<turnTask, queueVars, clientVars, grace, replyVars, current, handler>>

BugPipelineDrainsOnceHeard(n) ==
  /\ turn[n].fed /\ turn[n].started
  /\ turn' = [turn EXCEPT ![n].fed = FALSE]
  /\ UNCHANGED <<turnTask, queueVars, clientVars, grace, replyVars, speechVars, handler>>

PipelineDrains(n) ==
  /\ turn[n].fed /\ (turn[n].started \/ ttsCancel)
  /\ turn' = [turn EXCEPT ![n].fed = FALSE]
  /\ UNCHANGED <<turnTask, queueVars, clientVars, grace, replyVars, speechVars, handler>>

Moves(n, from, to) ==
  /\ turn[n].at = from /\ ~turn[n].cancelled
  /\ turn' = [turn EXCEPT ![n].at = to, ![n].rows = IF to = "stored" THEN @ + 1 ELSE @]
  /\ UNCHANGED <<turnTask, queueVars, clientVars, grace, replyVars, speechVars, handler>>

(* The reply is complete and run_turn stores it; the row is there before     *)
(* append_turn is back.                                                      *)
Answers(n) == Moves(n, "thinking", "storing")

RowStored(n) == Moves(n, "storing", "stored")

(* run_turn is back; flush may still find a sentence.                        *)
Flushes(n) ==
  /\ turn[n].at = "stored" /\ ~turn[n].cancelled /\ turn[n].voice
  /\ persisted' = TRUE
  /\ \E tail \in BOOLEAN :
       turn' = [turn EXCEPT ![n].at = "flushing", ![n].fed = @ \/ (tail /\ ~ttsCancel)]
  /\ UNCHANGED <<turnTask, queueVars, clientVars, grace, partial, speechVars, handler>>

(* The finally block.                                                        *)
EndTurn(n, t) ==
  /\ FinishTurn
  /\ partial' = {}
  /\ grace' = TRUE
  /\ IF IsUserTurn(n) THEN TurnDrains(n, t)
     ELSE turn' = Gone(t, n) /\ UNCHANGED <<queued, computeTask>>
  /\ UNCHANGED <<turnTask, pending, deferred, clientVars, ttsCancel, heard, handler>>

(* deliver_turn_output, after the pipeline, if any, is done: a reply nothing *)
(* of which has been heard may be spoken as a whole ([RESPOND_VIA] in the    *)
(* reply overrides the channel), else only the chat_message is sent.         *)
ReadyToTell(n) ==
  /\ ~turn[n].cancelled
  /\ \/ turn[n].at = "stored" /\ ~turn[n].voice
     \/ turn[n].at = "flushing" /\ ~turn[n].fed

SpeaksWhole(n) ==
  /\ ReadyToTell(n) /\ ~turn[n].started
  /\ "voice_and_chat" \in Channels
  /\ turn' = [turn EXCEPT ![n].at = "batch", ![n].started = TRUE]
  /\ persisted' = TRUE
  /\ BeginSpeaking(n)
  /\ UNCHANGED <<turnTask, queueVars, clientVars, grace, partial, current, handler>>

Tells(n) ==
  /\ ReadyToTell(n) \/ (turn[n].at = "batch" /\ ~turn[n].cancelled)
  /\ persisted' = TRUE
  /\ EndTurn(n, Told(turn, n))

(* begin_tts_with_echo_suppression goes on.                                  *)
Sounds(n) ==
  /\ turn[n].at \in {"batch", "delivering"} /\ ~ttsCancel
  /\ heard' = n
  /\ UNCHANGED <<turn, turnTask, queueVars, clientVars, grace, replyVars, speech, current,
                 ttsCancel, handler>>

(* An exception: the client is told that the completion failed. The pipeline *)
(* is left as it is.                                                         *)
Fails(n) ==
  /\ "fail" \in Events
  /\ turn[n].at \in {"thinking", "storing"} /\ ~turn[n].cancelled
  /\ UNCHANGED persisted
  /\ EndTurn(n, turn)

-----------------------------------------------------------------------------
(* A cancelled turn                                                          *)

(* Neither run_supervisor_text_turn nor its finally block has been entered.  *)
CancelledEarly(n) ==
  /\ turn[n].cancelled /\ turn[n].at \in {"created", "hearing"}
  /\ turn' = Gone(turn, n)
  /\ UNCHANGED <<turnTask, queueVars, clientVars, grace, replyVars, speechVars, handler>>

(* CancelledError reaches the turn, which waits for its pipeline.            *)
Unwinds(n) ==
  /\ turn[n].cancelled /\ turn[n].at \in {"thinking", "storing", "stored"} /\ turn[n].voice
  /\ turn' = [turn EXCEPT ![n].at = "unwinding", ![n].cancelled = FALSE]
  /\ UNCHANGED <<turnTask, queueVars, clientVars, grace, replyVars, speechVars, handler>>

CanSalvage(n) ==
  \/ turn[n].at = "unwinding" /\ ~turn[n].cancelled /\ ~turn[n].fed
  \/ turn[n].cancelled /\ turn[n].at = "batch"
  \/ turn[n].cancelled /\ turn[n].at \in {"thinking", "storing", "stored"} /\ ~turn[n].voice

(* What had been said by then is sent, and stored unless it has been.        *)
Salvages(n) ==
  /\ CanSalvage(n)
  /\ partial # {} /\ ~persisted
  /\ turn' = [turn EXCEPT ![n].at = "saving", ![n].told = "partial", ![n].cancelled = FALSE]
  /\ UNCHANGED <<turnTask, queueVars, clientVars, grace, replyVars, speechVars, handler>>

NothingToSalvage(n) ==
  /\ CanSalvage(n)
  /\ partial = {} \/ persisted
  /\ UNCHANGED persisted
  /\ EndTurn(n, [turn EXCEPT ![n].told = IF partial = {} THEN @ ELSE "partial"])

Saved(n) ==
  /\ turn[n].at = "saving" /\ ~turn[n].cancelled
  /\ persisted' = TRUE
  /\ EndTurn(n, [turn EXCEPT ![n].rows = @ + 1])

(* Cancelled while its pipeline is being finished or cancelled, or while it  *)
(* stores the partial reply: straight to the finally block.                  *)
CancelledLate(n) ==
  /\ turn[n].cancelled /\ turn[n].at \in {"flushing", "unwinding", "saving"}
  /\ UNCHANGED persisted
  /\ \E written \in {0, IF turn[n].at = "saving" THEN 1 ELSE 0} :
       EndTurn(n, [turn EXCEPT ![n].fed = FALSE, ![n].rows = @ + written])

-----------------------------------------------------------------------------
(* A queued chat: _compute and try_deliver_pending_chat                      *)

(* Its reply is stored and kept for delivery, in the place of any other that *)
(* was; delivered at once if nothing is being said.                          *)
ComputeAnswers(n) ==
  /\ turn[n].at = "computing" /\ ~turn[n].cancelled
  /\ LET t == [turn EXCEPT ![n].rows = @ + 1]
     IN  \/ /\ Blocks(playback)
            /\ pending' = n
            /\ ComputeEnds(n, t)
            /\ UNCHANGED speechVars
         \/ /\ ~Blocks(playback) /\ "voice_and_chat" \in Channels
            /\ pending' = NoTurn
            /\ turn' = [t EXCEPT ![n].at = "delivering"]
            /\ BeginSpeaking(n) /\ current' = n
            /\ UNCHANGED <<queued, computeTask>>
         \/ /\ ~Blocks(playback) /\ "chat_only" \in Channels
            /\ pending' = NoTurn
            /\ ComputeEnds(n, Told(t, n))
            /\ FinishTurn
            /\ UNCHANGED <<ttsCancel, heard>>
  /\ UNCHANGED <<turnTask, deferred, clientVars, grace, replyVars, handler>>

ComputeDelivers(n) ==
  /\ turn[n].at = "delivering" /\ turn[n].kind = "compute" /\ ~turn[n].cancelled
  /\ FinishTurn
  /\ ComputeEnds(n, Told(turn, n))
  /\ UNCHANGED <<turnTask, pending, deferred, clientVars, grace, replyVars, ttsCancel, heard, handler>>

(* The chat is queued again, but nothing takes it up.                        *)
ComputeFails(n) ==
  /\ "fail" \in Events
  /\ turn[n].at = "computing" /\ ~turn[n].cancelled
  /\ turn' = [turn EXCEPT ![n].at = "waiting"]
  /\ queued' = n /\ computeTask' = NoTurn
  /\ UNCHANGED <<turnTask, pending, deferred, clientVars, grace, replyVars, speechVars, handler>>

(* A newer chat has cancelled it, perhaps when the reply was stored already. *)
ComputeCancelled(n) ==
  /\ turn[n].cancelled /\ turn[n].kind = "compute"
  /\ \/ /\ turn[n].at = "computing"
        /\ \E written \in 0 .. 1 : turn' = [Gone(turn, n) EXCEPT ![n].rows = @ + written]
        /\ UNCHANGED <<speech, current>>
     \/ /\ turn[n].at = "delivering"
        /\ turn' = Gone(turn, n)
        /\ FinishTurn
  /\ computeTask' = NoTurn
  /\ UNCHANGED <<turnTask, queued, pending, deferred, clientVars, grace, replyVars,
                 ttsCancel, heard, handler>>

-----------------------------------------------------------------------------
(* Messages of the client: _handle_text                                      *)

AudioStart ==
  /\ "voice" \in Events
  /\ Ready /\ ~capturing
  /\ capturing' = TRUE
  /\ speech' = "listening"
  /\ UNCHANGED <<turn, turnTask, queueVars, playback, interrupts, grace, replyVars, current,
                 ttsCancel, heard, handler>>

(* What was captured is too short, or the client discards it: an utterance   *)
(* that waits is discarded with it.                                          *)
AudioEndsEmpty ==
  /\ Ready /\ capturing
  /\ capturing' = FALSE
  /\ speech' = "listening"
  /\ deferred' = FALSE
  /\ UNCHANGED <<turn, turnTask, queued, computeTask, pending, playback, interrupts, grace,
                 replyVars, current, ttsCancel, heard, handler>>

AudioEnd(n) ==
  /\ Ready /\ capturing
  /\ NextTurn(n)
  /\ capturing' = FALSE
  /\ speech' = "listening"
  /\ \/ /\ Alive(turnTask)
        /\ deferred' = TRUE
        /\ UNCHANGED <<turn, turnTask>>
     \/ /\ ~Alive(turnTask)
        /\ turn' = [turn EXCEPT ![n].kind = "voice", ![n].at = "hearing"]
        /\ turnTask' = n
        /\ UNCHANGED deferred
  /\ UNCHANGED <<queued, computeTask, pending, playback, interrupts, grace, replyVars, current,
                 ttsCancel, heard, handler>>

(* chat_should_queue *)
ShouldQueue == session_busy \/ Blocks(playback)

BugChatStartsUnlessBusy(n) ==
  /\ "chat" \in Events
  /\ Ready /\ NextTurn(n) /\ ~session_busy
  /\ turn' = [turn EXCEPT ![n].kind = "chat", ![n].at = "created"]
  /\ turnTask' = n
  /\ UNCHANGED <<queueVars, clientVars, grace, replyVars, speechVars, handler>>

ChatStarts(n) ==
  /\ "chat" \in Events
  /\ Ready /\ NextTurn(n) /\ ~ShouldQueue
  /\ turn' = [turn EXCEPT ![n].kind = "chat", ![n].at = "created"]
  /\ turnTask' = n
  /\ UNCHANGED <<queueVars, clientVars, grace, replyVars, speechVars, handler>>

ChatQueues(n) ==
  /\ "chat" \in Events
  /\ Ready /\ NextTurn(n) /\ ShouldQueue
  /\ HandlerStarts([turn EXCEPT ![n].kind = "chat", ![n].at = "waiting"], n)
  /\ UNCHANGED <<turnTask, pending, deferred, clientVars, grace, replyVars, speechVars>>

(* _handle_interrupt: the turn task is cancelled; speech stops at the next   *)
(* frame; what had been said is sent and, unless it has been, stored.        *)
Interrupt ==
  /\ "interrupt" \in Events
  /\ Ready /\ interrupts < MaxInterrupts
  /\ interrupts' = interrupts + 1
  /\ ttsCancel' = TRUE /\ speech' = "idle" /\ heard' = NoTurn
  /\ LET said == partial # {} /\ current # NoTurn
     IN  /\ turn' = [n \in Turns |->
                      [turn[n] EXCEPT
                         !.cancelled = @ \/ (n = turnTask /\ Alive(n)),
                         !.silenced  = @ \/ (Alive(n) /\ turn[n].at \in InReply \cup {"delivering"}),
                         !.told      = IF said /\ n = current THEN "partial" ELSE @]]
         /\ IF said /\ ~persisted
              THEN handler' = [at |-> "saving", on |-> current] /\ UNCHANGED partial
              ELSE partial' = {} /\ UNCHANGED handler
  /\ UNCHANGED <<turnTask, queueVars, capturing, playback, grace, persisted, current>>

InterruptSaved ==
  /\ handler.at = "saving"
  /\ turn' = [turn EXCEPT ![handler.on].rows = @ + 1]
  /\ persisted' = TRUE /\ partial' = {}
  /\ handler' = AtRest
  /\ UNCHANGED <<turnTask, queueVars, clientVars, grace, speechVars>>

PlaybackStarts ==
  /\ "playback" \in Events
  /\ Ready /\ ~playback
  /\ playback' = TRUE
  /\ UNCHANGED <<turn, turnTask, queueVars, capturing, interrupts, grace, replyVars, speechVars,
                 handler>>

(* The inbound loop delivers a pending reply itself, or takes up a queued    *)
(* chat; s and c: the speech state and turn_id if it does not begin to speak. *)
(* (If the compute task of that reply still waits for another, it is taken to *)
(* be over.)                                                                  *)
HandlerDrains(t, p, s, c) ==
  \/ /\ CanDeliver(p) /\ "voice_and_chat" \in Channels
     /\ turn' = [t EXCEPT ![pending].kind = "handled", ![pending].at = "delivering"]
     /\ handler' = [at |-> "delivering", on |-> pending]
     /\ pending' = NoTurn
     /\ BeginSpeaking(pending) /\ current' = pending
     /\ UNCHANGED <<queued, computeTask>>
  \/ /\ CanDeliver(p) /\ "chat_only" \in Channels
     /\ pending' = NoTurn
     /\ FinishTurn
     /\ \/ queued # NoTurn /\ HandlerStarts(Told(t, pending), queued)
        \/ /\ queued = NoTurn
           /\ turn' = Told(t, pending) /\ handler' = AtRest
           /\ UNCHANGED <<queued, computeTask>>
     /\ UNCHANGED <<ttsCancel, heard>>
  \/ /\ ~CanDeliver(p)
     /\ speech' = s /\ current' = c
     /\ \/ queued # NoTurn /\ HandlerStarts(t, queued)
        \/ /\ queued = NoTurn
           /\ turn' = t /\ handler' = AtRest
           /\ UNCHANGED <<queued, computeTask>>
     /\ UNCHANGED <<pending, ttsCancel, heard>>

PlaybackStops ==
  /\ Ready /\ playback
  /\ playback' = FALSE
  /\ HandlerDrains(turn, FALSE, speech, current)
  /\ UNCHANGED <<turnTask, deferred, capturing, interrupts, grace, replyVars>>

HandlerDelivered ==
  /\ handler.at = "delivering"
  /\ HandlerDrains(Gone(Told(turn, handler.on), handler.on), playback, "idle", NoTurn)
  /\ UNCHANGED <<turnTask, deferred, clientVars, grace, replyVars>>

(* Three seconds without a turn have passed.                                 *)
GraceOver ==
  /\ grace
  /\ grace' = FALSE
  /\ UNCHANGED <<turn, turnTask, queueVars, clientVars, replyVars, speechVars, handler>>

-----------------------------------------------------------------------------
Replies(n) ==
  \/ VoiceBegins(n) \/ HearsNothing(n) \/ ChatBegins(n) \/ ChatRequeues(n)
  \/ Answers(n) \/ RowStored(n) \/ Flushes(n) \/ SpeaksWhole(n) \/ Tells(n) \/ Fails(n)
  \/ CancelledEarly(n) \/ Unwinds(n) \/ Salvages(n) \/ NothingToSalvage(n) \/ Saved(n)
  \/ CancelledLate(n) \/ Joined(n)
  \/ ComputeAnswers(n) \/ ComputeDelivers(n) \/ ComputeFails(n) \/ ComputeCancelled(n)

Pipeline(n) == PipelineSpeaks(n) \/ PipelineDrains(n) \/ Sounds(n)

Message(n) == AudioEnd(n) \/ ChatStarts(n) \/ ChatQueues(n)

HandlerGoesOn == HandlerJoined \/ InterruptSaved \/ HandlerDelivered

Next ==
  \/ \E n \in Turns : Replies(n) \/ Token(n) \/ Pipeline(n) \/ ProactiveBegins(n) \/ Message(n)
  \/ AudioStart \/ AudioEndsEmpty \/ Interrupt \/ PlaybackStarts \/ PlaybackStops
  \/ HandlerGoesOn \/ GraceOver

Spec == Init /\ [][Next]_vars

(* The event loop runs what is ready; the model, Postgres and the speech     *)
(* engines answer or fail (of the model this is an assumption, since nothing *)
(* limits the time it takes); time passes. The client need not say anything, *)
(* nor the notifier.                                                         *)
Fairness ==
  /\ \A n \in Turns : WF_vars(Replies(n)) /\ WF_vars(PipelineSpeaks(n)) /\ WF_vars(PipelineDrains(n))
  /\ WF_vars(HandlerGoesOn) /\ WF_vars(GraceOver)

FairSpec == Spec /\ Fairness

-----------------------------------------------------------------------------
(* Properties                                                               *)

(* One voice or typed turn at a time is under way, and it is the one an      *)
(* interrupt will cancel (session.turn_task).                                *)
OneUserTurn == \A n \in Turns : IsUserTurn(n) /\ Alive(n) => n = turnTask

(* The session is not busy for nobody: when it counts as thinking or         *)
(* speaking, some turn will call finish_turn. Otherwise every chat would be  *)
(* queued and the notifier would keep still for ever.                        *)
BusyForATurn ==
  session_busy => \E n \in Turns : Alive(n) /\ turn[n].at \in InReply \cup {"delivering"}

(* A spoken or typed turn that was interrupted is not heard again: "They are *)
(* NOT spoken after the interrupt. The interrupted turn is over" (PLAN.md).   *)
InterruptedUserTurnIsOver ==
  heard # NoTurn /\ IsUserTurn(heard) => ~turn[heard].silenced

(* Turns, queued chats and the inbound loop cancel and await each other      *)
(* (drain_chat_queue, start_background_chat_compute). What is awaited is     *)
(* over, or is a queued chat that the cancellation will end; a task that     *)
(* itself awaits another would swallow it. So they never wait in a circle.   *)
WillEnd(m) ==
  turn[m].at = "gone" \/ (turn[m].cancelled /\ turn[m].at \in {"computing", "delivering"})

AwaitedWillEnd ==
  /\ \A n \in Turns : turn[n].at = "joining" => WillEnd(turn[n].on)
  /\ handler.at = "joining" => WillEnd(handler.on)

(* What the client was told of a reply, in full or cut short, is in the       *)
(* history: the interrupt handler, the cancelled turn and run_turn itself     *)
(* store it, each of which looks at turn_llm_persisted first and then waits.  *)
(* (They may store it twice.)                                                *)
ToldIsStored ==
  \A n \in Turns :
    turn[n].told # "nothing" /\ turn[n].at = "gone" =>
      turn[n].rows > 0 \/ handler = [at |-> "saving", on |-> n]

(* A typed message that waits is the queued one, unless a newer one has      *)
(* replaced it: the single slot of the queue forgets nothing else.           *)
NoChatLost ==
  \A n \in Turns :
    turn[n].at = "waiting" =>
      queued = n \/ \E m \in Turns : m > n /\ turn[m].kind \in {"chat", "compute", "handled"}

(* Every turn ends, interrupted or not: the tasks that await each other get  *)
(* what they wait for, and a cancelled turn gets past its pipeline.          *)
TurnsEnd == \A n \in Turns : []<>~Alive(n)

(* "A typed chat message NEVER interrupts ongoing speech" (PLAN.md): a reply *)
(* that is being spoken comes to its chat_message.                           *)
ChatNeverInterrupts ==
  [][\A n \in Turns :
       turn[n].at = "delivering" /\ turn'[n].at = "gone" => turn'[n].told # "nothing"]_vars

(* "Current speech ends: start the queued turn immediately" (PLAN.md): a     *)
(* reply that waits is delivered, unless the client plays something or a     *)
(* newer reply takes its place.                                              *)
PendingIsDelivered ==
  \A n \in Turns : pending = n /\ ~playback ~> pending # n \/ playback
=============================================================================
