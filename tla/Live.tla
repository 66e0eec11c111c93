-------------------------------- MODULE Live --------------------------------
(***************************************************************************)
(* The session of one user while its devices come and go: connections and  *)
(* the handover between them (transport/session_registry.py, ws.py), and   *)
(* meeting mode, whose utterances are buffered, stored in chunks and       *)
(* summarized when the meeting is over (orchestrator/meeting.py,           *)
(* memory/meeting_storage.py, memory/meeting_summarizer.py).               *)
(*                                                                         *)
(* Two kinds of actors share the state of the session: the inbound loop of *)
(* each socket, which handles one message after the other, and the turns   *)
(* it starts. Both enter and leave meetings, and both wait in the middle   *)
(* of it for sends and for the embedding of a chunk. A superseded socket   *)
(* goes on until its loop has read the disconnect.                         *)
(***************************************************************************)
EXTENDS Integers, FiniteSets

CONSTANTS
  Sockets,     (* connections; each is used once                             *)
  Turns,       (* turns; the utterance a turn transcribes has its name        *)
  Meetings,    (* meeting ids                                                *)
  MaxRetries,  (* meeting_summary_max_retries                                *)
  NoSocket, NoTurn, NoMeeting

Actors == Sockets \cup Turns

ASSUME ActorsAssumption == Sockets \cap Turns = {}
ASSUME NoneAssumption ==
  NoSocket \notin Sockets /\ NoTurn \notin Turns /\ NoMeeting \notin Meetings
ASSUME RetriesAssumption == MaxRetries \in Nat

VARIABLES
  job,       (* where each actor is                                          *)
  attached,  (* session.websocket                                            *)
  closed,    (* sockets that have been told session_superseded and closed     *)
  turnTask,  (* session.turn_task                                            *)
  mode,      (* session.client_control.mode                                  *)
  meeting,   (* session.meeting_state, by its meeting_id                      *)
  begun,     (* meetings ever begun                                          *)
  buffer,    (* MeetingState.buffer of each meeting                          *)
  stored,    (* utterances in the stored chunks of each meeting              *)
  post,      (* the post-meeting summaries of each meeting                   *)
  said,      (* history: utterances ever appended to a meeting               *)
  owed       (* history: those said before an exit that has ended it          *)

transport == <<attached, closed>>
session == <<mode, meeting, begun>>
text == <<buffer, stored, said>>
history == <<post, owed>>
vars == <<job, attached, closed, turnTask, mode, meeting, begun, buffer, stored,
          post, said, owed>>

-----------------------------------------------------------------------------
(* A socket before and after it serves the session; a turn that transcribes   *)
(* in conversation and in meeting mode, waits for its caption, for a chunk,   *)
(* or for Main; either of them inside enter_ and exit_meeting_mode.           *)
Serving == {"ready", "entering", "finalizing", "announcing"}
SocketStage == {"new", "superseding", "ensuring", "gone"} \cup Serving
Running == {"hearing", "transcribing", "captioning", "flushing", "replying",
            "entering", "finalizing", "announcing"}
TurnStage == {"unused", "over"} \cup Running

Job == [at : SocketStage \cup TurnStage,
        found : Sockets \cup {NoSocket},     (* the socket it supersedes      *)
        met : Meetings \cup {NoMeeting},     (* the meeting it flushes        *)
        text : SUBSET Turns,                 (* the chunk it stores           *)
        before : SUBSET Turns]               (* history: said when it began   *)

(* Summaries of a meeting: those created and not run yet, and the one that    *)
(* holds the lock of the meeting.                                            *)
Post == [waiting : Nat, at : {"idle", "asking", "persisting"}, attempt : Nat]

At(stage) == [at |-> stage, found |-> NoSocket, met |-> NoMeeting, text |-> {},
              before |-> {}]
Goes(a, stage) == job' = [job EXCEPT ![a] = At(stage)]

(* What an actor does after a handler: a loop receives, a turn is over; and   *)
(* when the handler raises.                                                  *)
AtRest(a) == IF a \in Sockets THEN "ready" ELSE "over"
AfterError(a) == IF a \in Sockets THEN "gone" ELSE "over"

TurnRuns == turnTask # NoTurn /\ job[turnTask].at \in Running
NextTurn == CHOOSE t \in Turns : job[t].at = "unused"
CanStart == \E t \in Turns : job[t].at = "unused"

(* The finally block of ws_endpoint cancels session.turn_task.                *)
TurnCancelled(j) == IF TurnRuns THEN [j EXCEPT ![turnTask] = At("over")] ELSE j

Init ==
  /\ job = [a \in Actors |-> IF a \in Sockets THEN At("new") ELSE At("unused")]
  /\ attached = NoSocket /\ closed = {} /\ turnTask = NoTurn
  /\ mode = "conversation" /\ meeting = NoMeeting /\ begun = {}
  /\ buffer = [m \in Meetings |-> {}] /\ stored = [m \in Meetings |-> {}]
  /\ post = [m \in Meetings |-> [waiting |-> 0, at |-> "idle", attempt |-> 0]]
  /\ said = [m \in Meetings |-> {}] /\ owed = [m \in Meetings |-> {}]

-----------------------------------------------------------------------------
(* Connections                                                              *)

(* Mutant: nobody looks whether a socket is attached.                         *)
BugHelloFindsNobody(s) ==
  /\ job[s].at = "new"
  /\ job' = [job EXCEPT ![s] = [At("superseding") EXCEPT !.found = attached]]
  /\ UNCHANGED <<transport, turnTask, session, text, history>>

(* enforce_session_singleton: a socket that is attached and connected is told *)
(* and closed first, which takes a while. One that is gone may still look     *)
(* connected: when a handler has raised, nothing has been received from it.   *)
HelloArrives(s) ==
  /\ job[s].at = "new"
  /\ \/ /\ attached # NoSocket
        /\ job' = [job EXCEPT ![s] = [At("superseding") EXCEPT !.found = attached]]
        /\ UNCHANGED attached
     \/ /\ attached # NoSocket => job[attached].at = "gone"
        /\ Goes(s, "ensuring") /\ attached' = s
  /\ UNCHANGED <<closed, turnTask, session, text, history>>

TakesOver(s) ==
  /\ job[s].at = "superseding"
  /\ closed' = closed \cup {job[s].found}
  /\ attached' = s
  /\ Goes(s, "ensuring")
  /\ UNCHANGED <<turnTask, session, text, history>>

(* ensure_session; from now on the loop of the socket has the session.        *)
Welcomes(s) ==
  /\ job[s].at = "ensuring"
  /\ Goes(s, "ready")
  /\ UNCHANGED <<transport, turnTask, session, text, history>>

(* The client disconnects or a send fails, which ends the loop.               *)
SocketEnds(s) ==
  /\ job[s].at \in {"new", "ensuring", "ready", "entering", "announcing"}
  /\ job' = LET ended == [job EXCEPT ![s] = At("gone")]
            IN  IF job[s].at \in Serving THEN TurnCancelled(ended) ELSE ended
  /\ UNCHANGED <<transport, turnTask, session, text, history>>

-----------------------------------------------------------------------------
(* Entering and leaving meeting mode                                         *)

(* enter_meeting_mode, up to its first send                                   *)
Enter(a) ==
  /\ begun # Meetings
  /\ LET new == CHOOSE m \in Meetings : m \notin begun
     IN  meeting' = new /\ begun' = begun \cup {new}
  /\ mode' = "meeting"
  /\ Goes(a, "entering")
  /\ UNCHANGED <<transport, text, history>>

(* The rest of finalize_meeting and exit_meeting_mode, up to its send: with   *)
(* the meeting found at its start, whatever session.meeting_state is by now.  *)
Finalizes(a, m, before) ==
  /\ meeting' = NoMeeting /\ mode' = "conversation"
  /\ post' = [post EXCEPT ![m].waiting = @ + 1]
  /\ owed' = [owed EXCEPT ![m] = @ \cup before]
  /\ Goes(a, "announcing")
  /\ UNCHANGED begun

(* Mutant: the meeting is ended without its last chunk.                       *)
BugExitEndsFirst(a) ==
  /\ IF meeting = NoMeeting
       THEN /\ mode' = "conversation" /\ Goes(a, "announcing")
            /\ UNCHANGED <<meeting, begun, history>>
       ELSE Finalizes(a, meeting, said[meeting])
  /\ UNCHANGED <<transport, text>>

(* exit_meeting_mode, up to its first await                                   *)
Exit(a) ==
  /\ CASE meeting = NoMeeting ->
            /\ mode' = "conversation" /\ Goes(a, "announcing")
            /\ UNCHANGED <<meeting, begun, history>>
       [] meeting # NoMeeting /\ buffer[meeting] = {} ->
            Finalizes(a, meeting, said[meeting])
       [] meeting # NoMeeting /\ buffer[meeting] # {} ->
            /\ job' = [job EXCEPT ![a] =
                 [At("finalizing") EXCEPT !.met = meeting, !.text = buffer[meeting],
                                          !.before = said[meeting]]]
            /\ UNCHANGED <<session, history>>
  /\ UNCHANGED <<transport, text>>

(* The chunk is embedded: it is stored, and the buffer cleared, with all that *)
(* has come into it meanwhile.                                                *)
Stores(m, chunk) ==
  /\ stored' = [stored EXCEPT ![m] = @ \cup chunk]
  /\ buffer' = [buffer EXCEPT ![m] = {}]
  /\ UNCHANGED said

(* Mutant: the mode is left for the client to change.                         *)
BugRemainderKeepsMode(a) ==
  /\ job[a].at = "finalizing"
  /\ Stores(job[a].met, job[a].text)
  /\ meeting' = NoMeeting
  /\ post' = [post EXCEPT ![job[a].met].waiting = @ + 1]
  /\ owed' = [owed EXCEPT ![job[a].met] = @ \cup job[a].before]
  /\ Goes(a, "announcing")
  /\ UNCHANGED <<transport, turnTask, mode, begun>>

RemainderStored(a) ==
  /\ job[a].at = "finalizing"
  /\ Stores(job[a].met, job[a].text)
  /\ Finalizes(a, job[a].met, job[a].before)
  /\ UNCHANGED <<transport, turnTask>>

Announced(a) ==
  /\ job[a].at \in {"entering", "announcing"}
  /\ Goes(a, AtRest(a))
  /\ UNCHANGED <<transport, turnTask, session, text, history>>

(* The embedding or LanceDB fails: the buffer stays, and so does the meeting. *)
(* In a loop the exception ends the connection.                               *)
FlushFails(a) ==
  /\ job[a].at \in {"flushing", "finalizing"}
  /\ job' = LET ended == [job EXCEPT ![a] = At(AfterError(a))]
            IN  IF a \in Sockets THEN TurnCancelled(ended) ELSE ended
  /\ UNCHANGED <<transport, turnTask, session, text, history>>

-----------------------------------------------------------------------------
(* Messages of a client                                                     *)

(* on_mode_change                                                            *)
ModeMessage(s) ==
  /\ job[s].at = "ready"
  /\ IF mode = "meeting" THEN Exit(s) ELSE Enter(s)
  /\ UNCHANGED turnTask

(* _handle_audio_end. An utterance that ends during a turn is deferred.       *)
AudioEnd(s) ==
  /\ job[s].at = "ready" /\ ~TurnRuns /\ CanStart
  /\ turnTask' = NextTurn
  /\ Goes(NextTurn, IF mode = "meeting" THEN "transcribing" ELSE "hearing")
  /\ UNCHANGED <<transport, session, text, history>>

(* A typed message that need not be queued; Main is asked.                    *)
Chat(s) ==
  /\ job[s].at = "ready" /\ ~TurnRuns /\ CanStart
  /\ turnTask' = NextTurn
  /\ Goes(NextTurn, "replying")
  /\ UNCHANGED <<transport, session, text, history>>

Interrupt(s) ==
  /\ job[s].at = "ready" /\ TurnRuns
  /\ job' = TurnCancelled(job)
  /\ UNCHANGED <<transport, turnTask, session, text, history>>

-----------------------------------------------------------------------------
(* Turns                                                                    *)

(* run_voice_turn: "start meeting", or words for Main                         *)
VoiceTranscribed(t) ==
  /\ job[t].at = "hearing"
  /\ \/ mode = "conversation" /\ Enter(t)
     \/ Goes(t, "replying") /\ UNCHANGED <<transport, session, text, history>>
  /\ UNCHANGED turnTask

(* append_utterance, up to the caption                                        *)
Append(t) ==
  /\ meeting # NoMeeting
  /\ buffer' = [buffer EXCEPT ![meeting] = @ \cup {t}]
  /\ said' = [said EXCEPT ![meeting] = @ \cup {t}]
  /\ Goes(t, "captioning")
  /\ UNCHANGED <<transport, stored, session, history>>

(* Mutant: "start meeting" does not look whether there is one.                *)
BugMeetingTranscribedRestarts(t) ==
  /\ job[t].at = "transcribing"
  /\ \/ Exit(t)
     \/ Enter(t)
     \/ Append(t)
     \/ Goes(t, "replying") /\ UNCHANGED <<transport, session, text, history>>
  /\ UNCHANGED turnTask

(* handle_meeting_transcript: "end meeting", "start meeting", an utterance,   *)
(* or words for Main                                                         *)
MeetingTranscribed(t) ==
  /\ job[t].at = "transcribing"
  /\ \/ Exit(t)
     \/ meeting = NoMeeting /\ Enter(t)
     \/ Append(t)
     \/ Goes(t, "replying") /\ UNCHANGED <<transport, session, text, history>>
  /\ UNCHANGED turnTask

(* maybe_flush_chunk, when the interval is over: of the meeting there is now. *)
FlushStarts(t) ==
  /\ job[t].at = "captioning"
  /\ meeting # NoMeeting /\ buffer[meeting] # {}
  /\ job' = [job EXCEPT ![t] =
       [At("flushing") EXCEPT !.met = meeting, !.text = buffer[meeting]]]
  /\ UNCHANGED <<transport, turnTask, session, text, history>>

ChunkStored(t) ==
  /\ job[t].at = "flushing"
  /\ Stores(job[t].met, job[t].text)
  /\ Goes(t, "over")
  /\ UNCHANGED <<transport, turnTask, session, history>>

(* Nothing was said, there is nothing to do, Main has answered, or an await   *)
(* has failed.                                                               *)
TurnEnds(t) ==
  /\ job[t].at \in Running \ {"flushing", "finalizing"}
  /\ Goes(t, "over")
  /\ UNCHANGED <<transport, turnTask, session, text, history>>

-----------------------------------------------------------------------------
(* The summary of a meeting that is over                                     *)

Summarizing(m, record) ==
  /\ post' = [post EXCEPT ![m] = record]
  /\ UNCHANGED <<job, transport, turnTask, session, text, owed>>

(* _run_post_meeting_summary: not while another one has the lock; nothing to  *)
(* do without chunks.                                                        *)
SummaryStarts(m) ==
  /\ post[m].waiting > 0
  /\ Summarizing(m, [post[m] EXCEPT !.waiting = @ - 1,
       !.at = IF post[m].at = "idle" /\ stored[m] # {} THEN "asking" ELSE @])

SummaryAnswered(m) ==
  /\ post[m].at = "asking"
  /\ Summarizing(m, [post[m] EXCEPT !.at = "persisting", !.attempt = 0])

(* The model fails or answers no JSON.                                        *)
AttemptFails(m) ==
  /\ post[m].at = "asking"
  /\ Summarizing(m, IF post[m].attempt < MaxRetries
                      THEN [post[m] EXCEPT !.attempt = @ + 1]
                      ELSE [post[m] EXCEPT !.at = "idle", !.attempt = 0])

(* Mutant: a summary that cannot be stored is made again, without end.        *)
BugFactStoredOrAgain(m) ==
  /\ post[m].at = "persisting"
  /\ \E at \in {"idle", "asking"} : Summarizing(m, [post[m] EXCEPT !.at = at])

(* set_fact has stored the summary, or failed                                 *)
FactStored(m) ==
  /\ post[m].at = "persisting"
  /\ Summarizing(m, [post[m] EXCEPT !.at = "idle"])

-----------------------------------------------------------------------------
SocketStep(s) == TakesOver(s) \/ Welcomes(s) \/ RemainderStored(s) \/ Announced(s)
                   \/ FlushFails(s)
TurnStep(t) ==
  \/ VoiceTranscribed(t) \/ MeetingTranscribed(t) \/ FlushStarts(t) \/ ChunkStored(t)
  \/ RemainderStored(t) \/ Announced(t) \/ FlushFails(t) \/ TurnEnds(t)
SummaryStep(m) ==
  SummaryStarts(m) \/ SummaryAnswered(m) \/ AttemptFails(m) \/ FactStored(m)

Next ==
  \/ \E s \in Sockets :
       \/ HelloArrives(s) \/ SocketEnds(s) \/ SocketStep(s)
       \/ ModeMessage(s) \/ AudioEnd(s) \/ Chat(s) \/ Interrupt(s)
  \/ \E t \in Turns : TurnStep(t)
  \/ \E m \in Meetings : SummaryStep(m)

Spec == Init /\ [][Next]_vars

(* The event loop runs the summaries, and the model and Postgres answer or     *)
(* fail. No client has to do anything, and no handler has to come to its end.  *)
Fairness == \A m \in Meetings : WF_vars(SummaryStep(m))

FairSpec == Spec /\ Fairness

-----------------------------------------------------------------------------
(* Properties                                                               *)

TypeOK ==
  /\ job \in [Actors -> Job]
  /\ \A s \in Sockets : job[s].at \in SocketStage
  /\ \A t \in Turns : job[t].at \in TurnStage
  /\ \A a \in Actors : job[a].at \in {"flushing", "finalizing"} => job[a].met # NoMeeting
  /\ \A s \in Sockets : job[s].at = "superseding" => job[s].found # NoSocket
  /\ attached \in Sockets \cup {NoSocket} /\ closed \subseteq Sockets
  /\ turnTask \in Turns \cup {NoTurn}
  /\ mode \in {"conversation", "meeting"} /\ meeting \in Meetings \cup {NoMeeting}
  /\ begun \subseteq Meetings
  /\ buffer \in [Meetings -> SUBSET Turns] /\ stored \in [Meetings -> SUBSET Turns]
  /\ post \in [Meetings -> Post]
  /\ said \in [Meetings -> SUBSET Turns] /\ owed \in [Meetings -> SUBSET Turns]

(* The mode says whether there is a meeting: a client is never in meeting     *)
(* mode, where Main is silent, with nobody listening, although the loops of   *)
(* two devices and a turn enter and leave it at once, fail or are cancelled.  *)
ModeMatchesMeeting == (mode = "meeting") <=> (meeting # NoMeeting)

(* A meeting ends before another one begins: the state of a meeting, with the *)
(* utterances not stored yet, is never replaced by that of a new one.         *)
MeetingNotReplaced == [][meeting # NoMeeting => meeting' \in {meeting, NoMeeting}]_vars

(* "Flush remaining buffer and schedule post-meeting summary"                 *)
(* (finalize_meeting): when the summary is scheduled, every utterance made    *)
(* before that exit began is in a stored chunk, although chunks are stored    *)
(* meanwhile, buffers cleared and other exits under way.                      *)
RemainingIsFlushed == \A m \in Meetings : owed[m] \subseteq stored[m]

(* Every summary that is scheduled comes to its end, and with it the lock of  *)
(* the meeting is released.                                                   *)
SummariesEnd ==
  \A m \in Meetings :
    post[m].waiting > 0 \/ post[m].at # "idle" ~> post[m].waiting = 0 /\ post[m].at = "idle"
=============================================================================
