------------------------------ MODULE MainTurn ------------------------------
(***************************************************************************)
(* One turn of Main (Server2): Supervisor.run_turn, from the words of the  *)
(* user to the reply that is heard and the rows that are stored, with the  *)
(* directives Main writes into its answer (orchestrator/directives.py).    *)
(*                                                                         *)
(* An answer is a sequence of items: prose and directives. Its directives  *)
(* are obeyed in an order of their own: stops, answers to sub-agents,      *)
(* recalls, facts to remember, delegates, searches. Spawns run in parallel *)
(* and so do searches; sub-agents finish and pause meanwhile; each await   *)
(* may fail, or the turn may be cancelled there.                           *)
(*                                                                         *)
(* What other turns do at the same time is the subject of Turns and        *)
(* SubAgents; what becomes of the rows and facts, of Memory.               *)
(***************************************************************************)
EXTENDS Integers, Sequences, SequencesExt

CONSTANTS
  Goals,     (* capability and goal of delegated tasks                        *)
  NoGoal,
  Outputs    (* the answers of the model                                      *)

(* again: a paragraph that repeats what the answer says before it.           *)
Words == {"prose", "again", "openSearch"}

(* ignored: a directive that changes nothing, because its payload is no JSON, *)
(* its capability or key is not allowed or its task is not known. openSearch: *)
(* the beginning of a [SEARCH that lacks its end, which no pattern matches.   *)
Plain == {"search", "remember", "recall", "meeting", "respond_via", "ignored"}
WithGoal == {"delegate", "stop", "answer"}
Item == [kind : Plain \cup Words, goal : {NoGoal}]
          \cup [kind : WithGoal, goal : Goals]

(* Pieces of text, as they are heard and stored.                             *)
AnswerPiece == <<"answer1", "answer2", "answer3">>
Pieces == Words \cup {"recalled", "note", "noted", "fallback"} \cup ToSet(AnswerPiece)
MaxSearches == 3

ASSUME OutputsAssumption == Outputs \subseteq Seq(Item)
ASSUME GoalsAssumption == NoGoal \notin Goals

VARIABLES
  board,     (* whether a task works on a goal: running, waiting, over        *)
  turn,      (* the local variables of run_turn                               *)
  heard,     (* what on_token has been given                                  *)
  rows       (* the rows this turn has added to the table of turns            *)

vars == <<board, turn, heard, rows>>

-----------------------------------------------------------------------------
(* Directives and text                                                      *)

(* The items of some kinds in the order in which they stand: the nth of them  *)
(* is at the nth position there is (SelectSeq, without recursion).            *)
Positions(out, kinds) == {i \in DOMAIN out : out[i].kind \in kinds}
Nth(S, n) == CHOOSE i \in S : Cardinality({k \in S : k <= i}) = n
OfKind(out, kinds) ==
  LET S == Positions(out, kinds) IN [n \in 1 .. Cardinality(S) |-> out[Nth(S, n)]]

Has(out, kind) == \E i \in DOMAIN out : out[i].kind = kind
GoalsOf(out, kind) == {out[i].goal : i \in {j \in DOMAIN out : out[j].kind = kind}}

TextOf(out) == [i \in DOMAIN out |-> out[i].kind]

(* strip_directives: patterns match whole directives only                    *)
Strip(out) == TextOf(OfKind(out, Words))

(* finalize_assistant_prose: drops what follows the paragraph where an        *)
(* answer begins to repeat itself, and that paragraph                        *)
Repeats(text) == {i \in DOMAIN text : i > 1 /\ text[i] = "again"}
Finalized(text) == IF Repeats(text) = {} THEN text ELSE SubSeq(text, 1, Min(Repeats(text)) - 1)

(* plan_acknowledgment: the text before the first directive                  *)
Acknowledgment(out) ==
  LET directives == {i \in DOMAIN out : out[i].kind \in Plain \cup WithGoal}
      before == {i \in DOMAIN out : \A j \in directives : i < j}
  IN  Strip(SubSeq(out, 1, Cardinality(before)))

(* contains_directive_leak                                                   *)
Leaks(text) == "openSearch" \in ToSet(text)

(* Mutant: a directive that leaks is stored.                                 *)
BugEnsuredKeepsLeaks(text) == IF text = <<>> THEN <<"fallback">> ELSE text

(* _ensure_visible_reply                                                     *)
Ensured(text) == IF text = <<>> \/ Leaks(text) THEN <<"fallback">> ELSE text

Stops(out) == OfKind(out, {"stop"})
Answers(out) == OfKind(out, {"answer"})
Delegates(out) == OfKind(out, {"delegate"})
SearchCount(out) == LET n == Len(OfKind(out, {"search"})) IN IF n < MaxSearches THEN n ELSE MaxSearches

(* parse_directives finds every recall before it looks for facts to remember *)
Profile(out) == OfKind(out, {"recall", "meeting"}) \o OfKind(out, {"remember"})

(* run_turn grounds a second answer on recalls, but not on [RECALL meeting:]  *)
RecallBlock(out) == Has(out, "recall")

-----------------------------------------------------------------------------
(* The turn                                                                 *)

(* Where the turn waits: for the session, the context, the row of the user,  *)
(* the model; for the directives it obeys; for on_token; for its last row.   *)
Waits == {"session", "context", "user_row", "asking", "asking_again", "stopping",
          "answering", "profile", "spawning", "opening", "searching", "telling",
          "recalling", "noting", "speaking", "storing"}
Stage == {"idle"} \cup Waits \cup {"silent", "done", "failed"}

Turn == [at : Stage,
         allowed : BOOLEAN,              (* delegates_allowed                 *)
         out : Seq(Item),                (* raw_text of the first pass        *)
         todo : Seq(Item),               (* directives of this stage to come  *)
         starting : SUBSET Nat,          (* delegates whose task has not run  *)
         storing : SUBSET Nat,           (* delegates whose row is stored     *)
         fresh : SUBSET Goals,           (* goals this turn created tasks for *)
         told : SUBSET Goals,            (* goals in spawn_blocks             *)
         pending : SUBSET Nat,           (* searches under way                *)
         found : Seq(Seq(Pieces)),       (* their answers                     *)
         parts : Seq(Pieces),            (* what has been emitted             *)
         reply : Seq(Pieces),            (* assistant_text                    *)
         override : BOOLEAN]             (* [RESPOND_VIA] has been applied    *)

NewTurn == [at |-> "idle", allowed |-> TRUE, out |-> <<>>, todo |-> <<>>,
            starting |-> {}, storing |-> {}, fresh |-> {}, told |-> {},
            pending |-> {}, found |-> <<>>, parts |-> <<>>, reply |-> <<>>,
            override |-> FALSE]

Live == {"running", "waiting"}
Statuses == {"over"} \cup Live

(* The board is what earlier turns have left.                                *)
Init ==
  /\ board \in [Goals -> Statuses]
  /\ turn = NewTurn
  /\ heard = <<>> /\ rows = <<>>

Row(role, text) == [role |-> role, text |-> text]

(* Main answers the user, or a proactive signal without directives.          *)
Begin ==
  /\ turn.at = "idle"
  /\ \E allowed \in BOOLEAN : turn' = [turn EXCEPT !.at = "session", !.allowed = allowed]
  /\ UNCHANGED <<board, heard, rows>>

(* ensure_session; a turn without words is over.                             *)
SessionReady ==
  /\ turn.at = "session"
  /\ \E next \in {"context", "silent"} : turn' = [turn EXCEPT !.at = next]
  /\ UNCHANGED <<board, heard, rows>>

(* The three reads of the context; the row of the user comes after them.     *)
ContextRead ==
  /\ turn.at = "context"
  /\ turn' = [turn EXCEPT !.at = "user_row"]
  /\ UNCHANGED <<board, heard, rows>>

(* Mutant: the row is stored in a role that is not one of a conversation.    *)
BugUserRowOfNobody ==
  /\ turn.at = "user_row"
  /\ rows' = Append(rows, Row("system", <<>>))
  /\ turn' = [turn EXCEPT !.at = "asking"]
  /\ UNCHANGED <<board, heard>>

UserRowStored ==
  /\ turn.at = "user_row"
  /\ rows' = Append(rows, Row("user", <<>>))
  /\ turn' = [turn EXCEPT !.at = "asking"]
  /\ UNCHANGED <<board, heard>>

(* Without directives the answer streams to on_token as it comes, where the  *)
(* pipeline strips the directives it has nevertheless, but no repetition:    *)
(* that is dropped from what is stored when all of it has been heard.        *)
(* _complete asks a second time when the answer is empty.                    *)
AnswersDirectly ==
  /\ turn.at \in {"asking", "asking_again"} /\ ~turn.allowed
  /\ \E out \in Outputs :
       IF out = <<>> /\ turn.at = "asking"
         THEN turn' = [turn EXCEPT !.at = "asking_again"] /\ UNCHANGED heard
         ELSE /\ heard' = Strip(out)
              /\ turn' = [turn EXCEPT !.at = "storing", !.out = out,
                                      !.reply = Ensured(Finalized(Strip(out))),
                                      !.override = Has(out, "respond_via")]
  /\ UNCHANGED <<board, rows>>

(* Pass 1 is complete before anything in it is acted upon.                   *)
Plans ==
  /\ turn.at = "asking" /\ turn.allowed
  /\ \E out \in Outputs :
       turn' = [turn EXCEPT !.at = "stopping", !.out = out, !.todo = Stops(out)]
  /\ UNCHANGED <<board, heard, rows>>

-----------------------------------------------------------------------------
(* Directives                                                               *)

(* The turn goes on to a stage with the directives that belong to it.        *)
Turns(at, todo) == turn' = [turn EXCEPT !.at = at, !.todo = todo]

(* Mutant: the row of the stopped task is not marked as cancelled.           *)
BugStopsTaskUnmarked ==
  /\ turn.at = "stopping" /\ turn.todo # <<>>
  /\ Turns("stopping", Tail(turn.todo))
  /\ UNCHANGED <<board, heard, rows>>

(* cancel_task, one stop after the other                                     *)
StopsTask ==
  /\ turn.at = "stopping" /\ turn.todo # <<>>
  /\ LET goal == Head(turn.todo).goal
     IN  board' = [board EXCEPT ![goal] = IF @ \in Live THEN "over" ELSE @]
  /\ Turns("stopping", Tail(turn.todo))
  /\ UNCHANGED <<heard, rows>>

(* apply_answer_to_task                                                      *)
AnswersTask ==
  /\ turn.at = "answering" /\ turn.todo # <<>>
  /\ LET goal == Head(turn.todo).goal
     IN  board' = [board EXCEPT ![goal] = IF @ = "waiting" THEN "running" ELSE @]
  /\ Turns("answering", Tail(turn.todo))
  /\ UNCHANGED <<heard, rows>>

(* execute_directives                                                        *)
ExecutesProfile ==
  /\ turn.at = "profile" /\ turn.todo # <<>>
  /\ Turns("profile", Tail(turn.todo))
  /\ UNCHANGED <<board, heard, rows>>

NextStage ==
  /\ turn.todo = <<>>
  /\ \/ turn.at = "stopping" /\ Turns("answering", Answers(turn.out))
     \/ turn.at = "answering" /\ Turns("profile", Profile(turn.out))
     \/ /\ turn.at = "profile"
        /\ turn' = [turn EXCEPT !.at = "spawning",
                                !.starting = DOMAIN Delegates(turn.out)]
  /\ UNCHANGED <<board, heard, rows>>

(* _spawn_one: the task that works on the goal already will do; otherwise    *)
(* publish_task_created registers a row before it awaits Postgres.           *)
SpawnStarts(i) ==
  /\ turn.at = "spawning" /\ i \in turn.starting
  /\ LET goal == Delegates(turn.out)[i].goal
     IN  IF board[goal] \in Live
           THEN /\ turn' = [turn EXCEPT !.starting = @ \ {i}, !.told = @ \cup {goal}]
                /\ UNCHANGED board
           ELSE /\ board' = [board EXCEPT ![goal] = "running"]
                /\ turn' = [turn EXCEPT !.starting = @ \ {i}, !.storing = @ \cup {i},
                                        !.fresh = @ \cup {goal}]
  /\ UNCHANGED <<heard, rows>>

SpawnStored(i) ==
  /\ turn.at = "spawning" /\ i \in turn.storing
  /\ turn' = [turn EXCEPT !.storing = @ \ {i},
                          !.told = @ \cup {Delegates(turn.out)[i].goal}]
  /\ UNCHANGED <<board, heard, rows>>

-----------------------------------------------------------------------------
(* The reply                                                                *)

HasToolWork ==
  SearchCount(turn.out) > 0 \/ turn.told # {} \/ RecallBlock(turn.out)

(* With tool work to follow only the lead-in is spoken, otherwise all of it. *)
Opener ==
  LET text == IF HasToolWork THEN Acknowledgment(turn.out) ELSE Finalized(Strip(turn.out))
  IN  IF Leaks(text) THEN <<>> ELSE text

(* _emit                                                                     *)
Emits(text) == heard' = heard \o text

AfterOpener ==
  IF SearchCount(turn.out) > 0 THEN "searching"
  ELSE IF RecallBlock(turn.out) THEN "recalling" ELSE "noting"

SpawnsDone ==
  /\ turn.at = "spawning" /\ turn.starting = {} /\ turn.storing = {}
  /\ turn' = [turn EXCEPT !.at = "opening"]
  /\ UNCHANGED <<board, heard, rows>>

(* The lead-in is spoken before the searches start.                          *)
SpeaksOpener ==
  /\ turn.at = "opening"
  /\ LET text == IF HasToolWork THEN Opener ELSE <<>>
     IN  /\ Emits(text)
         /\ turn' = [turn EXCEPT !.at = AfterOpener, !.parts = text,
                                 !.pending = 1 .. SearchCount(turn.out),
                                 !.found = [i \in 1 .. SearchCount(turn.out) |-> <<>>]]
  /\ UNCHANGED <<board, rows>>

(* Mutant: an answer is emitted as soon as it is there.                      *)
BugSearchTells(i) ==
  /\ turn.at = "searching" /\ i \in turn.pending
  /\ \E text \in {<<>>, <<AnswerPiece[i]>>} :
       /\ Emits(text)
       /\ turn' = [turn EXCEPT !.pending = @ \ {i}, !.parts = @ \o text]
  /\ UNCHANGED <<board, rows>>

(* _run_one_search: the tool fails with a result, the model may say nothing. *)
SearchAnswers(i) ==
  /\ turn.at = "searching" /\ i \in turn.pending
  /\ \E text \in {<<>>, <<AnswerPiece[i]>>} :
       turn' = [turn EXCEPT !.pending = @ \ {i}, !.found[i] = text]
  /\ UNCHANGED <<board, heard, rows>>

(* gather has all of them: they are emitted in the order of the directives.  *)
SearchesDone ==
  /\ turn.at = "searching" /\ turn.pending = {}
  /\ turn' = [turn EXCEPT !.at = "telling"]
  /\ UNCHANGED <<board, heard, rows>>

Tells ==
  /\ turn.at = "telling"
  /\ IF turn.found = <<>>
       THEN turn' = [turn EXCEPT !.at = "noting"] /\ UNCHANGED heard
       ELSE /\ Emits(Head(turn.found))
            /\ turn' = [turn EXCEPT !.found = Tail(@), !.parts = @ \o Head(turn.found)]
  /\ UNCHANGED <<board, rows>>

(* The answer grounded on the recalled facts is asked for a second time when *)
(* it is empty. It is not kept from writing half a directive.                *)
Recalls ==
  /\ turn.at = "recalling"
  /\ \E text \in {<<>>, <<"recalled">>, <<"recalled", "openSearch">>} :
       /\ Emits(text)
       /\ turn' = [turn EXCEPT !.at = "noting", !.parts = @ \o text]
  /\ UNCHANGED <<board, rows>>

Notes ==
  /\ turn.at = "noting"
  /\ LET text == IF turn.told # {} THEN <<"note">> ELSE <<>>
     IN  /\ Emits(text)
         /\ turn' = [turn EXCEPT !.at = "speaking", !.parts = @ \o text]
  /\ UNCHANGED <<board, rows>>

(* The reply is put together and, unless parts of it have been heard, handed *)
(* to on_token. [RESPOND_VIA] is looked for in raw_text, which the visible   *)
(* reply has replaced unless it is empty.                                    *)
Speaks ==
  /\ turn.at = "speaking"
  /\ LET said == IF turn.parts # <<>> THEN turn.parts ELSE Opener
         visible == IF said = <<>> /\ Has(turn.out, "remember") THEN <<"noted">> ELSE said
     IN  /\ heard' = IF heard = <<>> THEN visible ELSE heard
         /\ turn' = [turn EXCEPT !.at = "storing", !.reply = Ensured(visible),
                                 !.override = said = <<>> /\ Has(turn.out, "respond_via")]
  /\ UNCHANGED <<board, rows>>

ReplyStored ==
  /\ turn.at = "storing"
  /\ rows' = Append(rows, Row("assistant", turn.reply))
  /\ turn' = [turn EXCEPT !.at = "done"]
  /\ UNCHANGED <<board, heard>>

-----------------------------------------------------------------------------
(* A call of Postgres or of the model fails, or the turn is cancelled. What  *)
(* the turn has stopped, stored, spawned and said remains.                   *)
Fails ==
  /\ turn.at \in Waits
  /\ turn' = [turn EXCEPT !.at = "failed"]
  /\ UNCHANGED <<board, heard, rows>>

(* Sub-agents go on meanwhile.                                               *)
TaskMoves(goal) ==
  /\ board[goal] = "running"
  /\ \E status \in {"waiting", "over"} : board' = [board EXCEPT ![goal] = status]
  /\ UNCHANGED <<turn, heard, rows>>

Progress ==
  \/ SessionReady \/ ContextRead \/ UserRowStored \/ AnswersDirectly \/ Plans
  \/ StopsTask \/ AnswersTask \/ ExecutesProfile \/ NextStage
  \/ \E i \in DOMAIN Delegates(turn.out) : SpawnStarts(i) \/ SpawnStored(i)
  \/ SpawnsDone \/ SpeaksOpener
  \/ \E i \in 1 .. MaxSearches : SearchAnswers(i)
  \/ SearchesDone \/ Tells \/ Recalls \/ Notes \/ Speaks \/ ReplyStored

Next == Begin \/ Progress \/ Fails \/ \E goal \in Goals : TaskMoves(goal)

Spec == Init /\ [][Next]_vars

-----------------------------------------------------------------------------
(* Properties                                                               *)

TypeOK ==
  /\ board \in [Goals -> Statuses] /\ turn \in Turn
  /\ turn.starting \cup turn.storing \subseteq DOMAIN Delegates(turn.out)
  /\ turn.pending \subseteq 1 .. MaxSearches
  /\ heard \in Seq(Pieces)
  /\ rows \in Seq([role : {"user", "assistant"}, text : Seq(Pieces)])

(* The history is what was said: a turn that comes to its end leaves the row  *)
(* of the user and after it one reply, which is never empty and never shows   *)
(* half a directive. It is word by word what has been heard, in pieces and    *)
(* from several places; but a turn without directives, whose answer streams,  *)
(* is stored without the repetition that was heard. The fallback is stored,   *)
(* unheard, only when nothing or half a directive has been heard.             *)
HistoryTellsTheReply ==
  turn.at = "done" =>
    LET reply == rows[2].text
    IN  /\ [i \in DOMAIN rows |-> rows[i].role] = <<"user", "assistant">>
        /\ reply # <<>> /\ ~Leaks(reply)
        /\ \/ reply = heard
           \/ ~turn.allowed /\ \E n \in 1 .. Len(heard) - 1 :
                reply = SubSeq(heard, 1, n) /\ heard[n + 1] = "again"
           \/ reply = <<"fallback">> /\ (heard = <<>> \/ Leaks(heard))

(* "spawn every delegate (never dropped)" (run_turn): when the turn comes to  *)
(* speak, a task works or has worked on each goal it delegates, and on a goal *)
(* whose task the same answer stops it is a new one: the delegate does not    *)
(* take the task being stopped for its own, whatever order the answer has.    *)
DelegatesStart ==
  turn.at \in {"opening", "searching", "telling", "recalling", "noting", "speaking", "done"}
    /\ turn.allowed
    => \A goal \in GoalsOf(turn.out, "delegate") :
         /\ goal \in turn.told
         /\ goal \in GoalsOf(turn.out, "stop") => goal \in turn.fresh

(* "assemble the spoken reply in order": lead-in, one answer per search in    *)
(* the order of the searches though they end in any order, recalled facts and *)
(* the note about background work last.                                       *)
Rank(piece) ==
  IF piece \in ToSet(AnswerPiece) THEN CHOOSE i \in DOMAIN AnswerPiece : AnswerPiece[i] = piece
  ELSE IF piece = "recalled" THEN 4 ELSE IF piece = "note" THEN 5 ELSE 0

SpokenInOrder ==
  \A i, j \in DOMAIN heard :
    i < j /\ "openSearch" \notin {heard[i], heard[j]} => Rank(heard[i]) <= Rank(heard[j])

(* "The Main LLM may override with an explicit [RESPOND_VIA ...] directive,   *)
(* which takes final precedence" (PLAN.md).                                   *)
OverrideHonoured == turn.at = "done" /\ Has(turn.out, "respond_via") => turn.override
=============================================================================
