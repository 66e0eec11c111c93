---------------------------- MODULE MCEnginePool ----------------------------
(* Small instances of EnginePool for TLC.                                   *)
EXTENDS EnginePool, TLC

(* Main asks without a hint; the summarizers' complete_chat asks for the     *)
(* last slot.                                                                *)
Unhinted == {NoHint}
SummarizerHints == {NoHint, ParallelSlots - 1}
MainOnly == {P0_MAIN}

(* Which disturbances a run allows.                                         *)
StopTasks == {"stop_task"}
HandleCancels == {"handle_cancel"}
Anything == AllDisturbances

Symmetry == Permutations(Tasks) \cup Permutations(Chats)
=============================================================================
