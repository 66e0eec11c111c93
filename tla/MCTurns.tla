------------------------------ MODULE MCTurns ------------------------------
(* Small instances of Turns for TLC.                                        *)
EXTENDS Turns, TLC

VoiceOnly == {"voice_and_chat"}
BothChannels == AllChannels

(* What happens in a run.                                                   *)
Talk == {"voice", "chat", "playback"}
WithInterrupts == Talk \cup {"interrupt"}
Typed == {"chat", "interrupt", "proactive", "fail"}
=============================================================================
