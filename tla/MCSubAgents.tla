---------------------------- MODULE MCSubAgents ----------------------------
(* Small instances of SubAgents for TLC.                                    *)
EXTENDS SubAgents, TLC

(* What a model step may report: progress, the end of the task or both; also *)
(* an error the user can act on; or several things at once, in an order that *)
(* makes no sense.                                                           *)
Sensible == {<<"STEP">>, <<"NEEDS_INFO">>, <<"STEP", "DONE">>, <<"ERROR">>}
WithUserErrors == Sensible \cup {<<"ERROR_USER">>}
Confused == WithUserErrors \cup {<<"DONE", "STEP">>, <<"NEEDS_INFO", "DONE">>}

(* Which disturbances a run allows.                                         *)
Answers == {"answer", "barge_in", "build_error"}
Stops == {"stop", "db_error"}
Anything == AllDisturbances

Symmetry == Permutations(Ids) \cup Permutations(Topics)
=============================================================================
