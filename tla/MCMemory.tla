------------------------------ MODULE MCMemory ------------------------------
(* Small instances of Memory for TLC.                                       *)
EXTENDS Memory

CONSTANTS name, topic

(* Every output of a model has a fact outside the profile, then one of it;   *)
(* or it has just the one.                                                   *)
TwoFacts == {<<topic, name>>}
OneFact == {<<name>>}

Nothing == {}
AllFaults == AllDisturbances
=============================================================================
