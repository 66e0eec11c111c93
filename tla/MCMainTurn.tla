----------------------------- MODULE MCMainTurn -----------------------------
(* Small instances of MainTurn for TLC.                                     *)
EXTENDS MainTurn, TLC

CONSTANTS g1, g2

Bare(kind) == [kind |-> kind, goal |-> NoGoal]
For(kind, goal) == [kind |-> kind, goal |-> goal]

(* Every answer of up to two items about one goal, and of three items out of *)
(* those that change what is said; four searches; and delegates for the same *)
(* or for different goals between other directives.                          *)
Items == {Bare(kind) : kind \in Plain \cup Words}
           \cup {For(kind, g1) : kind \in WithGoal}
Spoken == {item \in Items :
             item.kind \in Words \cup {"search", "recall", "delegate", "stop"}}
ShortAnswers == UNION {[1 .. n -> Items] : n \in 0 .. 2} \cup [1 .. 3 -> Spoken]
LongAnswers ==
  {<<Bare("prose"), Bare("search"), Bare("search"), Bare("search"), Bare("search")>>,
   <<For("delegate", g1), For("delegate", g2), For("stop", g1), Bare("recall")>>,
   <<For("delegate", g1), Bare("search"), For("delegate", g1), For("stop", g2)>>,
   <<Bare("prose"), For("answer", g2), For("delegate", g2), For("stop", g2), Bare("remember")>>}
AllAnswers == ShortAnswers \cup LongAnswers
=============================================================================
