---------------------------- MODULE Memory_proofs ----------------------------
(* Theorems about Memory, for any passes, actors, builds, keys, thresholds    *)
(* and retries, and any set of disturbances.                                 *)
EXTENDS Memory, TLAPS, FiniteSetTheorems, SequenceTheorems

(* The parts of TypeOK.                                                      *)
TurnsOK == stored \in 0 .. MaxTurns /\ table \subseteq 1 .. stored /\ summary \subseteq 1 .. stored
PassesOK == lock \in Passes \cup {NoPass} /\ pass \in [Passes -> Pass]
CallsOK ==
  /\ facts \in [Keys -> Actors \cup {NoFact}] /\ call \in [Actors -> Call]
  /\ \A a \in Actors : call[a].at \in InCall => call[a].todo # <<>>
WarmOK ==
  /\ dirty \in BOOLEAN /\ cache \in Blocks \cup {NoBlock} /\ late \in BOOLEAN
  /\ build \in [Builds -> Build]
  /\ \A b \in Builds : build[b].at = "writing" => build[b].block \in Blocks

LEMMA TypeParts == TypeOK <=> TurnsOK /\ PassesOK /\ CallsOK /\ WarmOK
  BY DEF TypeOK, TurnsOK, PassesOK, CallsOK, WarmOK

-----------------------------------------------------------------------------
(* The strengthening: the pass that works has the lock; what it compresses    *)
(* is old; the summary lies between the one it started from and the one it    *)
(* will store, and covers what it will delete.                               *)
LockHeld == \A p \in Passes : pass[p].at \in Holding => lock = p

(* From the read of the rows on, and from the read of the summary on.         *)
HasRows == {"basing", "asking", "updating", "persisting", "pruning"}
HasBase == {"asking", "updating", "persisting", "pruning"}

OldIsOld ==
  \A p \in Passes : pass[p].at \in HasRows =>
    \A t \in pass[p].old : t \in 1 .. stored /\ t + Keep <= stored

SummaryBetween ==
  \A p \in Passes : pass[p].at \in HasBase =>
    pass[p].base \subseteq summary /\ summary \subseteq pass[p].base \cup pass[p].old

OldCovered ==
  \A p \in Passes : pass[p].at \in {"persisting", "pruning"} => pass[p].old \subseteq summary

IInv ==
  /\ TypeOK /\ LockHeld /\ OldIsOld /\ SummaryBetween /\ OldCovered
  /\ NothingForgotten /\ RecentKept

(* A turn with Keep later rows in the table is not one of the last Keep.      *)
LEMMA OlderIsOld ==
  ASSUME TurnsOK, NEW t \in Older
  PROVE  t \in 1 .. stored /\ t + Keep <= stored
<1> DEFINE later == {u \in table : u > t}
<1>1. stored \in Nat /\ Keep \in Nat /\ t \in 1 .. stored
  BY NumbersAssumption DEF TurnsOK, Older
<1>2. later \subseteq (t + 1) .. stored
  <2> SUFFICES ASSUME NEW u \in table, u > t PROVE u \in (t + 1) .. stored
    OBVIOUS
  <2>1. u \in 1 .. stored
    BY DEF TurnsOK
  <2>2. QED
    BY <1>1,   <2>1
<1>3. IsFiniteSet((t + 1) .. stored) /\ Cardinality((t + 1) .. stored) = stored - t
  BY <1>1, FS_Interval
<1>4. Cardinality(later) <= stored - t /\ Cardinality(later) \in Nat
  BY <1>2, <1>3, FS_Subset, FS_CardinalityType
<1>5. Cardinality(later) >= Keep
  BY DEF Older
<1>6. QED
  BY <1>1, <1>4, <1>5

LEMMA NewTypes ==
  /\ NewPass \in Pass /\ GonePass \in Pass /\ NewPass.at = "unused" /\ GonePass.at = "gone"
  /\ NewCall \in Call /\ NewCall.at = "unused" /\ NewBuild \in Build /\ NewBuild.at = "idle"
<1>1. <<>> \in Seq(Keys)
  BY EmptySeq
<1>2. NewPass \in Pass /\ NewPass.at = "unused"
  BY <1>1 DEF NewPass, Pass
<1>3. GonePass \in Pass /\ GonePass.at = "gone"
  BY <1>2 DEF GonePass, NewPass, Pass
<1>4. NewCall \in Call /\ NewCall.at = "unused"
  BY <1>1 DEF NewCall, Call
<1>5. NewBuild \in Build /\ NewBuild.at = "idle"
  BY DEF NewBuild, Build
<1>6. QED
  BY <1>2, <1>3, <1>4, <1>5

LEMMA BatchType ==
  ASSUME NEW keys \in Seq(Keys)
  PROVE  Batch(keys) \in Call /\ (Batch(keys).at \in InCall => Batch(keys).todo # <<>>)
<1>1. CASE keys = <<>>
  BY <1>1, EmptySeq DEF Batch, Call, InCall
<1>2. CASE keys # <<>>
  BY <1>2 DEF Batch, Call, InCall
<1>3. QED
  BY <1>1, <1>2

LEMMA InitIInv == Init => IInv
<1> SUFFICES ASSUME Init PROVE IInv
  OBVIOUS
<1>1. stored = 0 /\ table = {} /\ summary = {}
  BY DEF Init
<1>2. TurnsOK /\ NothingForgotten /\ RecentKept
  BY <1>1, NumbersAssumption DEF TurnsOK, NothingForgotten, RecentKept
<1>3. PassesOK /\ \A p \in Passes : pass[p].at = "unused"
  BY NewTypes DEF Init, PassesOK
<1>4. CallsOK
  BY NewTypes DEF Init, CallsOK, InCall
<1>5. WarmOK
  BY NewTypes DEF Init, WarmOK
<1>6. LockHeld /\ OldIsOld /\ SummaryBetween /\ OldCovered
  BY <1>3 DEF LockHeld, OldIsOld, SummaryBetween, OldCovered, Holding, HasRows, HasBase
<1>7. QED
  BY <1>2, <1>3, <1>4, <1>5, <1>6, TypeParts DEF IInv

-----------------------------------------------------------------------------
(* Steps                                                                    *)

(* What the inductive invariant says of the passes and of the rows.           *)
RowsOK == TurnsOK /\ NothingForgotten /\ RecentKept
PassOK == PassesOK /\ LockHeld /\ OldIsOld /\ SummaryBetween /\ OldCovered

LEMMA IInvParts == IInv <=> RowsOK /\ PassOK /\ CallsOK /\ WarmOK
  BY TypeParts DEF IInv, RowsOK, PassOK

LEMMA TypePartsNext ==
  IInv' <=> RowsOK' /\ PassOK' /\ CallsOK' /\ WarmOK'
  BY IInvParts, PTL

LEMMA RowsKept ==
  ASSUME RowsOK, UNCHANGED turnVars
  PROVE  RowsOK'
  BY DEF RowsOK, turnVars, TurnsOK, NothingForgotten, RecentKept

LEMMA PassKept ==
  ASSUME PassOK, UNCHANGED passVars, UNCHANGED turnVars
  PROVE  PassOK'
  BY DEF PassOK, passVars, turnVars, PassesOK, LockHeld, OldIsOld, SummaryBetween, OldCovered

LEMMA CallsKept ==
  ASSUME CallsOK, UNCHANGED factVars
  PROVE  CallsOK'
  BY DEF CallsOK, factVars

LEMMA WarmKept ==
  ASSUME WarmOK, UNCHANGED warmVars
  PROVE  WarmOK'
  BY DEF WarmOK, warmVars

(* A pass that takes a step alone, and lets go of nobody else's lock.         *)
LEMMA PassChange ==
  ASSUME PassOK, UNCHANGED turnVars,
         NEW p \in Passes, NEW r \in Pass, pass' = [pass EXCEPT ![p] = r],
         lock' = lock \/ lock \in {p, NoPass}, lock' \in Passes \cup {NoPass},
         r.at \in Holding => lock' = p,
         r.at \in HasRows => \A t \in r.old : t \in 1 .. stored /\ t + Keep <= stored,
         r.at \in HasBase => r.base \subseteq summary /\ summary \subseteq r.base \cup r.old,
         r.at \in {"persisting", "pruning"} => r.old \subseteq summary
  PROVE  PassOK'
<1>1. pass' \in [Passes -> Pass] /\ pass \in [Passes -> Pass]
  BY DEF PassOK, PassesOK
<1>2. pass'[p] = r /\ \A q \in Passes : q # p => pass'[q] = pass[q]
  BY <1>1
<1>3. stored' = stored /\ summary' = summary
  BY DEF turnVars
<1>4. LockHeld'
  <2> SUFFICES ASSUME NEW q \in Passes, pass'[q].at \in Holding PROVE lock' = q
    BY DEF LockHeld
  <2>1. CASE q = p
    BY <2>1, <1>2
  <2>2. CASE q # p
    <3>1. lock = q
      BY <2>2, <1>2 DEF PassOK, LockHeld
    <3>2. QED
      BY <3>1, <2>2, PassesAssumption
  <2>3. QED
    BY <2>1, <2>2
<1>5. OldIsOld'
  BY <1>2, <1>3 DEF PassOK, OldIsOld
<1>6. SummaryBetween'
  BY <1>2, <1>3 DEF PassOK, SummaryBetween
<1>7. OldCovered'
  BY <1>2, <1>3 DEF PassOK, OldCovered
<1>8. QED
  BY <1>1, <1>4, <1>5, <1>6, <1>7 DEF PassOK, PassesOK

(* Only the place of a pass changes: what it knows is as before.              *)
LEMMA PassGoes ==
  ASSUME PassOK, UNCHANGED turnVars,
         NEW p \in Passes, NEW at \in Holding, pass[p].at \in Holding, Goes(p, at),
         at \in HasRows => pass[p].at \in HasRows,
         at \in HasBase => pass[p].at \in HasBase,
         at \in {"persisting", "pruning"} => pass[p].at \in {"persisting", "pruning"}
  PROVE  PassOK'
<1> DEFINE r == [pass[p] EXCEPT !.at = at]
<1>1. pass[p] \in Pass /\ lock \in Passes \cup {NoPass}
  BY DEF PassOK, PassesOK
<1>2. r \in Pass /\ r.at = at /\ r.old = pass[p].old /\ r.base = pass[p].base
  BY <1>1 DEF Pass
<1>3. pass' = [pass EXCEPT ![p] = r] /\ lock' = lock
  BY DEF Goes
<1>4. lock = p
  BY DEF PassOK, LockHeld
<1>5. /\ at \in HasRows => \A t \in r.old : t \in 1 .. stored /\ t + Keep <= stored
      /\ at \in HasBase => r.base \subseteq summary /\ summary \subseteq r.base \cup r.old
      /\ at \in {"persisting", "pruning"} => r.old \subseteq summary
  BY <1>2 DEF PassOK, OldIsOld, SummaryBetween, OldCovered
<1> HIDE DEF r
<1>6. QED
  BY <1>1, <1>2, <1>3, <1>4, <1>5, PassChange

LEMMA PassEnds ==
  ASSUME PassOK, UNCHANGED turnVars, NEW p \in Passes, pass[p].at \in Holding, Ends(p)
  PROVE  PassOK'
<1>1. GonePass \in Pass /\ GonePass.at = "gone"
  BY NewTypes
<1>2. pass' = [pass EXCEPT ![p] = GonePass] /\ lock' = NoPass /\ lock = p
  BY DEF Ends, PassOK, LockHeld
<1>3. QED
  BY <1>1, <1>2, PassChange DEF Holding, HasRows, HasBase

LEMMA PassRetries ==
  ASSUME PassOK, UNCHANGED turnVars, NEW p \in Passes, pass[p].at \in HasBase, Retries(p)
  PROVE  PassOK'
<1>1. CASE Ends(p)
  BY <1>1, PassEnds DEF HasBase, Holding
<1>2. CASE pass' = [pass EXCEPT ![p].at = "asking", ![p].attempt = @ + 1] /\ UNCHANGED lock
  <2> DEFINE r == [pass[p] EXCEPT !.at = "asking", !.attempt = @ + 1]
  <2>1. pass[p] \in Pass /\ lock \in Passes \cup {NoPass}
    BY DEF PassOK, PassesOK
  <2>0. pass[p].attempt + 1 \in Nat
    BY <2>1 DEF Pass
  <2>2. r \in Pass /\ r.at = "asking" /\ r.old = pass[p].old /\ r.base = pass[p].base
    BY <2>0, <2>1, Zenon DEF Pass, Holding
  <2>3. pass' = [pass EXCEPT ![p] = r] /\ lock' = lock
    BY <1>2
  <2>4. lock = p
    BY DEF PassOK, LockHeld, HasBase, Holding
  <2>5. /\ \A t \in r.old : t \in 1 .. stored /\ t + Keep <= stored
        /\ r.base \subseteq summary /\ summary \subseteq r.base \cup r.old
    BY <2>2 DEF PassOK, OldIsOld, SummaryBetween, HasRows, HasBase
  <2> HIDE DEF r
  <2>6. QED
    BY <2>1, <2>2, <2>3, <2>4, <2>5, PassChange
<1>3. QED
  BY <1>1, <1>2 DEF Retries

(* The steps of a pass that leave the rows and the summary alone.             *)
LEMMA PassMoves ==
  ASSUME IInv, NEW p \in Passes,
         \/ PassStarts(p) \/ Estimates(p) \/ ReadsTurns(p) \/ ReadsSummary(p)
         \/ Summarizes(p) \/ AnswersNothing(p) \/ FactsPersisted(p) \/ PassFails(p)
  PROVE  PassOK' /\ UNCHANGED <<turnVars, factVars, warmVars>>
<1>1. UNCHANGED <<turnVars, factVars, warmVars>>
  BY DEF PassStarts, Estimates, ReadsTurns, ReadsSummary, Summarizes, AnswersNothing,
         FactsPersisted, PassFails, turnVars
<1>2. UNCHANGED turnVars
  BY <1>1
<1>3. PassOK /\ TurnsOK /\ RowsOK
  BY IInvParts DEF RowsOK
<1>4. pass[p] \in Pass /\ lock \in Passes \cup {NoPass} /\ pass[p].keys \in Seq(Keys)
  BY <1>3 DEF PassOK, PassesOK, Pass
<1>5. CASE PassStarts(p)
  <2>1. CASE lock # NoPass /\ Goes(p, "gone")
    <3> DEFINE r == [pass[p] EXCEPT !.at = "gone"]
    <3>1. r \in Pass /\ r.at = "gone"
      BY <1>4 DEF Pass
    <3>2. pass' = [pass EXCEPT ![p] = r] /\ lock' = lock
      BY <2>1 DEF Goes
    <3> HIDE DEF r
    <3>3. /\ r.at \notin Holding /\ r.at \notin HasRows /\ r.at \notin HasBase
          /\ r.at \notin {"persisting", "pruning"}
      BY <3>1 DEF Holding, HasRows, HasBase
    <3>4. QED
      BY <1>1, <1>2, <1>3, <1>4, <3>1, <3>2, <3>3, PassChange, Zenon
  <2>2. CASE lock = NoPass /\ lock' = p /\ pass' = [pass EXCEPT ![p].at = "estimating"]
    <3> DEFINE r == [pass[p] EXCEPT !.at = "estimating"]
    <3>1. r \in Pass /\ r.at = "estimating"
      BY <1>4 DEF Pass, Holding
    <3>2. pass' = [pass EXCEPT ![p] = r]
      BY <2>2
    <3> HIDE DEF r
    <3>3. r.at \notin HasRows /\ r.at \notin HasBase /\ r.at \notin {"persisting", "pruning"}
      BY <3>1 DEF HasRows, HasBase
    <3>4. lock \in {p, NoPass} /\ lock' \in Passes \cup {NoPass}
      BY <2>2
    <3>5. QED
      BY <1>1, <1>2, <1>3, <2>2, <3>1, <3>2, <3>3, <3>4, PassChange, Zenon
  <2>3. QED
    BY <1>5, <2>1, <2>2 DEF PassStarts
<1>6. CASE Estimates(p)
  BY <1>6, <1>2, <1>3, PassEnds, PassGoes DEF Estimates, Holding, HasRows, HasBase
<1>7. CASE ReadsTurns(p)
  <2>1. CASE Ends(p)
    BY <1>7, <2>1, <1>2, <1>3, PassEnds DEF ReadsTurns, Holding
  <2>2. CASE pass' = [pass EXCEPT ![p].at = "basing", ![p].old = Older] /\ UNCHANGED lock
    <3> DEFINE r == [pass[p] EXCEPT !.at = "basing", !.old = Older]
    <3>1. \A t \in Older : t \in 1 .. stored /\ t + Keep <= stored
      BY <1>3, OlderIsOld
    <3>2. Older \in SUBSET Turns
      BY <1>3, <3>1, NumbersAssumption DEF TurnsOK, Turns
    <3>3. r \in Pass /\ r.at = "basing" /\ r.old = Older
      BY <1>4, <3>2 DEF Pass, Holding
    <3>4. pass' = [pass EXCEPT ![p] = r] /\ lock' = lock /\ lock = p
      BY <2>2, <1>7, <1>3 DEF ReadsTurns, PassOK, LockHeld, Holding
    <3> HIDE DEF r
    <3>5. r.at \notin HasBase /\ r.at \notin {"persisting", "pruning"} /\ lock' \in Passes \cup {NoPass}
      BY <3>3, <3>4 DEF HasBase
    <3>6. QED
      BY <1>1, <1>2, <1>3, <3>1, <3>3, <3>4, <3>5, PassChange, Zenon
  <2>3. QED
    BY <1>7, <2>1, <2>2 DEF ReadsTurns
<1>8. CASE ReadsSummary(p)
  <2> DEFINE r == [pass[p] EXCEPT !.at = "asking", !.base = summary]
  <2>1. summary \in SUBSET Turns
    BY <1>3, NumbersAssumption DEF TurnsOK, Turns
  <2>2. r \in Pass /\ r.at = "asking" /\ r.old = pass[p].old /\ r.base = summary
    BY <1>4, <2>1 DEF Pass, Holding
  <2>3. pass' = [pass EXCEPT ![p] = r] /\ lock' = lock /\ lock = p
    BY <1>8, <1>3 DEF ReadsSummary, PassOK, LockHeld, Holding
  <2>4. \A t \in r.old : t \in 1 .. stored /\ t + Keep <= stored
    BY <1>8, <1>3, <2>2 DEF ReadsSummary, PassOK, OldIsOld, HasRows
  <2>5. r.at \notin {"persisting", "pruning"} /\ lock' \in Passes \cup {NoPass}
    BY <2>2, <2>3
  <2> HIDE DEF r
  <2>6. QED
    BY <1>1, <1>2, <1>3, <2>2, <2>3, <2>4, <2>5, PassChange, Zenon
<1>9. CASE Summarizes(p)
  <2>1. CASE Ends(p)
    BY <1>9, <2>1, <1>2, <1>3, PassEnds DEF Summarizes, Holding
  <2>2. ASSUME NEW keys \in Batches, UNCHANGED lock,
               pass' = [pass EXCEPT ![p].at = "updating", ![p].keys = keys]
        PROVE  PassOK'
    <3> DEFINE r == [pass[p] EXCEPT !.at = "updating", !.keys = keys]
    <3>1. keys \in Seq(Keys)
      BY BatchesAssumption
    <3>2. /\ r \in Pass /\ r.at = "updating" 
          /\ r.old = pass[p].old /\ r.base = pass[p].base
      BY <1>4, <3>1 DEF Pass, Holding
    <3>3. pass' = [pass EXCEPT ![p] = r] /\ lock' = lock /\ lock = p
      BY <2>2, <1>9, <1>3 DEF Summarizes, PassOK, LockHeld, Holding
    <3>4. /\ \A t \in r.old : t \in 1 .. stored /\ t + Keep <= stored
          /\ r.base \subseteq summary /\ summary \subseteq r.base \cup r.old
      BY <1>9, <1>3, <3>2 DEF Summarizes, PassOK, OldIsOld, SummaryBetween, HasRows, HasBase
    <3> HIDE DEF r
    <3>5. QED
      BY <1>2, <1>3, <3>2, <3>3, <3>4, PassChange
  <2>3. QED
    BY <1>9, <2>1, <2>2 DEF Summarizes
<1>10. CASE AnswersNothing(p)
  BY <1>10, <1>2, <1>3, PassRetries DEF AnswersNothing, HasBase
<1>11. CASE FactsPersisted(p)
  BY <1>11, <1>2, <1>3, PassGoes DEF FactsPersisted, Holding, HasRows, HasBase
<1>12. CASE PassFails(p)
  BY <1>12, <1>2, <1>3, PassEnds, PassRetries DEF PassFails, Holding, HasBase
<1>13. QED
  BY <1>1, <1>5, <1>6, <1>7, <1>8, <1>9, <1>10, <1>11, <1>12

(* What keeps PassOK when the pass that has the lock changes the rows or the   *)
(* summary: no other pass works.                                             *)
LEMMA OthersWait ==
  ASSUME PassOK, NEW p \in Passes, pass[p].at \in Holding, NEW q \in Passes, q # p
  PROVE  pass[q].at \notin Holding
  BY DEF PassOK, LockHeld

(* A change of what set_fact does.                                           *)
LEMMA CallChange ==
  ASSUME CallsOK, NEW a \in Actors, NEW c \in Call, call' = [call EXCEPT ![a] = c],
         c.at \in InCall => c.todo # <<>>,
         facts' \in [Keys -> Actors \cup {NoFact}]
  PROVE  CallsOK'
  BY DEF CallsOK

LEMMA UpdatesSummaryKeeps ==
  ASSUME IInv, NEW p \in Passes, UpdatesSummary(p)
  PROVE  IInv' /\ summary \subseteq summary'
<1>1. RowsOK /\ PassOK /\ CallsOK /\ WarmOK
  BY IInvParts
<1>2. /\ pass[p] \in Pass /\ pass[p].keys \in Seq(Keys) /\ lock = p
      /\ pass \in [Passes -> Pass] /\ pass[p].at = "updating"
  BY <1>1 DEF PassOK, PassesOK, Pass, UpdatesSummary, LockHeld, Holding
<1> DEFINE r == [pass[p] EXCEPT !.at = "persisting", !.keys = <<>>]
<1>3. <<>> \in Seq(Keys)
  BY EmptySeq
<1>4. r \in Pass /\ r.at = "persisting" /\ r.old = pass[p].old /\ r.base = pass[p].base
  BY <1>2, <1>3 DEF Pass, Holding
<1>5. pass' = [pass EXCEPT ![p] = r] /\ lock' = lock
  BY DEF UpdatesSummary
<1>6. /\ summary' = pass[p].base \cup pass[p].old
      /\ stored' = stored /\ table' = table
      /\ call' = [call EXCEPT ![p] = Batch(pass[p].keys)] /\ facts' = facts
      /\ UNCHANGED warmVars
  BY DEF UpdatesSummary
<1>7. /\ \A t \in pass[p].old : t \in 1 .. stored /\ t + Keep <= stored
      /\ pass[p].base \subseteq summary /\ summary \subseteq pass[p].base \cup pass[p].old
  BY <1>1, <1>2 DEF PassOK, OldIsOld, SummaryBetween, HasRows, HasBase
<1> HIDE DEF r
<1>8. summary \subseteq summary'
  BY <1>6, <1>7
<1>9. RowsOK'
  BY <1>1, <1>6, <1>7, <1>8 DEF RowsOK, TurnsOK, NothingForgotten, RecentKept
<1>10. pass'[p] = r /\ \A q \in Passes : q # p => pass'[q] = pass[q] /\ pass[q].at \notin Holding
  <2>1. \A q \in Passes : q # p => pass[q].at \notin Holding
    BY <1>1, <1>2, OthersWait DEF Holding
  <2>2. QED
    BY <1>2, <1>5, <2>1
<1>11. PassesOK' /\ LockHeld' 
  BY <1>1, <1>2, <1>4, <1>5, <1>10 DEF PassOK, PassesOK, LockHeld
<1>12. OldIsOld'
  BY <1>1, <1>4, <1>6, <1>7, <1>10 DEF OldIsOld, HasRows, Holding
<1>13. SummaryBetween' /\ OldCovered'
  BY <1>4, <1>6, <1>10 DEF SummaryBetween, OldCovered, HasBase, Holding
<1>14. CallsOK'
  <2>1. p \in Actors
    BY DEF Actors
  <2>2. facts' \in [Keys -> Actors \cup {NoFact}]
    BY <1>1, <1>6 DEF CallsOK
  <2>3. QED
    BY <1>1, <1>2, <1>6, <2>1, <2>2, BatchType, CallChange
<1>15. WarmOK'
  BY <1>1, <1>6, WarmKept
<1>16. QED
  BY <1>8, <1>9, <1>11, <1>12, <1>13, <1>14, <1>15, TypePartsNext DEF PassOK

LEMMA PrunesKeeps ==
  ASSUME IInv, NEW p \in Passes, Prunes(p)
  PROVE  IInv' /\ summary \subseteq summary'
<1>1. RowsOK /\ PassOK /\ CallsOK /\ WarmOK
  BY IInvParts
<1>2. /\ stored' = stored /\ summary' = summary /\ table' = table \ pass[p].old
      /\ pass' = [pass EXCEPT ![p] = GonePass] /\ lock' = NoPass
      /\ pass[p].at = "pruning" /\ UNCHANGED factVars /\ UNCHANGED warmVars
  BY DEF Prunes, Ends
<1>3. /\ \A t \in pass[p].old : t \in 1 .. stored /\ t + Keep <= stored
      /\ pass[p].old \subseteq summary
  BY <1>1, <1>2 DEF PassOK, OldIsOld, OldCovered, HasRows
<1>4. NothingForgotten' /\ TurnsOK'
  BY <1>1, <1>2, <1>3 DEF RowsOK, TurnsOK, NothingForgotten
<1>5. RecentKept'
  <2> SUFFICES ASSUME NEW t \in 1 .. stored, t + Keep > stored PROVE t \in table'
    BY <1>2 DEF RecentKept
  <2>1. t \in table
    BY <1>1 DEF RowsOK, RecentKept
  <2>2. t \notin pass[p].old
    BY <1>1, <1>3, NumbersAssumption DEF RowsOK, TurnsOK
  <2>3. QED
    BY <1>2, <2>1, <2>2
<1>6. GonePass \in Pass /\ GonePass.at = "gone"
  BY NewTypes
<1>7. pass'[p].at = "gone" /\ \A q \in Passes : q # p => pass'[q] = pass[q] /\ pass[q].at \notin Holding
  <2>1. \A q \in Passes : q # p => pass[q].at \notin Holding
    BY <1>1, <1>2, OthersWait DEF Holding
  <2>2. QED
    BY <1>1, <1>2, <1>6, <2>1 DEF PassOK, PassesOK
<1>8. PassOK'
  BY <1>1, <1>2, <1>6, <1>7
     DEF PassOK, PassesOK, LockHeld, OldIsOld, SummaryBetween, OldCovered, HasRows, HasBase, Holding
<1>9. CallsOK' /\ WarmOK'
  BY <1>1, <1>2, CallsKept, WarmKept
<1>10. QED
  BY <1>2, <1>4, <1>5, <1>8, <1>9, TypePartsNext DEF RowsOK

LEMMA AppendTurnKeeps ==
  ASSUME IInv, AppendTurn
  PROVE  IInv' /\ summary \subseteq summary'
<1>1. RowsOK /\ PassOK /\ CallsOK /\ WarmOK
  BY IInvParts
<1>2. /\ stored < MaxTurns /\ stored' = stored + 1 /\ table' = table \cup {stored + 1}
      /\ summary' = summary /\ UNCHANGED passVars /\ UNCHANGED factVars /\ UNCHANGED warmVars
  BY DEF AppendTurn
<1>3. stored \in Nat /\ MaxTurns \in Nat /\ Keep \in Nat \ {0}
  BY <1>1, NumbersAssumption DEF RowsOK, TurnsOK
<1>4. RowsOK'
  BY <1>1, <1>2, <1>3 DEF RowsOK, TurnsOK, NothingForgotten, RecentKept
<1>5. OldIsOld'
  BY <1>1, <1>2, <1>3 DEF PassOK, OldIsOld, passVars
<1>6. PassOK'
  BY <1>1, <1>2, <1>5
     DEF PassOK, passVars, PassesOK, LockHeld, SummaryBetween, OldCovered
<1>7. QED
  BY <1>1, <1>2, <1>4, <1>6, CallsKept, WarmKept, TypePartsNext

LEMMA CallReturns ==
  ASSUME CallsOK, NEW a \in Actors, call[a].at \in InCall,
         Returns(a) \/ Raises(a), facts' \in [Keys -> Actors \cup {NoFact}]
  PROVE  CallsOK'
<1>1. call[a].todo \in Seq(Keys) /\ call[a].todo # <<>>
  BY DEF CallsOK, Call
<1>2. Tail(call[a].todo) \in Seq(Keys) /\ <<>> \in Seq(Keys)
  BY <1>1, EmptySeq, HeadTailProperties
<1>3. PICK keys \in Seq(Keys) : call' = [call EXCEPT ![a] = Batch(keys)]
  BY <1>2 DEF Returns, Raises
<1>4. QED
  BY <1>3, BatchType, CallChange

LEMMA CallGoes ==
  ASSUME CallsOK, NEW a \in Actors, call[a].at \in InCall, NEW at \in InCall, Calling(a, at),
         facts' \in [Keys -> Actors \cup {NoFact}]
  PROVE  CallsOK'
<1> DEFINE c == [call[a] EXCEPT !.at = at]
<1>1. call[a] \in Call /\ call[a].todo # <<>>
  BY DEF CallsOK
<1>2. c \in Call /\ c.todo # <<>>
  BY <1>1 DEF Call
<1>3. call' = [call EXCEPT ![a] = c]
  BY DEF Calling
<1> HIDE DEF c
<1>4. QED
  BY <1>2, <1>3, CallChange

LEMMA KeyType ==
  ASSUME CallsOK, NEW a \in Actors, call[a].at \in InCall
  PROVE  Key(a) \in Keys
  BY HeadTailProperties DEF CallsOK, Call, Key

LEMMA CallKeeps ==
  ASSUME IInv, NEW a \in Actors, BeginCalls(a) \/ CallStep(a)
  PROVE  IInv' /\ summary \subseteq summary'
<1>1. RowsOK /\ PassOK /\ CallsOK /\ WarmOK
  BY IInvParts
<1>2. UNCHANGED turnVars /\ UNCHANGED passVars /\ build' = build
  BY DEF BeginCalls, CallStep, Selects, Supersedes, Inserts, Embeds, MarkDirty, CallFails,
         turnVars, passVars, warmVars
<1>3. (dirty' = dirty \/ dirty' = TRUE) /\ (cache' = cache \/ cache' = NoBlock)
  BY DEF BeginCalls, CallStep, Selects, Supersedes, Inserts, Embeds, MarkDirty, CallFails, warmVars
<1>8. late' \in BOOLEAN
  <2>1. late' = late \/ late' = FALSE \/ late' = (late \/ Unmarked(a))
    BY DEF BeginCalls, CallStep, Selects, Supersedes, Inserts, Embeds, MarkDirty, CallFails, warmVars
  <2>2. QED
    BY <1>1, <2>1 DEF WarmOK
<1>4. WarmOK'
  BY <1>1, <1>2, <1>3, <1>8 DEF WarmOK
<1>5. facts' = facts => facts' \in [Keys -> Actors \cup {NoFact}]
  BY <1>1 DEF CallsOK
<1>6. CallsOK'
  <2>1. CASE BeginCalls(a)
    <3>1. PICK keys \in Batches : call' = [call EXCEPT ![a] = Batch(keys)] /\ facts' = facts
      BY <2>1 DEF BeginCalls
    <3>2. keys \in Seq(Keys)
      BY BatchesAssumption
    <3>3. QED
      BY <1>1, <1>5, <3>1, <3>2, BatchType, CallChange
  <2>2. CASE Selects(a)
    <3>1. CASE facts[Key(a)] = NoFact
      BY <1>1, <1>5, <2>2, <3>1, CallGoes DEF Selects, InCall
    <3>2. CASE facts[Key(a)] # NoFact
      BY <1>1, <1>5, <2>2, <3>2, CallGoes DEF Selects, InCall
    <3>3. QED
      BY <3>1, <3>2
  <2>3. CASE Supersedes(a)
    BY <1>1, <1>5, <2>3, CallReturns DEF Supersedes, InCall
  <2>4. CASE Inserts(a)
    <3>1. Key(a) \in Keys /\ call[a].at \in InCall /\ facts \in [Keys -> Actors \cup {NoFact}]
      BY <1>1, <2>4, KeyType DEF Inserts, InCall, CallsOK
    <3>2. CASE facts' = [facts EXCEPT ![Key(a)] = a] /\ Calling(a, "embedding")
      <4>1. facts' \in [Keys -> Actors \cup {NoFact}]
        BY <3>1, <3>2
      <4>2. QED
        BY <1>1, <3>1, <3>2, <4>1, CallGoes DEF InCall
    <3>3. CASE Raises(a) /\ UNCHANGED facts
      BY <1>1, <1>5, <3>1, <3>3, CallReturns
    <3>4. QED
      BY <2>4, <3>2, <3>3 DEF Inserts
  <2>5. CASE Embeds(a)
    <3>1. call[a].at \in InCall /\ facts' = facts
      BY <2>5 DEF Embeds, InCall
    <3>2. Calling(a, "marking") \/ Returns(a)
      BY <2>5 DEF Embeds
    <3>3. QED
      BY <1>1, <1>5, <3>1, <3>2, CallReturns, CallGoes DEF InCall
  <2>6. CASE MarkDirty(a)
    BY <1>1, <1>5, <2>6, CallReturns DEF MarkDirty, InCall
  <2>7. CASE CallFails(a)
    BY <1>1, <1>5, <2>7, CallReturns DEF CallFails
  <2>8. QED
    BY <2>1, <2>2, <2>3, <2>4, <2>5, <2>6, <2>7 DEF CallStep
<1>7. QED
  BY <1>1, <1>2, <1>4, <1>6, RowsKept, PassKept, TypePartsNext DEF turnVars

LEMMA BuildKeeps ==
  ASSUME IInv, NEW b \in Builds, BuildStarts(b) \/ BuildStep(b)
  PROVE  IInv' /\ summary \subseteq summary'
<1>1. RowsOK /\ PassOK /\ CallsOK /\ WarmOK
  BY IInvParts
<1>2. UNCHANGED turnVars /\ UNCHANGED passVars /\ UNCHANGED factVars
  BY DEF BuildStarts, BuildStep, ReadsCache, ReadsRows, WritesCache, BuildFails,
         turnVars, passVars, factVars
<1>3. Block \in Blocks
  BY <1>1, KeysAssumption DEF CallsOK, Block, Blocks
<1>4. build \in [Builds -> Build] /\ build[b] \in Build /\ NewBuild \in Build /\ NewBuild.at = "idle"
  BY <1>1, NewTypes DEF WarmOK
<1>5. CASE BuildStarts(b)
  <2>1. PICK at \in {"rows", "cached"} : build' = [build EXCEPT ![b].at = at]
    BY <1>5 DEF BuildStarts
  <2> DEFINE r == [build[b] EXCEPT !.at = at]
  <2>2. r \in Build /\ r.at # "writing"
    BY <1>4, <2>1 DEF Build
  <2>3. build' = [build EXCEPT ![b] = r] /\ dirty' = dirty /\ cache' = cache /\ late' = late
    BY <1>5, <2>1 DEF BuildStarts
  <2> HIDE DEF r
  <2>4. WarmOK'
    BY <1>1, <1>4, <2>2, <2>3 DEF WarmOK
  <2>5. QED
    BY <1>1, <1>2, <2>4, RowsKept, PassKept, CallsKept, TypePartsNext DEF turnVars
<1>6. CASE ReadsCache(b)
  <2>1. PICK at \in {"rows", "idle"} : build' = [build EXCEPT ![b].at = at]
    BY <1>6 DEF ReadsCache
  <2> DEFINE r == [build[b] EXCEPT !.at = at]
  <2>2. r \in Build /\ r.at # "writing"
    BY <1>4, <2>1 DEF Build
  <2>3. build' = [build EXCEPT ![b] = r] /\ dirty' = dirty /\ cache' = cache /\ late' = late
    BY <1>6, <2>1 DEF ReadsCache
  <2> HIDE DEF r
  <2>4. WarmOK'
    BY <1>1, <1>4, <2>2, <2>3 DEF WarmOK
  <2>5. QED
    BY <1>1, <1>2, <2>4, RowsKept, PassKept, CallsKept, TypePartsNext DEF turnVars
<1>7. CASE ReadsRows(b)
  <2> DEFINE r == [at |-> "writing", block |-> Block]
  <2>1. r \in Build /\ r.block \in Blocks
    BY <1>3 DEF Build
  <2>2. build' = [build EXCEPT ![b] = r] /\ dirty' = dirty /\ cache' = cache /\ late' = late
    BY <1>7 DEF ReadsRows
  <2> HIDE DEF r
  <2>3. WarmOK'
    BY <1>1, <1>4, <2>1, <2>2 DEF WarmOK
  <2>4. QED
    BY <1>1, <1>2, <2>3, RowsKept, PassKept, CallsKept, TypePartsNext DEF turnVars
<1>8. CASE WritesCache(b)
  <2>1. /\ cache' \in Blocks /\ dirty' = FALSE /\ late' \in BOOLEAN
        /\ build' = [build EXCEPT ![b] = NewBuild]
    BY <1>8, <1>1 DEF WritesCache, WarmOK
  <2>2. WarmOK'
    BY <1>1, <1>4, <2>1 DEF WarmOK
  <2>3. QED
    BY <1>1, <1>2, <2>2, RowsKept, PassKept, CallsKept, TypePartsNext DEF turnVars
<1>9. CASE BuildFails(b)
  <2>1. cache' = cache /\ dirty' = dirty /\ late' = late /\ build' = [build EXCEPT ![b] = NewBuild]
    BY <1>9 DEF BuildFails
  <2>2. WarmOK'
    BY <1>1, <1>4, <2>1 DEF WarmOK
  <2>3. QED
    BY <1>1, <1>2, <2>2, RowsKept, PassKept, CallsKept, TypePartsNext DEF turnVars
<1>10. QED
  BY <1>5, <1>6, <1>7, <1>8, <1>9 DEF BuildStep

LEMMA CrashKeeps ==
  ASSUME IInv, Crash
  PROVE  IInv' /\ summary \subseteq summary'
<1>1. RowsOK /\ PassOK /\ CallsOK /\ WarmOK
  BY IInvParts
<1>2. UNCHANGED turnVars /\ facts' = facts /\ cache' = cache /\ dirty' = FALSE /\ lock' = NoPass
  BY DEF Crash
<1>3. \A p \in Passes : pass'[p] \in Pass /\ pass'[p].at \notin Holding
  BY NewTypes DEF Crash, Holding
<1>4. PassOK'
  BY <1>2, <1>3 DEF Crash, PassOK, PassesOK, LockHeld, OldIsOld, SummaryBetween, OldCovered,
                    HasRows, HasBase, Holding
<1>5. Batch(<<>>) \in Call /\ Batch(<<>>).at = "done"
  BY EmptySeq, BatchType DEF Batch
<1>6. \A a \in Actors : call'[a] \in Call /\ call'[a].at \notin InCall
  BY <1>5, NewTypes DEF Crash, InCall
<1>7. CallsOK'
  BY <1>1, <1>2, <1>6 DEF Crash, CallsOK
<1>8. WarmOK'
  <2>1. late' \in BOOLEAN
    BY DEF Crash
  <2>2. QED
    BY <1>1, <1>2, <2>1, NewTypes DEF Crash, WarmOK
<1>9. QED
  BY <1>1, <1>2, <1>4, <1>7, <1>8, RowsKept, TypePartsNext DEF turnVars

LEMMA StepIInv == IInv /\ [Next]_vars => IInv' /\ summary \subseteq summary'
<1> SUFFICES ASSUME IInv, [Next]_vars PROVE IInv' /\ summary \subseteq summary'
  OBVIOUS
<1>1. RowsOK /\ PassOK /\ CallsOK /\ WarmOK
  BY IInvParts
<1>2. ASSUME NEW p \in Passes, PassStarts(p) \/ PassStep(p)
      PROVE  IInv' /\ summary \subseteq summary'
  <2>1. CASE UpdatesSummary(p)
    BY <2>1, UpdatesSummaryKeeps
  <2>2. CASE Prunes(p)
    BY <2>2, PrunesKeeps
  <2>3. CASE ~UpdatesSummary(p) /\ ~Prunes(p)
    <3>1. PassOK' /\ UNCHANGED turnVars /\ UNCHANGED factVars /\ UNCHANGED warmVars
      BY <1>2, <2>3, PassMoves DEF PassStep
    <3>2. QED
      BY <1>1, <3>1, RowsKept, CallsKept, WarmKept, TypePartsNext DEF turnVars
  <2>4. QED
    BY <2>1, <2>2, <2>3
<1>3. CASE CacheExpires
  <2>1. /\ UNCHANGED turnVars /\ UNCHANGED passVars /\ UNCHANGED factVars
        /\ cache' = NoBlock /\ dirty' = dirty /\ late' = FALSE /\ build' = build
    BY <1>3 DEF CacheExpires
  <2>2. WarmOK'
    BY <1>1, <2>1 DEF WarmOK
  <2>3. QED
    BY <1>1, <2>1, <2>2, RowsKept, PassKept, CallsKept, TypePartsNext DEF turnVars
<1>4. CASE UNCHANGED vars
  <2>1. UNCHANGED turnVars /\ UNCHANGED passVars /\ UNCHANGED factVars /\ UNCHANGED warmVars
    BY <1>4 DEF vars, turnVars, passVars, factVars, warmVars
  <2>2. QED
    BY <1>1, <2>1, RowsKept, PassKept, CallsKept, WarmKept, TypePartsNext DEF turnVars
<1>5. QED
  BY <1>2, <1>3, <1>4, AppendTurnKeeps, CallKeeps, BuildKeeps, CrashKeeps DEF Next

THEOREM Inductive == Spec => []IInv
  BY InitIInv, StepIInv, PTL DEF Spec

-----------------------------------------------------------------------------
(* Every variable keeps its type; no call of set_fact is under way without a   *)
(* fact to store, whatever raises and whoever dies.                          *)
THEOREM TypeCorrect == Spec => []TypeOK
<1>1. IInv => TypeOK
  BY DEF IInv
<1>2. QED
  BY <1>1, Inductive, PTL

(* Compression never loses a turn: what prune_turns deletes, the summary      *)
(* stored before covers, after failures, retries and restarts too.           *)
THEOREM NothingIsForgotten == Spec => []NothingForgotten
<1>1. IInv => NothingForgotten
  BY DEF IInv
<1>2. QED
  BY <1>1, Inductive, PTL

(* prune_turns never deletes one of the last Keep turns, however many are      *)
(* stored while the pass that deletes is at work.                            *)
THEOREM RecentIsKept == Spec => []RecentKept
<1>1. IInv => RecentKept
  BY DEF IInv
<1>2. QED
  BY <1>1, Inductive, PTL

(* update_compressed_summary never puts back an older summary.                *)
THEOREM SummaryOnlyGrows == Spec => SummaryGrows
<1>1. IInv /\ [Next]_vars => [summary \subseteq summary']_vars
  BY StepIInv
<1>2. QED
  BY <1>1, Inductive, PTL DEF Spec, SummaryGrows

-----------------------------------------------------------------------------
(* The cached profile                                                       *)

Explained == dirty \/ late \/ \E a \in Actors : Unmarked(a)

(* A step that leaves the facts, the mark, the history and the cached block   *)
(* alone, and takes no call out of its embedding.                            *)
LEMMA ExplainedKept ==
  ASSUME StaleIsExplained, UNCHANGED <<facts, dirty, cache, late>>,
         \A a \in Actors : Unmarked(a) => Unmarked(a)'
  PROVE  StaleIsExplained'
<1>1. Stale' => Stale
  BY DEF Stale, Block
<1>2. Explained => Explained'
  BY DEF Explained
<1>3. QED
  BY <1>1, <1>2 DEF StaleIsExplained, Explained

(* A step of one call leaves the others where they are.                      *)
LEMMA OthersUnmarked ==
  ASSUME CallsOK, NEW a \in Actors, NEW c, call' = [call EXCEPT ![a] = c]
  PROVE  \A o \in Actors \ {a} : Unmarked(o) => Unmarked(o)'
  BY DEF CallsOK, Unmarked, Key

LEMMA CallAlone ==
  ASSUME NEW a \in Actors, BeginCalls(a) \/ CallStep(a)
  PROVE  \E c : call' = [call EXCEPT ![a] = c]
<1>1. CASE BeginCalls(a)
  BY <1>1 DEF BeginCalls
<1>2. CASE CallStep(a)
  <2>1. (\E at : Calling(a, at)) \/ Returns(a) \/ Raises(a)
    BY <1>2 DEF CallStep, Selects, Supersedes, Inserts, Embeds, MarkDirty, CallFails
  <2>2. ASSUME NEW at, Calling(a, at) PROVE \E c : call' = [call EXCEPT ![a] = c]
    <3>1. call' = [call EXCEPT ![a] = [call[a] EXCEPT !.at = at]]
      BY <2>2 DEF Calling
    <3>2. QED
      BY <3>1
  <2>3. QED
    BY <2>1, <2>2 DEF Returns, Raises
<1>3. QED
  BY <1>1, <1>2

LEMMA PassAlone ==
  ASSUME NEW p \in Passes, PassStarts(p) \/ PassStep(p)
  PROVE  \E r : pass' = [pass EXCEPT ![p] = r]
<1>1. ASSUME NEW at, Goes(p, at) PROVE \E r : pass' = [pass EXCEPT ![p] = r]
  <2>1. pass' = [pass EXCEPT ![p] = [pass[p] EXCEPT !.at = at]]
    BY <1>1 DEF Goes
  <2>2. QED
    BY <2>1
<1>2. Ends(p) => \E r : pass' = [pass EXCEPT ![p] = r]
  BY DEF Ends
<1>3. Retries(p) => \E r : pass' = [pass EXCEPT ![p] = r]
  <2>1. Retries(p) => Ends(p) \/ pass' = [pass EXCEPT ![p] = [pass[p] EXCEPT !.at = "asking", !.attempt = @ + 1]]
    BY DEF Retries
  <2>2. QED
    BY <1>2, <2>1
<1>4. QED
  BY <1>1, <1>2, <1>3 DEF PassStarts, PassStep, Estimates, ReadsTurns, ReadsSummary, Summarizes, AnswersNothing,
                UpdatesSummary, FactsPersisted, Prunes, PassFails

LEMMA CallExplained ==
  ASSUME IInv, StaleIsExplained, NEW a \in Actors, BeginCalls(a) \/ CallStep(a)
  PROVE  StaleIsExplained'
<1>1. CallsOK /\ WarmOK
  BY IInvParts
<1>2. \A o \in Actors \ {a} : Unmarked(o) => Unmarked(o)'
  BY <1>1, CallAlone, OthersUnmarked
<1>3. CASE Inserts(a) /\ facts' # facts
  <2>1. /\ facts' = [facts EXCEPT ![Key(a)] = a] /\ Calling(a, "embedding")
        /\ UNCHANGED warmVars
    BY <1>3 DEF Inserts
  <2>2. CASE Key(a) \in WarmKeys
    <3>1. Unmarked(a)'
      BY <1>1, <2>1, <2>2 DEF Unmarked, Calling, Key, CallsOK, Call
    <3>2. QED
      BY <3>1 DEF StaleIsExplained
  <2>3. CASE Key(a) \notin WarmKeys
    <3>1. \A k \in WarmKeys : facts'[k] = facts[k]
      BY <1>1, <2>1, <2>3, KeysAssumption DEF CallsOK
    <3>2. Block' = Block
      BY <3>1 DEF Block
    <3>3. Stale' => Stale
      BY <2>1, <3>2 DEF Stale, warmVars
    <3>4. Explained => Explained'
      <4>1. ~Unmarked(a)
        BY <1>3 DEF Inserts, Unmarked
      <4>2. QED
        BY <1>2, <2>1, <4>1 DEF Explained, warmVars
    <3>5. QED
      BY <3>3, <3>4 DEF StaleIsExplained, Explained
  <2>4. QED
    BY <2>2, <2>3
<1>4. CASE Embeds(a)
  <2>1. CASE dirty' = TRUE
    BY <2>1 DEF StaleIsExplained
  <2>2. CASE Key(a) \notin WarmKeys /\ UNCHANGED dirty
    BY <1>2, <1>4, <2>2, ExplainedKept DEF Embeds, Unmarked
  <2>3. QED
    BY <1>4, <2>1, <2>2 DEF Embeds
<1>5. CASE MarkDirty(a)
  BY <1>5 DEF MarkDirty, StaleIsExplained, Stale
<1>6. CASE CallFails(a)
  <2>1. UNCHANGED <<facts, dirty, cache>> /\ late' = (late \/ Unmarked(a))
    BY <1>6 DEF CallFails
  <2>2. Stale' => Stale
    BY <2>1 DEF Stale, Block
  <2>3. Explained => Explained'
    BY <1>2, <2>1 DEF Explained
  <2>4. QED
    BY <2>2, <2>3 DEF StaleIsExplained, Explained
<1>7. CASE BeginCalls(a) \/ Selects(a) \/ Supersedes(a) \/ (Inserts(a) /\ facts' = facts)
  <2>1. ~Unmarked(a)
    BY <1>7 DEF BeginCalls, Selects, Supersedes, Inserts, Unmarked
  <2>2. UNCHANGED <<facts, dirty, cache, late>>
    BY <1>7 DEF BeginCalls, Selects, Supersedes, Inserts, warmVars
  <2>3. QED
    BY <1>2, <2>1, <2>2, ExplainedKept
<1>8. QED
  BY <1>3, <1>4, <1>5, <1>6, <1>7 DEF CallStep

(* A pass has a call of set_fact under way only while it persists.           *)
PassCalls == \A p \in Passes : call[p].at \in InCall => pass[p].at = "persisting"

LEMMA StepPassCalls == IInv /\ PassCalls /\ [Next]_vars => PassCalls'
<1> SUFFICES ASSUME IInv, PassCalls, [Next]_vars PROVE PassCalls'
  OBVIOUS
<1>1. CallsOK /\ PassesOK
  BY IInvParts DEF PassOK
<1>2. ASSUME NEW p \in Passes, PassStarts(p) \/ PassStep(p) PROVE PassCalls'
  <2>1. \E r : pass' = [pass EXCEPT ![p] = r]
    BY <1>2, PassAlone
  <2>2. CASE UpdatesSummary(p)
    <3>1. /\ pass'[p].at = "persisting"
          /\ \A q \in Passes \ {p} : pass'[q] = pass[q] /\ call'[q] = call[q]
      BY <1>1, <2>2 DEF UpdatesSummary, PassesOK, CallsOK, Actors, Pass
    <3>2. QED
      BY <3>1 DEF PassCalls
  <2>3. CASE ~UpdatesSummary(p)
    <3>1. call' = call
      BY <1>2, <2>3 DEF PassStarts, PassStep, Estimates, ReadsTurns, ReadsSummary, Summarizes, AnswersNothing,
                FactsPersisted, Prunes, PassFails, factVars
    <3>2. call[p].at \notin InCall
      BY <1>2, <2>3 DEF PassCalls, PassStarts, PassStep, Estimates, ReadsTurns, ReadsSummary, Summarizes,
                AnswersNothing, FactsPersisted, Prunes, PassFails, InCall
    <3>3. \A q \in Passes \ {p} : pass'[q] = pass[q]
      BY <1>1, <2>1 DEF PassesOK
    <3>4. QED
      BY <3>1, <3>2, <3>3 DEF PassCalls
  <2>4. QED
    BY <2>2, <2>3
<1>3. ASSUME NEW a \in Actors, BeginCalls(a) \/ CallStep(a) PROVE PassCalls'
  <2>1. pass' = pass
    BY <1>3 DEF BeginCalls, CallStep, Selects, Supersedes, Inserts, Embeds, MarkDirty, CallFails, passVars
  <2>2. \A o \in Actors \ {a} : call'[o] = call[o]
    BY <1>1, <1>3, CallAlone DEF CallsOK
  <2>3. a \in Passes => call[a].at \in InCall
    BY <1>3, PassesAssumption DEF BeginCalls, CallStep, Selects, Supersedes, Inserts, Embeds, MarkDirty,
                CallFails, InCall
  <2>4. QED
    BY <2>1, <2>2, <2>3 DEF PassCalls, Actors
<1>4. CASE Crash
  <2>1. \A a \in Actors : call'[a].at \notin InCall
    BY <1>4, NewTypes DEF Crash, Batch, InCall
  <2>2. QED
    BY <2>1 DEF PassCalls, Actors
<1>5. ASSUME NEW b \in Builds, BuildStarts(b) \/ BuildStep(b) PROVE PassCalls'
  BY <1>5 DEF BuildStarts, BuildStep, ReadsCache, ReadsRows, WritesCache, BuildFails, factVars, passVars,
              PassCalls
<1>6. CASE CacheExpires \/ AppendTurn \/ UNCHANGED vars
  BY <1>6 DEF CacheExpires, AppendTurn, vars, factVars, passVars, PassCalls
<1>7. QED
  BY <1>2, <1>3, <1>4, <1>5, <1>6 DEF Next

LEMMA StepExplained == IInv /\ PassCalls /\ StaleIsExplained /\ [Next]_vars => StaleIsExplained'
<1> SUFFICES ASSUME IInv, PassCalls, StaleIsExplained, [Next]_vars PROVE StaleIsExplained'
  OBVIOUS
<1>1. (\A a \in Actors : call'[a] = call[a]) => \A a \in Actors : Unmarked(a) => Unmarked(a)'
  BY DEF Unmarked, Key
<1>2. ASSUME NEW p \in Passes, PassStarts(p) \/ PassStep(p) PROVE StaleIsExplained'
  <2>1. UNCHANGED <<facts, dirty, cache, late>>
    BY <1>2 DEF PassStarts, PassStep, Estimates, ReadsTurns, ReadsSummary, Summarizes, AnswersNothing,
                UpdatesSummary, FactsPersisted, Prunes, PassFails, factVars, warmVars
  <2>2. CASE UpdatesSummary(p)
    <3>1. call' = [call EXCEPT ![p] = Batch(pass[p].keys)] /\ p \in Actors
      BY <2>2 DEF UpdatesSummary, Actors
    <3>2. ~Unmarked(p)
      BY <2>2 DEF UpdatesSummary, PassCalls, Unmarked, InCall
    <3>3. \A o \in Actors : Unmarked(o) => Unmarked(o)'
      BY <3>1, <3>2, IInvParts, OthersUnmarked
    <3>4. QED
      BY <2>1, <3>3, ExplainedKept
  <2>3. CASE ~UpdatesSummary(p)
    <3>1. call' = call
      BY <1>2, <2>3 DEF PassStarts, PassStep, Estimates, ReadsTurns, ReadsSummary, Summarizes, AnswersNothing,
                FactsPersisted, Prunes, PassFails, factVars
    <3>2. QED
      BY <1>1, <2>1, <3>1, ExplainedKept
  <2>4. QED
    BY <2>2, <2>3
<1>3. ASSUME NEW b \in Builds, BuildStarts(b) \/ BuildStep(b) PROVE StaleIsExplained'
  <2>1. facts' = facts /\ call' = call
    BY <1>3 DEF BuildStarts, BuildStep, ReadsCache, ReadsRows, WritesCache, BuildFails, factVars
  <2>2. CASE WritesCache(b)
    <3>1. late' = (cache' # Block')
      BY <2>1, <2>2 DEF WritesCache, Block
    <3>2. QED
      BY <3>1 DEF StaleIsExplained, Stale
  <2>3. CASE ~WritesCache(b)
    <3>1. UNCHANGED <<dirty, cache, late>>
      BY <1>3, <2>3 DEF BuildStarts, BuildStep, ReadsCache, ReadsRows, BuildFails
    <3>2. QED
      BY <1>1, <2>1, <3>1, ExplainedKept
  <2>4. QED
    BY <2>2, <2>3
<1>4. CASE Crash
  <2>1. UNCHANGED <<facts, cache>> /\ late' = Explained
    BY <1>4 DEF Crash, Explained
  <2>2. Stale' => Stale
    BY <2>1 DEF Stale, Block
  <2>3. QED
    BY <2>1, <2>2 DEF StaleIsExplained, Explained
<1>5. CASE CacheExpires
  BY <1>5 DEF CacheExpires, StaleIsExplained, Stale
<1>6. CASE AppendTurn \/ UNCHANGED vars
  <2>1. UNCHANGED <<facts, call, dirty, cache, late>>
    BY <1>6 DEF AppendTurn, vars, factVars, warmVars
  <2>2. QED
    BY <1>1, <2>1, ExplainedKept
<1>7. QED
  BY <1>2, <1>3, <1>4, <1>5, <1>6, CallExplained DEF Next

(* A cached profile is stale without a mark only while set_fact is on its way  *)
(* to mark it, or because a build overlapped with it, it failed after COMMIT   *)
(* or the process died: with any number of calls, builds and facts.          *)
THEOREM StaleIsAlwaysExplained == Spec => []StaleIsExplained
<1>1. Init => StaleIsExplained
  BY DEF Init, StaleIsExplained, Stale
<1>2. Init => PassCalls
  BY NewTypes DEF Init, PassCalls, Actors, InCall
<1>3. QED
  BY <1>1, <1>2, StepPassCalls, StepExplained, Inductive, PTL DEF Spec
=============================================================================
