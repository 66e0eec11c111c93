--------------------------- MODULE MainTurn_proofs ---------------------------
(* Theorems about MainTurn, for any goals and any set of answers of any       *)
(* length: the history tells what was said, every delegate gets its task, and *)
(* what is spoken is in order, whatever sub-agents do and whatever fails.     *)
EXTENDS MainTurn, TLAPS, FiniteSetTheorems, SequenceTheorems, WellFoundedInduction

-----------------------------------------------------------------------------
(* The items of some kinds                                                  *)

LEMMA LeastNumber ==
  ASSUME NEW P, P \subseteq Nat, P # {}
  PROVE  \E m \in P : \A k \in P : m <= k
<1>1. PICK m \in P : \A k \in P : ~(<<k, m>> \in OpToRel(<, Nat))
  BY WFMin, NatLessThanWellFounded
<1>2. ASSUME NEW k \in P PROVE m <= k
  <2>1. k \in Nat /\ m \in Nat
    OBVIOUS
  <2>2. ~(k < m)
    BY <1>1, <2>1 DEF OpToRel
  <2>3. QED
    BY <2>1, <2>2
<1>3. QED
  BY <1>2

LEMMA PositionsAreFinite ==
  ASSUME NEW max \in Nat, NEW S, S \subseteq 1 .. max
  PROVE  IsFiniteSet(S) /\ S \subseteq Nat /\ Cardinality(S) \in Nat /\ Cardinality(S) <= max
<1>1. IsFiniteSet(1 .. max) /\ Cardinality(1 .. max) = max
  BY FS_Interval
<1>2. IsFiniteSet(S) /\ Cardinality(S) <= max
  BY <1>1, FS_Subset
<1>3. QED
  BY <1>2, FS_CardinalityType

(* The numbers of S up to m are counted one by one.                          *)
LEMMA CountsByOne ==
  ASSUME NEW S, S \subseteq Nat, IsFiniteSet(S), NEW m \in Nat \ {0}
  PROVE  LET upTo(b) == {k \in S : k <= b}
         IN  /\ Cardinality(upTo(m)) \in Nat
             /\ m \notin S => upTo(m) = upTo(m - 1)
             /\ Cardinality(upTo(m)) <= Cardinality(upTo(m - 1)) + 1
<1> DEFINE upTo(b) == {k \in S : k <= b}
<1>1. IsFiniteSet(upTo(m - 1)) /\ IsFiniteSet(upTo(m))
  BY FS_Subset
<1>2. Cardinality(upTo(m - 1)) \in Nat /\ Cardinality(upTo(m)) \in Nat
  BY <1>1, FS_CardinalityType
<1>a. \A k \in S : k \in Nat /\ (k <= m <=> k <= m - 1 \/ k = m)
  OBVIOUS
<1>3. m \notin S => upTo(m) = upTo(m - 1)
  BY <1>a
<1>4. m \in S => upTo(m) = upTo(m - 1) \cup {m}
  BY <1>a
<1>5. Cardinality(upTo(m - 1) \cup {m}) <= Cardinality(upTo(m - 1)) + 1
  <2> HIDE DEF upTo
  <2>1. \/ Cardinality(upTo(m - 1) \cup {m}) = Cardinality(upTo(m - 1))
        \/ Cardinality(upTo(m - 1) \cup {m}) = Cardinality(upTo(m - 1)) + 1
    BY <1>1, FS_AddElement
  <2>2. QED
    BY <1>2, <2>1
<1>6. QED
  BY <1>2, <1>3, <1>4, <1>5

(* A set of n numbers has an nth one.                                        *)
LEMMA NthIsThere ==
  ASSUME NEW max \in Nat, NEW S, S \subseteq 1 .. max, NEW n \in 1 .. Cardinality(S)
  PROVE  Nth(S, n) \in S
<1> DEFINE upTo(b) == {k \in S : k <= b}
           P == {m \in Nat : Cardinality(upTo(m)) >= n}
<1>1. IsFiniteSet(S) /\ S \subseteq Nat /\ Cardinality(S) \in Nat
  BY PositionsAreFinite
<1>2. upTo(max) = S /\ upTo(0) = {}
  <2>1. \A k \in S : k \in Nat /\ k <= max /\ ~(k <= 0)
    OBVIOUS
  <2>2. QED
    BY <2>1
<1>3. max \in P /\ 0 \notin P
  BY <1>1, <1>2, FS_EmptySet
<1>4. PICK m \in P : \A k \in P : m <= k
  <2>1. P \subseteq Nat /\ P # {}
    BY <1>3
  <2>2. QED
    BY <2>1, LeastNumber
<1>5. m \in Nat \ {0} /\ m - 1 \in Nat /\ m - 1 \notin P
  <2>1. m \in Nat /\ m # 0
    BY <1>3, <1>4
  <2> HIDE DEF P
  <2>2. ~(m <= m - 1)
    BY <2>1
  <2>3. QED
    BY <1>4, <2>1, <2>2
<1>6. IsFiniteSet(upTo(m - 1)) /\ Cardinality(upTo(m - 1)) \in Nat
  BY <1>1, FS_Subset, FS_CardinalityType
<1>7. Cardinality(upTo(m - 1)) < n
  BY <1>5, <1>6
<1>8. /\ Cardinality(upTo(m)) \in Nat
      /\ m \notin S => upTo(m) = upTo(m - 1)
      /\ Cardinality(upTo(m)) <= Cardinality(upTo(m - 1)) + 1
  BY <1>1, <1>5, CountsByOne
<1>9. Cardinality(upTo(m)) >= n
  BY <1>4
<1>10. m \in S /\ Cardinality(upTo(m)) = n
  BY <1>6, <1>7, <1>8, <1>9
<1>11. \E i \in S : Cardinality({k \in S : k <= i}) = n
  BY <1>10
<1>12. QED
  BY <1>11 DEF Nth

(* Two positions are never counted alike: the nth is the only nth.           *)
LEMMA NthIsUnique ==
  ASSUME NEW max \in Nat, NEW S, S \subseteq 1 .. max, NEW i \in S
  PROVE  LET n == Cardinality({k \in S : k <= i})
         IN  n \in 1 .. Cardinality(S) /\ Nth(S, n) = i
<1> DEFINE upTo(b) == {k \in S : k <= b}
           n == Cardinality(upTo(i))
<1>1. IsFiniteSet(S) /\ S \subseteq Nat /\ Cardinality(S) \in Nat
  BY PositionsAreFinite
<1>2. \A b : IsFiniteSet(upTo(b)) /\ Cardinality(upTo(b)) \in Nat /\ Cardinality(upTo(b)) <= Cardinality(S)
  <2> TAKE b
  <2>1. upTo(b) \in SUBSET S
    OBVIOUS
  <2>2. QED
    BY <1>1, <2>1, FS_Subset, FS_CardinalityType
<1>3. i \in upTo(i)
  BY <1>1
<1>4. n # 0
  BY <1>2, <1>3, FS_EmptySet
<1>5. \A j \in S, k \in S : j < k => Cardinality(upTo(j)) # Cardinality(upTo(k))
  <2> SUFFICES ASSUME NEW j \in S, NEW k \in S, j < k, Cardinality(upTo(j)) = Cardinality(upTo(k))
               PROVE  FALSE
    OBVIOUS
  <2>1. j \in Nat /\ k \in Nat /\ \A h \in S : h \in Nat /\ (h <= j => h <= k)
    BY <1>1
  <2>2. upTo(j) \in SUBSET upTo(k)
    BY <2>1
  <2>3. k \in upTo(k) /\ k \notin upTo(j)
    BY <2>1
  <2>4. QED
    BY <1>2, <2>2, <2>3, FS_Subset
<1>6. \A j \in S : Cardinality(upTo(j)) = n => j = i
  <2> SUFFICES ASSUME NEW j \in S, Cardinality(upTo(j)) = n PROVE j = i
    OBVIOUS
  <2>1. j \in Nat /\ i \in Nat
    BY <1>1
  <2>2. QED
    BY <1>5, <2>1
<1>7. n \in 1 .. Cardinality(S)
  BY <1>1, <1>2, <1>4
<1>8. Nth(S, n) = i
  BY <1>6 DEF Nth
<1>9. QED
  BY <1>7, <1>8

(* OfKind yields the items of these kinds, all of them and nothing else.      *)
LEMMA OfKindItems ==
  ASSUME NEW out \in Seq(Item), NEW kinds
  PROVE  /\ OfKind(out, kinds) \in Seq(Item)
         /\ \A n \in DOMAIN OfKind(out, kinds) :
              OfKind(out, kinds)[n].kind \in kinds /\ \E i \in DOMAIN out : OfKind(out, kinds)[n] = out[i]
         /\ \A i \in DOMAIN out :
              out[i].kind \in kinds => \E n \in DOMAIN OfKind(out, kinds) : OfKind(out, kinds)[n] = out[i]
<1> DEFINE S == Positions(out, kinds)
           s == OfKind(out, kinds)
<1>1. Len(out) \in Nat /\ DOMAIN out = 1 .. Len(out)
  OBVIOUS
<1>2. S \subseteq 1 .. Len(out)
  BY <1>1 DEF Positions
<1>3. Cardinality(S) \in Nat
  BY <1>1, <1>2, PositionsAreFinite
<1> HIDE DEF S
<1>4. s = [n \in 1 .. Cardinality(S) |-> out[Nth(S, n)]]
  BY DEF OfKind, S
<1>5. \A n \in 1 .. Cardinality(S) : Nth(S, n) \in S
  BY <1>1, <1>2, NthIsThere
<1>6. \A n \in 1 .. Cardinality(S) : out[Nth(S, n)] \in Item
  <2>1. \A i \in 1 .. Len(out) : out[i] \in Item
    BY <1>1
  <2>2. QED
    BY <1>2, <1>5, <2>1
<1>7. s \in Seq(Item) /\ Len(s) = Cardinality(S) /\ DOMAIN s = 1 .. Cardinality(S)
  BY <1>3, <1>4, <1>6
<1>8. \A n \in DOMAIN s : s[n].kind \in kinds /\ \E i \in DOMAIN out : s[n] = out[i]
  <2> SUFFICES ASSUME NEW n \in 1 .. Cardinality(S)
               PROVE  s[n].kind \in kinds /\ \E i \in DOMAIN out : s[n] = out[i]
    BY <1>7
  <2>1. s[n] = out[Nth(S, n)] /\ Nth(S, n) \in S
    BY <1>4, <1>5
  <2>2. Nth(S, n) \in DOMAIN out /\ out[Nth(S, n)].kind \in kinds
    BY <2>1 DEF S, Positions
  <2>3. QED
    BY <2>1, <2>2
<1>9. \A i \in DOMAIN out : out[i].kind \in kinds => \E n \in DOMAIN s : s[n] = out[i]
  <2> SUFFICES ASSUME NEW i \in DOMAIN out, out[i].kind \in kinds PROVE \E n \in DOMAIN s : s[n] = out[i]
    OBVIOUS
  <2> DEFINE n == Cardinality({k \in S : k <= i})
  <2>1. i \in S
    BY DEF S, Positions
  <2>2. n \in 1 .. Cardinality(S) /\ Nth(S, n) = i
    BY <1>1, <1>2, <2>1, NthIsUnique
  <2> HIDE DEF n
  <2>3. n \in DOMAIN s /\ s[n] = out[i]
    BY <1>4, <1>7, <2>2
  <2>4. QED
    BY <2>3
<1>10. QED
  BY <1>7, <1>8, <1>9 DEF S

-----------------------------------------------------------------------------
(* What is in an answer                                                     *)

(* The directives of each stage, and the goals they are about.               *)
LEMMA DirectivesOf ==
  ASSUME NEW out \in Seq(Item)
  PROVE  /\ Stops(out) \in Seq(Item) /\ Answers(out) \in Seq(Item) /\ Profile(out) \in Seq(Item)
         /\ Delegates(out) \in Seq(Item)
         /\ GoalsOf(out, "stop") \subseteq Goals
         /\ \A i \in DOMAIN Delegates(out) : Delegates(out)[i].goal \in Goals
         /\ \A goal \in GoalsOf(out, "stop") : \E i \in DOMAIN Stops(out) : Stops(out)[i].goal = goal
         /\ \A goal \in GoalsOf(out, "delegate") :
              \E i \in DOMAIN Delegates(out) : Delegates(out)[i].goal = goal
<1>1. \A kinds : OfKind(out, kinds) \in Seq(Item)
  BY OfKindItems
<1>2. Stops(out) \in Seq(Item) /\ Answers(out) \in Seq(Item) /\ Delegates(out) \in Seq(Item)
  BY <1>1 DEF Stops, Answers, Delegates
<1>3. Profile(out) \in Seq(Item)
  BY <1>1 DEF Profile
<1>4. ASSUME NEW kind, NEW i \in DOMAIN OfKind(out, {kind})
      PROVE  OfKind(out, {kind})[i].goal \in GoalsOf(out, kind) /\ OfKind(out, {kind})[i].kind = kind
  <2> DEFINE kinds == {kind}
             s == OfKind(out, kinds)
  <2>0. \A n \in DOMAIN s : s[n].kind \in kinds /\ \E j \in DOMAIN out : s[n] = out[j]
    <3> HIDE DEF kinds
    <3>1. QED
      BY OfKindItems
  <2>1. s[i].kind = kind /\ \E j \in DOMAIN out : s[i] = out[j]
    <3> i \in DOMAIN s
      BY <1>4
    <3> HIDE DEF s
    <3>1. QED
      BY <2>0
  <2>2. QED
    BY <2>1 DEF GoalsOf
<1>5. ASSUME NEW kind, NEW goal \in GoalsOf(out, kind)
      PROVE  \E i \in DOMAIN OfKind(out, {kind}) : OfKind(out, {kind})[i].goal = goal
  <2>1. PICK j \in DOMAIN out : out[j].kind = kind /\ out[j].goal = goal
    BY <1>5 DEF GoalsOf
  <2> DEFINE kinds == {kind}
  <2>2. \E i \in DOMAIN OfKind(out, kinds) : OfKind(out, kinds)[i] = out[j]
    <3>1. out[j].kind \in kinds
      BY <2>1
    <3> HIDE DEF kinds
    <3>2. QED
      BY <3>1, OfKindItems
  <2>3. QED
    BY <2>1, <2>2
<1>6. ASSUME NEW i \in DOMAIN Delegates(out)
      PROVE  Delegates(out)[i].goal \in Goals
  <2>1. Delegates(out)[i] \in Item
    BY <1>2, <1>6
  <2>2. Delegates(out)[i].kind = "delegate"
    BY <1>4, <1>6 DEF Delegates
  <2>3. QED
    BY <2>1, <2>2 DEF Item, Plain, Words, WithGoal
<1>7. GoalsOf(out, "stop") \subseteq Goals
  <2>1. \A j \in DOMAIN out : out[j].kind = "stop" => out[j].goal \in Goals
    BY DEF Item, Plain, Words, WithGoal
  <2>2. QED
    BY <2>1 DEF GoalsOf
<1>8. QED
  BY <1>2, <1>3, <1>5, <1>6, <1>7 DEF Stops, Delegates

LEMMA SearchesOf ==
  ASSUME NEW out \in Seq(Item)
  PROVE  SearchCount(out) \in 0 .. MaxSearches
<1>1. OfKind(out, {"search"}) \in Seq(Item)
  BY OfKindItems
<1>2. QED
  <2> DEFINE n == Len(OfKind(out, {"search"}))
  <2>1. n \in Nat
    BY <1>1
  <2>2. SearchCount(out) = IF n < MaxSearches THEN n ELSE MaxSearches
    BY DEF SearchCount
  <2> HIDE DEF n
  <2>3. QED
    BY <2>1, <2>2 DEF MaxSearches

(* What is said of an answer that has no grounded parts.                      *)
Said == Words

LEMMA TextsOf ==
  ASSUME NEW out \in Seq(Item)
  PROVE  Strip(out) \in Seq(Said) /\ Acknowledgment(out) \in Seq(Said)
<1>1. ASSUME NEW o \in Seq(Item)
      PROVE  Strip(o) \in Seq(Said)
  <2> DEFINE s == OfKind(o, Words)
  <2>1. s \in Seq(Item) /\ \A n \in DOMAIN s : s[n].kind \in Said
    BY <1>1, OfKindItems DEF Said
  <2> HIDE DEF s
  <2>2. Len(s) \in Nat /\ DOMAIN s = 1 .. Len(s) /\ TextOf(s) = [n \in 1 .. Len(s) |-> s[n].kind]
    BY <2>1 DEF TextOf
  <2>3. TextOf(s) \in Seq(Said)
    BY <2>1, <2>2
  <2>4. QED
    BY <2>3 DEF Strip, s
<1>2. ASSUME NEW n \in 0 .. Len(out)
      PROVE  SubSeq(out, 1, n) \in Seq(Item)
  BY <1>2
<1> DEFINE directives == {i \in DOMAIN out : out[i].kind \in Plain \cup WithGoal}
           before == {i \in DOMAIN out : \A j \in directives : i < j}
<1>3. Cardinality(before) \in 0 .. Len(out)
  <2>1. before \subseteq 1 .. Len(out) /\ Len(out) \in Nat
    OBVIOUS
  <2> HIDE DEF before
  <2>2. Cardinality(before) \in Nat /\ Cardinality(before) <= Len(out)
    BY <2>1, PositionsAreFinite
  <2>3. QED
    BY <2>1, <2>2
<1>4. Acknowledgment(out) = Strip(SubSeq(out, 1, Cardinality(before)))
  BY DEF Acknowledgment
<1> HIDE DEF before
<1>5. Acknowledgment(out) \in Seq(Said)
  BY <1>1, <1>2, <1>3, <1>4
<1>6. QED
  BY <1>1, <1>5

LEMMA PieceFacts ==
  /\ Said \subseteq Pieces /\ {"recalled", "note", "noted", "fallback"} \subseteq Pieces
  /\ DOMAIN AnswerPiece = 1 .. 3 /\ \A i \in 1 .. 3 : AnswerPiece[i] \in Pieces
<1>1. DOMAIN AnswerPiece = 1 .. 3 /\ AnswerPiece[1] = "answer1" /\ AnswerPiece[2] = "answer2" /\ AnswerPiece[3] = "answer3"
  BY DEF AnswerPiece
<1>2. QED
  BY <1>1 DEF Said, Pieces, ToSet

(* What is kept of an answer ends just before its first repetition.           *)
Cut(text, kept) ==
  \E n \in 1 .. Len(text) - 1 : kept = SubSeq(text, 1, n) /\ text[n + 1] = "again"

LEMMA FinalizedFacts ==
  ASSUME NEW S, NEW text \in Seq(S)
  PROVE  /\ Finalized(text) \in Seq(S)
         /\ Finalized(text) = text \/ Cut(text, Finalized(text))
<1>1. CASE Repeats(text) = {}
  BY <1>1 DEF Finalized
<1>2. CASE Repeats(text) # {}
  <2> DEFINE m == Min(Repeats(text))
  <2>1. Repeats(text) \subseteq Nat
    BY DEF Repeats
  <2>2. m \in Repeats(text)
    BY <1>2, <2>1, LeastNumber DEF Min
  <2>3. Finalized(text) = SubSeq(text, 1, m - 1)
    BY <1>2 DEF Finalized
  <2> HIDE DEF m
  <2>4. m \in 2 .. Len(text) /\ text[m] = "again"
    BY <2>2 DEF Repeats
  <2>5. m - 1 \in 1 .. Len(text) - 1 /\ (m - 1) + 1 = m
    BY <2>4
  <2>6. SubSeq(text, 1, m - 1) \in Seq(S)
    BY <2>5
  <2>7. QED
    BY <2>3, <2>4, <2>5, <2>6 DEF Cut
<1>3. QED
  BY <1>1, <1>2

LEMMA CutLeaks ==
  ASSUME NEW text \in Seq(Pieces), NEW kept, Cut(text, kept)
  PROVE  kept # <<>> /\ (Leaks(kept) => Leaks(text))
<1>1. PICK n \in 1 .. Len(text) - 1 : kept = SubSeq(text, 1, n)
  BY DEF Cut
<1>2. /\ kept \in Seq(Pieces) /\ DOMAIN kept = 1 .. n /\ DOMAIN text = 1 .. Len(text)
      /\ Len(kept) = n /\ \A i \in 1 .. n : kept[i] = text[i]
  BY <1>1
<1>3. QED
  BY <1>2 DEF Leaks, ToSet

(* What is stored is never empty, is no half directive and is, apart from     *)
(* these, what it was made of.                                               *)
LEMMA EnsuredFacts ==
  ASSUME NEW text \in Seq(Pieces)
  PROVE  /\ Ensured(text) \in Seq(Pieces) /\ Ensured(text) # <<>> /\ ~Leaks(Ensured(text))
         /\ \/ Ensured(text) = text
            \/ Ensured(text) = <<"fallback">> /\ (text = <<>> \/ Leaks(text))
<1>1. <<"fallback">> \in Seq(Pieces) /\ <<"fallback">> # <<>> /\ ~Leaks(<<"fallback">>)
  <2>1. DOMAIN <<"fallback">> = 1 .. 1 /\ <<"fallback">>[1] = "fallback"
    OBVIOUS
  <2>2. QED
    BY <2>1, PieceFacts DEF Leaks, ToSet
<1>2. QED
  BY <1>1 DEF Ensured

-----------------------------------------------------------------------------
(* The invariant                                                            *)

(* The answer of the first pass is not there yet, and nothing is done.        *)
Unplanned == {"idle", "session", "context", "user_row", "silent", "asking", "asking_again"}

NothingIsPlanned ==
  turn.at \in Unplanned => turn.starting = {} /\ turn.storing = {} /\ turn.told = {}

(* The rows of the turn at each stage.                                       *)
RowsSoFar ==
  /\ turn.at \in {"idle", "session", "context", "user_row", "silent"} => rows = <<>>
  /\ turn.at \in Waits \ {"session", "context", "user_row"} => rows = <<Row("user", <<>>)>>
  /\ turn.at = "done" => rows = <<Row("user", <<>>), Row("assistant", turn.reply)>>

(* What has been emitted is what is heard, and the reply is made of it.       *)
Silent == Unplanned \cup {"stopping", "answering", "profile", "spawning", "opening"}

ReplyIsHeard ==
  /\ turn.at \in Silent => heard = <<>>
  /\ turn.at \notin {"storing", "done", "failed"} => heard = turn.parts
  /\ turn.at \in {"storing", "done"} =>
       /\ turn.reply # <<>> /\ ~Leaks(turn.reply)
       /\ \/ turn.reply = heard
          \/ ~turn.allowed /\ Cut(heard, turn.reply)
          \/ turn.reply = <<"fallback">> /\ (heard = <<>> \/ Leaks(heard))

(* No task is left on a goal that is to be stopped, but for those that are    *)
(* still to come, and later for the new ones of this turn.                    *)
StopsComeFirst ==
  /\ turn.at = "stopping" =>
       \A goal \in GoalsOf(turn.out, "stop") :
         board[goal] \notin Live \/ \E k \in DOMAIN turn.todo : turn.todo[k].goal = goal
  /\ turn.at \in {"answering", "profile", "spawning"} =>
       \A goal \in GoalsOf(turn.out, "stop") : board[goal] \notin Live \/ goal \in turn.fresh
  /\ turn.told \cap GoalsOf(turn.out, "stop") \subseteq turn.fresh

(* A delegate is on its way, or it is told.                                   *)
Spawned == {"opening", "searching", "telling", "recalling", "noting", "speaking", "storing", "done"}

DelegatesAreTold ==
  /\ turn.at \in {"stopping", "answering", "profile"} => turn.storing = {}
  /\ turn.at = "spawning" =>
       \A i \in DOMAIN Delegates(turn.out) :
         /\ i \in turn.starting \cup turn.storing \/ Delegates(turn.out)[i].goal \in turn.told
         /\ i \in turn.storing => Delegates(turn.out)[i].goal \in turn.fresh
  /\ turn.at \in Spawned /\ turn.allowed =>
       \A i \in DOMAIN Delegates(turn.out) : Delegates(turn.out)[i].goal \in turn.told

(* The pieces of a text are in order, and none of them ranks above a bound.    *)
InOrder(text) ==
  \A i, j \in DOMAIN text :
    i < j /\ text[i] # "openSearch" /\ text[j] # "openSearch" => Rank(text[i]) <= Rank(text[j])

Between(text, low, high) ==
  \A i \in DOMAIN text : text[i] # "openSearch" => low <= Rank(text[i]) /\ Rank(text[i]) <= high

(* Answers to the searches from the nth on.                                   *)
AnswersFrom(found, n) ==
  \A k \in DOMAIN found : found[k] \in {<<>>, <<AnswerPiece[n + k]>>}

SaysInOrder ==
  /\ InOrder(heard)
  /\ turn.at = "searching" =>
       /\ Len(turn.found) = SearchCount(turn.out)
       /\ AnswersFrom(turn.found, 0) /\ Between(heard, 0, 0)
  /\ turn.at = "telling" =>
       /\ Len(turn.found) <= SearchCount(turn.out)
       /\ AnswersFrom(turn.found, SearchCount(turn.out) - Len(turn.found))
       /\ Between(heard, 0, SearchCount(turn.out) - Len(turn.found))
  /\ turn.at = "recalling" => Between(heard, 0, 3)
  /\ turn.at = "noting" => Between(heard, 0, 4)

TypedInv == TypeOK /\ NothingIsPlanned
HistoryInv == TypedInv /\ RowsSoFar /\ ReplyIsHeard
DelegateInv == TypedInv /\ StopsComeFirst /\ DelegatesAreTold
OrderInv == HistoryInv /\ SaysInOrder

-----------------------------------------------------------------------------
(* Types                                                                    *)

(* The variables one by one.                                                 *)
LEMMA Types ==
  ASSUME TypeOK
  PROVE  /\ board \in [Goals -> Statuses] /\ turn \in Turn
         /\ turn.at \in Stage /\ turn.out \in Seq(Item) /\ turn.todo \in Seq(Item)
         /\ turn.found \in Seq(Seq(Pieces)) /\ turn.parts \in Seq(Pieces) /\ turn.reply \in Seq(Pieces)
         /\ turn.told \subseteq Goals /\ turn.fresh \subseteq Goals
         /\ heard \in Seq(Pieces)
BY DEF TypeOK, Turn

LEMMA OpenerIsSaid ==
  ASSUME turn.out \in Seq(Item)
  PROVE  Opener \in Seq(Said) /\ Opener \in Seq(Pieces) /\ Strip(turn.out) \in Seq(Pieces)
<1>1. /\ Strip(turn.out) \in Seq(Said) /\ Acknowledgment(turn.out) \in Seq(Said)
      /\ Finalized(Strip(turn.out)) \in Seq(Said)
  BY TextsOf, FinalizedFacts
<1>2. Opener \in Seq(Said)
  <2>1. Opener = <<>> \/ Opener = Finalized(Strip(turn.out)) \/ Opener = Acknowledgment(turn.out)
    BY DEF Opener
  <2>2. <<>> \in Seq(Said)
    OBVIOUS
  <2>3. QED
    BY <1>1, <2>1, <2>2
<1>3. \A text \in Seq(Said) : text \in Seq(Pieces)
  BY PieceFacts
<1>4. QED
  BY <1>1, <1>2, <1>3

LEMMA AnswersArePieces ==
  \A i \in 1 .. MaxSearches : <<AnswerPiece[i]>> \in Seq(Pieces)
BY PieceFacts DEF MaxSearches

(* What a step that leaves the answer and its delegates alone has to keep.     *)
LEMMA TypedByParts ==
  ASSUME TypedInv, turn' \in Turn,
         turn'.out = turn.out, turn'.starting = turn.starting, turn'.storing = turn.storing,
         turn'.told = turn.told, turn'.pending = turn.pending,
         turn'.at \in Unplanned => turn.at \in Unplanned,
         board' \in [Goals -> Statuses], heard' \in Seq(Pieces),
         rows' \in Seq([role : {"user", "assistant"}, text : Seq(Pieces)])
  PROVE  TypedInv'
<1>1. (turn.starting \cup turn.storing \subseteq DOMAIN Delegates(turn.out))'
  BY DEF TypedInv, TypeOK
<1>2. (turn.pending \subseteq 1 .. MaxSearches)'
  BY DEF TypedInv, TypeOK
<1>3. NothingIsPlanned'
  BY DEF TypedInv, NothingIsPlanned
<1>4. QED
  BY <1>1, <1>2, <1>3 DEF TypedInv, TypeOK

LEMMA Stages ==
  Stage = {"idle", "session", "context", "user_row", "asking", "asking_again", "stopping",
           "answering", "profile", "spawning", "opening", "searching", "telling",
           "recalling", "noting", "speaking", "storing", "silent", "done", "failed"}
BY DEF Stage, Waits

LEMMA TypesStep ==
  ASSUME TypedInv, [Next]_vars
  PROVE  TypedInv'
<1> USE DEF TypedInv
<1>t. /\ board \in [Goals -> Statuses] /\ turn \in Turn
      /\ turn.starting \cup turn.storing \subseteq DOMAIN Delegates(turn.out)
      /\ turn.pending \subseteq 1 .. MaxSearches
      /\ heard \in Seq(Pieces)
      /\ rows \in Seq([role : {"user", "assistant"}, text : Seq(Pieces)])
  BY DEF TypeOK
<1>o. \A out \in Outputs : out \in Seq(Item)
  BY OutputsAssumption
<1>1. CASE Begin \/ SessionReady \/ ContextRead \/ SpawnsDone \/ SearchesDone \/ Fails
  <2>1. \E at \in Stage, allowed \in BOOLEAN :
          /\ turn' = [turn EXCEPT !.at = at, !.allowed = allowed]
          /\ at \in Unplanned => turn.at \in Unplanned
    <3>1. turn.allowed \in BOOLEAN /\ \A at : [turn EXCEPT !.at = at] = [turn EXCEPT !.at = at, !.allowed = turn.allowed]
      BY <1>t DEF Turn
    <3>2. CASE Begin
      BY <3>2, Stages DEF Begin, Unplanned
    <3>3. CASE SessionReady \/ ContextRead
      <4>1. turn.at \in Unplanned /\ \E at \in {"context", "silent", "user_row"} : turn' = [turn EXCEPT !.at = at]
        BY <3>3 DEF SessionReady, ContextRead, Unplanned
      <4>2. \A at \in {"context", "silent", "user_row"} : at \in Stage
        BY Stages
      <4>3. QED
        BY <3>1, <4>1, <4>2
    <3>4. CASE SpawnsDone \/ SearchesDone \/ Fails
      <4>1. \E at \in {"opening", "telling", "failed"} : turn' = [turn EXCEPT !.at = at]
        BY <3>4 DEF SpawnsDone, SearchesDone, Fails
      <4>2. \A at \in {"opening", "telling", "failed"} : at \in Stage /\ at \notin Unplanned
        BY Stages DEF Unplanned
      <4>3. QED
        BY <3>1, <4>1, <4>2
    <3>5. QED
      BY <1>1, <3>2, <3>3, <3>4
  <2>2. UNCHANGED <<board, heard, rows>>
    BY <1>1 DEF Begin, SessionReady, ContextRead, SpawnsDone, SearchesDone, Fails
  <2>3. PICK at \in Stage, allowed \in BOOLEAN :
          /\ turn' = [turn EXCEPT !.at = at, !.allowed = allowed]
          /\ at \in Unplanned => turn.at \in Unplanned
    BY <2>1
  <2>4. turn' \in Turn
    BY <1>t, <2>3 DEF Turn
  <2>5. QED
    BY <1>t, <2>2, <2>3, <2>4, TypedByParts DEF Turn
<1>2. CASE UserRowStored
  <2>1. Row("user", <<>>) \in [role : {"user", "assistant"}, text : Seq(Pieces)]
    BY DEF Row
  <2>2. turn' = [turn EXCEPT !.at = "asking"] /\ turn.at = "user_row" /\ UNCHANGED <<board, heard>>
    BY <1>2 DEF UserRowStored
  <2>3. rows' \in Seq([role : {"user", "assistant"}, text : Seq(Pieces)])
    BY <1>2, <1>t, <2>1 DEF UserRowStored
  <2>4. turn' \in Turn
    BY <1>t, <2>2, Stages DEF Turn
  <2>5. QED
    BY <1>t, <2>2, <2>3, <2>4, TypedByParts DEF Turn, Unplanned
<1>3. CASE AnswersDirectly
  <2>0. turn.starting = {} /\ turn.storing = {}
    BY <1>3 DEF AnswersDirectly, NothingIsPlanned, Unplanned
  <2>1. PICK out \in Outputs :
          IF out = <<>> /\ turn.at = "asking"
            THEN turn' = [turn EXCEPT !.at = "asking_again"] /\ UNCHANGED heard
            ELSE /\ heard' = Strip(out)
                 /\ turn' = [turn EXCEPT !.at = "storing", !.out = out,
                                         !.reply = Ensured(Finalized(Strip(out))),
                                         !.override = Has(out, "respond_via")]
    BY <1>3 DEF AnswersDirectly
  <2>2. UNCHANGED <<board, rows>>
    BY <1>3 DEF AnswersDirectly
  <2>3. out \in Seq(Item) /\ Strip(out) \in Seq(Pieces) /\ Finalized(Strip(out)) \in Seq(Pieces)
    BY <1>o, TextsOf, PieceFacts, FinalizedFacts
  <2>4. Ensured(Finalized(Strip(out))) \in Seq(Pieces) /\ Has(out, "respond_via") \in BOOLEAN
    BY <2>3, EnsuredFacts DEF Has
  <2>5. CASE turn' = [turn EXCEPT !.at = "asking_again"] /\ UNCHANGED heard
    BY <1>3, <1>t, <2>0, <2>2, <2>5 DEF AnswersDirectly, TypeOK, Turn, Stage, Waits, NothingIsPlanned, Unplanned
  <2>6. CASE /\ heard' = Strip(out)
             /\ turn' = [turn EXCEPT !.at = "storing", !.out = out,
                                     !.reply = Ensured(Finalized(Strip(out))),
                                     !.override = Has(out, "respond_via")]
    BY <1>t, <2>0, <2>2, <2>3, <2>4, <2>6 DEF TypeOK, Turn, Stage, Waits, NothingIsPlanned, Unplanned
  <2>7. QED
    BY <2>1, <2>5, <2>6
<1>4. CASE Plans
  <2>0. turn.starting = {} /\ turn.storing = {}
    BY <1>4 DEF Plans, NothingIsPlanned, Unplanned
  <2>1. PICK out \in Outputs : turn' = [turn EXCEPT !.at = "stopping", !.out = out, !.todo = Stops(out)]
    BY <1>4 DEF Plans
  <2>2. out \in Seq(Item) /\ Stops(out) \in Seq(Item)
    BY <1>o, DirectivesOf
  <2>3. QED
    BY <1>4, <1>t, <2>0, <2>1, <2>2 DEF Plans, TypeOK, Turn, Stage, Waits, NothingIsPlanned, Unplanned
<1>5. CASE StopsTask \/ AnswersTask \/ ExecutesProfile
  <2>1. turn.todo \in Seq(Item) /\ turn.todo # <<>>
    BY <1>5, <1>t DEF StopsTask, AnswersTask, ExecutesProfile, Turn
  <2>2. Tail(turn.todo) \in Seq(Item)
    BY <2>1
  <2>3. turn' = [turn EXCEPT !.at = turn.at, !.todo = Tail(turn.todo)]
    BY <1>5 DEF StopsTask, AnswersTask, ExecutesProfile, Turns
  <2>4. board' \in [Goals -> Statuses]
    BY <1>5, <1>t DEF StopsTask, AnswersTask, ExecutesProfile, Statuses, Live
  <2>5. UNCHANGED <<heard, rows>>
    BY <1>5 DEF StopsTask, AnswersTask, ExecutesProfile
  <2>6. QED
    BY <1>t, <2>2, <2>3, <2>4, <2>5 DEF TypeOK, Turn, NothingIsPlanned
<1>6. CASE NextStage
  <2>1. Answers(turn.out) \in Seq(Item) /\ Profile(turn.out) \in Seq(Item) /\ Delegates(turn.out) \in Seq(Item)
    BY <1>t, DirectivesOf DEF Turn
  <2>2. DOMAIN Delegates(turn.out) \subseteq Nat
    BY <2>1
  <2>3. turn.todo = <<>> /\ UNCHANGED <<board, heard, rows>>
    BY <1>6 DEF NextStage
  <2>4. ASSUME NEW at \in {"answering", "profile"}, NEW todo \in Seq(Item),
               turn' = [turn EXCEPT !.at = at, !.todo = todo]
        PROVE  TypedInv'
    <3>1. turn' \in Turn
      BY <1>t, <2>4, Stages DEF Turn
    <3>2. QED
      BY <1>t, <2>3, <2>4, <3>1, TypedByParts DEF Turn, Unplanned
  <2>5. CASE turn' = [turn EXCEPT !.at = "spawning", !.starting = DOMAIN Delegates(turn.out)]
    <3>1. turn' \in Turn
      BY <1>t, <2>2, <2>5, Stages DEF Turn
    <3>2. /\ turn'.out = turn.out /\ turn'.starting = DOMAIN Delegates(turn.out)
          /\ turn'.storing = turn.storing /\ turn'.pending = turn.pending /\ turn'.at \notin Unplanned
      BY <1>t, <2>5 DEF Turn, Unplanned
    <3>3. (turn.starting \cup turn.storing \subseteq DOMAIN Delegates(turn.out))'
      BY <1>t, <3>2
    <3>4. QED
      BY <1>t, <2>3, <3>1, <3>2, <3>3 DEF TypeOK, NothingIsPlanned
  <2>6. QED
    BY <1>6, <2>1, <2>4, <2>5 DEF NextStage, Turns
<1>7. CASE \E i \in DOMAIN Delegates(turn.out) : SpawnStarts(i) \/ SpawnStored(i)
  <2>1. PICK i \in DOMAIN Delegates(turn.out) : SpawnStarts(i) \/ SpawnStored(i)
    BY <1>7
  <2> DEFINE goal == Delegates(turn.out)[i].goal
  <2>2. goal \in Goals
    BY <1>t, DirectivesOf DEF Turn
  <2>3. i \in turn.starting \cup turn.storing /\ turn.at = "spawning" /\ UNCHANGED <<heard, rows>>
    BY <2>1 DEF SpawnStarts, SpawnStored
  <2>4. \/ turn' = [turn EXCEPT !.starting = @ \ {i}, !.told = @ \cup {goal}]
        \/ turn' = [turn EXCEPT !.starting = @ \ {i}, !.storing = @ \cup {i}, !.fresh = @ \cup {goal}]
        \/ turn' = [turn EXCEPT !.storing = @ \ {i}, !.told = @ \cup {goal}]
    BY <2>1 DEF SpawnStarts, SpawnStored
  <2>5. board' \in [Goals -> Statuses]
    BY <1>t, <2>1 DEF SpawnStarts, SpawnStored, Statuses, Live
  <2> HIDE DEF goal
  <2>6. /\ turn' \in Turn /\ turn'.out = turn.out /\ turn'.pending = turn.pending /\ turn'.at = "spawning"
        /\ turn'.starting \cup turn'.storing \subseteq turn.starting \cup turn.storing
    <3>1. i \in Nat
      BY <1>t, <2>3 DEF Turn
    <3>2. CASE turn' = [turn EXCEPT !.starting = @ \ {i}, !.told = @ \cup {goal}]
      BY <1>t, <2>2, <2>3, <3>2 DEF Turn
    <3>3. CASE turn' = [turn EXCEPT !.starting = @ \ {i}, !.storing = @ \cup {i}, !.fresh = @ \cup {goal}]
      BY <1>t, <2>2, <2>3, <3>1, <3>3 DEF Turn
    <3>4. CASE turn' = [turn EXCEPT !.storing = @ \ {i}, !.told = @ \cup {goal}]
      BY <1>t, <2>2, <2>3, <3>4 DEF Turn
    <3>5. QED
      BY <2>4, <3>2, <3>3, <3>4
  <2>7. (turn.starting \cup turn.storing \subseteq DOMAIN Delegates(turn.out))'
    BY <1>t, <2>6
  <2>8. QED
    BY <1>t, <2>3, <2>5, <2>6, <2>7 DEF TypeOK, NothingIsPlanned, Unplanned
<1>8. CASE SpeaksOpener
  <2> DEFINE text == IF HasToolWork THEN Opener ELSE <<>>
             n == SearchCount(turn.out)
             found == [i \in 1 .. n |-> <<>>]
  <2>1. turn.out \in Seq(Item)
    BY <1>t DEF Turn
  <2>2. n \in 0 .. MaxSearches /\ text \in Seq(Pieces)
    BY <2>1, SearchesOf, OpenerIsSaid
  <2>3. found \in Seq(Seq(Pieces)) /\ 1 .. n \subseteq 1 .. MaxSearches /\ 1 .. n \subseteq Nat
    <3> HIDE DEF n
    <3>1. n \in Nat /\ n <= 3 /\ MaxSearches = 3
      BY <2>2 DEF MaxSearches
    <3>2. QED
      BY <3>1
  <2>4. AfterOpener \in Stage \ Unplanned
    BY DEF AfterOpener, Stage, Waits, Unplanned
  <2>5. turn' = [turn EXCEPT !.at = AfterOpener, !.parts = text, !.pending = 1 .. n, !.found = found]
    BY <1>8 DEF SpeaksOpener
  <2>6. heard' = heard \o text /\ UNCHANGED <<board, rows>>
    BY <1>8 DEF SpeaksOpener, Emits
  <2> HIDE DEF text, n, found
  <2>7. heard' \in Seq(Pieces)
    BY <1>t, <2>2, <2>6
  <2>8. QED
    BY <1>t, <2>2, <2>3, <2>4, <2>5, <2>6, <2>7 DEF TypeOK, Turn, NothingIsPlanned
<1>9. CASE \E i \in 1 .. MaxSearches : SearchAnswers(i)
  <2>1. PICK i \in 1 .. MaxSearches : SearchAnswers(i)
    BY <1>9
  <2>2. PICK text \in {<<>>, <<AnswerPiece[i]>>} : turn' = [turn EXCEPT !.pending = @ \ {i}, !.found[i] = text]
    BY <2>1 DEF SearchAnswers
  <2>3. text \in Seq(Pieces)
    <3>1. <<AnswerPiece[i]>> \in Seq(Pieces) /\ <<>> \in Seq(Pieces)
      BY AnswersArePieces
    <3>2. QED
      BY <3>1
  <2>4. turn.found \in Seq(Seq(Pieces)) /\ [turn.found EXCEPT ![i] = text] \in Seq(Seq(Pieces))
    <3> DEFINE Text == Seq(Pieces)
    <3>1. turn.found \in Seq(Text) /\ text \in Text
      BY <1>t, <2>3 DEF Turn
    <3> HIDE DEF Text
    <3>2. [turn.found EXCEPT ![i] = text] \in Seq(Text)
      <4>1. Len(turn.found) \in Nat /\ turn.found \in [1 .. Len(turn.found) -> Text]
        BY <3>1
      <4>2. [turn.found EXCEPT ![i] = text] \in [1 .. Len(turn.found) -> Text]
        BY <3>1, <4>1
      <4>3. \A f \in [1 .. Len(turn.found) -> Text] : f \in Seq(Text)
        BY <4>1, SeqDef
      <4>4. QED
        BY <4>2, <4>3
    <3>3. QED
      BY <3>1, <3>2 DEF Text
  <2>5. turn' = [turn EXCEPT !.pending = turn.pending \ {i}, !.found = [turn.found EXCEPT ![i] = text]]
    BY <2>2
  <2>6. UNCHANGED <<board, heard, rows>> /\ turn.at = "searching"
    BY <2>1 DEF SearchAnswers
  <2> DEFINE found == [turn.found EXCEPT ![i] = text]
             pending == turn.pending \ {i}
  <2>7. found \in Seq(Seq(Pieces)) /\ pending \subseteq Nat /\ pending \subseteq 1 .. MaxSearches
    BY <1>t, <2>4 DEF Turn
  <2> HIDE DEF found, pending
  <2>8. turn' = [turn EXCEPT !.pending = pending, !.found = found]
    BY <2>5 DEF found, pending
  <2>9. turn' \in Turn
    BY <1>t, <2>7, <2>8 DEF Turn
  <2>10. /\ turn'.out = turn.out /\ turn'.starting = turn.starting /\ turn'.storing = turn.storing
         /\ turn'.pending = pending /\ turn'.at = "searching"
    BY <1>t, <2>6, <2>8 DEF Turn
  <2>11. (turn.starting \cup turn.storing \subseteq DOMAIN Delegates(turn.out))'
    BY <1>t, <2>10
  <2>12. QED
    BY <1>t, <2>6, <2>7, <2>9, <2>10, <2>11 DEF TypeOK, NothingIsPlanned, Unplanned
<1>10. CASE Tells
  <2>1. turn.found \in Seq(Seq(Pieces)) /\ turn.parts \in Seq(Pieces) /\ turn.at = "telling"
    BY <1>10, <1>t DEF Turn, Tells
  <2>2. CASE turn.found = <<>>
    <3>1. turn' = [turn EXCEPT !.at = "noting"] /\ UNCHANGED <<board, heard, rows>>
      BY <1>10, <2>2 DEF Tells
    <3>2. turn' \in Turn
      BY <1>t, <3>1, Stages DEF Turn
    <3>3. QED
      BY <1>t, <3>1, <3>2, TypedByParts DEF Turn, Unplanned
  <2>3. CASE turn.found # <<>>
    <3>1. Head(turn.found) \in Seq(Pieces) /\ Tail(turn.found) \in Seq(Seq(Pieces))
      BY <2>1, <2>3
    <3>2. turn.parts \o Head(turn.found) \in Seq(Pieces) /\ heard \o Head(turn.found) \in Seq(Pieces)
      BY <1>t, <2>1, <3>1
    <3>3. /\ turn' = [turn EXCEPT !.found = Tail(turn.found), !.parts = turn.parts \o Head(turn.found)]
          /\ heard' = heard \o Head(turn.found) /\ UNCHANGED <<board, rows>>
      BY <1>10, <2>3 DEF Tells, Emits
    <3>4. turn' \in Turn
      BY <1>t, <3>1, <3>2, <3>3 DEF Turn
    <3>5. QED
      BY <1>t, <3>2, <3>3, <3>4, TypedByParts DEF Turn
  <2>4. QED
    BY <2>2, <2>3
<1>11. CASE Recalls \/ Notes
  <2>1. /\ <<>> \in Seq(Pieces) /\ <<"recalled">> \in Seq(Pieces)
        /\ <<"recalled", "openSearch">> \in Seq(Pieces) /\ <<"note">> \in Seq(Pieces)
    BY PieceFacts DEF Said, Words
  <2>2. \E text \in {<<>>, <<"recalled">>, <<"recalled", "openSearch">>, <<"note">>}, at \in {"noting", "speaking"} :
          heard' = heard \o text /\ turn' = [turn EXCEPT !.at = at, !.parts = @ \o text]
    BY <1>11 DEF Recalls, Notes, Emits
  <2>3. PICK text \in Seq(Pieces), at \in {"noting", "speaking"} :
          heard' = heard \o text /\ turn' = [turn EXCEPT !.at = at, !.parts = @ \o text]
    BY <2>1, <2>2
  <2>4. turn.parts \in Seq(Pieces) /\ turn.parts \o text \in Seq(Pieces) /\ heard \o text \in Seq(Pieces)
    BY <1>t DEF Turn
  <2>5. QED
    BY <1>11, <1>t, <2>3, <2>4 DEF Recalls, Notes, TypeOK, Turn, Stage, Waits, NothingIsPlanned, Unplanned
<1>12. CASE Speaks
  <2> DEFINE said == IF turn.parts # <<>> THEN turn.parts ELSE Opener
             visible == IF said = <<>> /\ Has(turn.out, "remember") THEN <<"noted">> ELSE said
             override == said = <<>> /\ Has(turn.out, "respond_via")
  <2>1. turn.out \in Seq(Item) /\ turn.parts \in Seq(Pieces)
    BY <1>t DEF Turn
  <2>2. <<"noted">> \in Seq(Pieces)
    BY PieceFacts
  <2>3. visible \in Seq(Pieces) /\ override \in BOOLEAN
    BY <2>1, <2>2, OpenerIsSaid
  <2>4. Ensured(visible) \in Seq(Pieces)
    BY <2>3, EnsuredFacts
  <2>5. /\ heard' = IF heard = <<>> THEN visible ELSE heard
        /\ turn' = [turn EXCEPT !.at = "storing", !.reply = Ensured(visible), !.override = override]
        /\ UNCHANGED <<board, rows>>
    BY <1>12 DEF Speaks
  <2> HIDE DEF visible, override
  <2>6. QED
    BY <1>t, <2>3, <2>4, <2>5 DEF TypeOK, Turn, Stage, Waits, NothingIsPlanned, Unplanned
<1>13. CASE ReplyStored
  <2>1. Row("assistant", turn.reply) \in [role : {"user", "assistant"}, text : Seq(Pieces)]
    BY <1>t DEF Turn, Row
  <2>2. turn' = [turn EXCEPT !.at = "done"] /\ UNCHANGED <<board, heard>>
    BY <1>13 DEF ReplyStored
  <2>3. rows' \in Seq([role : {"user", "assistant"}, text : Seq(Pieces)])
    BY <1>13, <1>t, <2>1 DEF ReplyStored
  <2>4. turn' \in Turn
    BY <1>t, <2>2, Stages DEF Turn
  <2>5. QED
    BY <1>t, <2>2, <2>3, <2>4, TypedByParts DEF Turn, Unplanned
<1>14. CASE \E goal \in Goals : TaskMoves(goal)
  BY <1>14, <1>t DEF TaskMoves, TypeOK, NothingIsPlanned, Statuses, Live
<1>15. CASE UNCHANGED vars
  BY <1>15, <1>t DEF vars, TypeOK, NothingIsPlanned
<1>16. QED
  BY <1>1, <1>2, <1>3, <1>4, <1>5, <1>6, <1>7, <1>8, <1>9, <1>10, <1>11, <1>12, <1>13, <1>14, <1>15
  DEF Next, Progress

LEMMA TypesInit ==
  ASSUME Init
  PROVE  TypedInv
<1>1. <<>> \in Seq(Item)
  OBVIOUS
<1>2. QED
  BY <1>1 DEF Init, NewTurn, TypedInv, TypeOK, Turn, Stage, NothingIsPlanned

(* The variables keep their types: the positions of the delegates that are    *)
(* under way are those of delegates the answer has.                           *)
THEOREM TypesHold == Spec => []TypeOK
<1>1. TypedInv /\ [Next]_vars => TypedInv'
  BY TypesStep
<1>2. TypedInv => TypeOK
  BY DEF TypedInv
<1>3. QED
  BY <1>1, <1>2, TypesInit, PTL DEF Spec

-----------------------------------------------------------------------------
(* The history                                                              *)

(* Steps of the turn in which nothing is heard and no reply is made.          *)
Unheard ==
  \/ Begin \/ SessionReady \/ ContextRead \/ UserRowStored \/ Plans
  \/ StopsTask \/ AnswersTask \/ ExecutesProfile \/ NextStage
  \/ \E i \in DOMAIN Delegates(turn.out) : SpawnStarts(i) \/ SpawnStored(i)
  \/ SpawnsDone \/ SearchesDone
  \/ \E i \in 1 .. MaxSearches : SearchAnswers(i)

Planning == {"stopping", "answering", "profile", "spawning", "opening"}
Asking == {"asking", "asking_again"}

LEMMA UnheardSteps ==
  ASSUME turn \in Turn, Unheard
  PROVE  /\ heard' = heard /\ turn'.parts = turn.parts /\ turn'.reply = turn.reply
         /\ turn'.allowed = turn.allowed \/ turn.at = "idle"
         /\ \/ turn.at \in {"idle", "session", "context"} /\ rows' = rows
               /\ turn'.at \in {"session", "context", "user_row", "silent"}
            \/ turn.at = "user_row" /\ turn'.at = "asking" /\ rows' = Append(rows, Row("user", <<>>))
            \/ turn.at \in Asking \cup Planning /\ turn'.at \in Planning /\ rows' = rows
            \/ turn.at = "searching" /\ turn'.at \in {"searching", "telling"} /\ rows' = rows
<1>1. CASE Begin \/ SessionReady \/ ContextRead
  BY <1>1 DEF Begin, SessionReady, ContextRead, Turn
<1>2. CASE UserRowStored \/ Plans
  BY <1>2 DEF UserRowStored, Plans, Turn, Asking, Planning
<1>3. CASE StopsTask \/ AnswersTask \/ ExecutesProfile
  BY <1>3 DEF StopsTask, AnswersTask, ExecutesProfile, Turns, Turn, Planning
<1>4. CASE NextStage
  BY <1>4 DEF NextStage, Turns, Turn, Planning
<1>5. CASE \E i \in DOMAIN Delegates(turn.out) : SpawnStarts(i) \/ SpawnStored(i)
  <2>1. PICK i \in DOMAIN Delegates(turn.out) : SpawnStarts(i) \/ SpawnStored(i)
    BY <1>5
  <2>2. CASE SpawnStarts(i)
    BY <2>2 DEF SpawnStarts, Turn, Planning
  <2>3. CASE SpawnStored(i)
    BY <2>3 DEF SpawnStored, Turn, Planning
  <2>4. QED
    BY <2>1, <2>2, <2>3
<1>6. CASE SpawnsDone \/ SearchesDone \/ \E i \in 1 .. MaxSearches : SearchAnswers(i)
  BY <1>6 DEF SpawnsDone, SearchesDone, SearchAnswers, Turn, Planning
<1>7. QED
  BY <1>1, <1>2, <1>3, <1>4, <1>5, <1>6 DEF Unheard

(* The steps that remain.                                                    *)
LEMMA StepsAre ==
  ASSUME [Next]_vars
  PROVE  \/ Unheard \/ AnswersDirectly \/ SpeaksOpener \/ Tells \/ Recalls \/ Notes \/ Speaks
         \/ ReplyStored \/ Fails \/ (\E goal \in Goals : TaskMoves(goal)) \/ UNCHANGED vars
BY DEF Next, Progress, Unheard

(* The steps that say a part of the reply.                                    *)
LEMMA Emissions ==
  ASSUME TypedInv, SpeaksOpener \/ Tells \/ Recalls \/ Notes
  PROVE  /\ \E text \in Seq(Pieces) :
              /\ heard' = heard \o text
              /\ IF turn.at = "opening" THEN turn'.parts = text ELSE turn'.parts = turn.parts \o text
         /\ rows' = rows /\ turn'.reply = turn.reply /\ turn'.allowed = turn.allowed
         /\ turn.at \in {"opening", "telling", "recalling", "noting"}
         /\ turn'.at \in {"searching", "telling", "recalling", "noting", "speaking"}
<1>t. turn \in Turn /\ turn.parts \in Seq(Pieces) /\ heard \in Seq(Pieces) /\ turn.out \in Seq(Item)
  BY Types DEF TypedInv
<1>e. <<>> \in Seq(Pieces) /\ heard \o <<>> = heard /\ turn.parts \o <<>> = turn.parts
  BY <1>t
<1>1. CASE SpeaksOpener
  <2> DEFINE text == IF HasToolWork THEN Opener ELSE <<>>
  <2>1. /\ heard' = heard \o text /\ turn.at = "opening" /\ rows' = rows
        /\ turn'.parts = text /\ turn'.reply = turn.reply /\ turn'.allowed = turn.allowed
        /\ turn'.at = AfterOpener
    BY <1>1, <1>t DEF SpeaksOpener, Emits, Turn
  <2>2. AfterOpener \in {"searching", "recalling", "noting"}
    BY DEF AfterOpener
  <2>3. text \in Seq(Pieces)
    BY <1>t, <1>e, OpenerIsSaid
  <2> HIDE DEF text
  <2>4. QED
    BY <2>1, <2>2, <2>3
<1>2. CASE Tells
  <2>1. turn.at = "telling" /\ rows' = rows
    BY <1>2 DEF Tells
  <2>2. CASE turn.found = <<>>
    <3>1. heard' = heard /\ turn' = [turn EXCEPT !.at = "noting"]
      BY <1>2, <2>2 DEF Tells
    <3>2. QED
      BY <1>t, <1>e, <2>1, <3>1 DEF Turn
  <2>3. CASE turn.found # <<>>
    <3> DEFINE text == Head(turn.found)
    <3>1. turn.found \in Seq(Seq(Pieces))
      BY <1>t DEF Turn
    <3>2. text \in Seq(Pieces)
      BY <2>3, <3>1
    <3>3. heard' = heard \o text /\ turn' = [turn EXCEPT !.found = Tail(@), !.parts = @ \o text]
      BY <1>2, <2>3 DEF Tells, Emits
    <3> HIDE DEF text
    <3>4. QED
      BY <1>t, <2>1, <3>2, <3>3 DEF Turn
  <2>4. QED
    BY <2>2, <2>3
<1>3. CASE Recalls \/ Notes
  <2>1. PICK text : /\ text \in {<<>>, <<"recalled">>, <<"recalled", "openSearch">>, <<"note">>}
                    /\ heard' = heard \o text
                    /\ \/ turn' = [turn EXCEPT !.at = "noting", !.parts = @ \o text]
                       \/ turn' = [turn EXCEPT !.at = "speaking", !.parts = @ \o text]
    BY <1>3 DEF Recalls, Notes, Emits
  <2>2. turn.at \in {"recalling", "noting"} /\ rows' = rows
    BY <1>3 DEF Recalls, Notes
  <2>3. text \in Seq(Pieces)
    <3>1. /\ <<"recalled">> \in Seq(Pieces) /\ <<"recalled", "openSearch">> \in Seq(Pieces)
          /\ <<"note">> \in Seq(Pieces)
      BY PieceFacts DEF Said, Words
    <3>2. QED
      BY <1>e, <2>1, <3>1
  <2>4. QED
    BY <1>t, <2>1, <2>2, <2>3 DEF Turn
<1>4. QED
  BY <1>1, <1>2, <1>3

LEMMA HistoryStep ==
  ASSUME HistoryInv, [Next]_vars
  PROVE  RowsSoFar' /\ ReplyIsHeard'
<1>t. /\ turn \in Turn /\ turn.at \in Stage /\ turn.out \in Seq(Item)
      /\ turn.parts \in Seq(Pieces) /\ heard \in Seq(Pieces)
  BY Types DEF HistoryInv, TypedInv
<1>i. RowsSoFar /\ ReplyIsHeard /\ TypedInv
  BY DEF HistoryInv
<1>1. CASE Unheard
  <2> DEFINE user == Row("user", <<>>)
  <2>1. Append(<<>>, user) = <<user>>
    OBVIOUS
  <2> HIDE DEF user
  <2>2. RowsSoFar'
    BY <1>1, <1>t, <1>i, <2>1, UnheardSteps DEF RowsSoFar, Waits, Asking, Planning, user
  <2>3. ReplyIsHeard'
    BY <1>1, <1>t, <1>i, UnheardSteps DEF ReplyIsHeard, Silent, Unplanned, Asking, Planning
  <2>4. QED
    BY <2>2, <2>3
<1>2. CASE AnswersDirectly
  <2>1. turn.at \in Asking /\ UNCHANGED <<board, rows>>
    BY <1>2 DEF AnswersDirectly, Asking
  <2>2. PICK out \in Outputs :
          \/ turn' = [turn EXCEPT !.at = "asking_again"] /\ UNCHANGED heard
          \/ /\ heard' = Strip(out)
             /\ turn' = [turn EXCEPT !.at = "storing", !.out = out,
                                     !.reply = Ensured(Finalized(Strip(out))),
                                     !.override = Has(out, "respond_via")]
    BY <1>2 DEF AnswersDirectly
  <2>3. CASE turn' = [turn EXCEPT !.at = "asking_again"] /\ UNCHANGED heard
    BY <1>t, <1>i, <2>1, <2>3 DEF RowsSoFar, ReplyIsHeard, Silent, Unplanned, Waits, Asking, Turn
  <2>4. CASE /\ heard' = Strip(out)
             /\ turn' = [turn EXCEPT !.at = "storing", !.out = out,
                                     !.reply = Ensured(Finalized(Strip(out))),
                                     !.override = Has(out, "respond_via")]
    <3> DEFINE kept == Finalized(heard')
    <3>1. Strip(out) \in Seq(Pieces)
      BY OutputsAssumption, TextsOf, PieceFacts
    <3>2. /\ turn'.at = "storing" /\ turn'.reply = Ensured(kept) /\ heard' \in Seq(Pieces)
          /\ turn'.allowed = FALSE
      BY <1>2, <1>t, <2>4, <3>1 DEF Turn, AnswersDirectly
    <3>3. kept \in Seq(Pieces) /\ (kept = heard' \/ Cut(heard', kept))
      BY <3>2, FinalizedFacts
    <3> HIDE DEF kept
    <3>4. kept = <<>> \/ Leaks(kept) => heard' = <<>> \/ Leaks(heard')
      BY <3>2, <3>3, CutLeaks
    <3>5. /\ Ensured(kept) # <<>> /\ ~Leaks(Ensured(kept))
          /\ \/ Ensured(kept) = kept
             \/ Ensured(kept) = <<"fallback">> /\ (kept = <<>> \/ Leaks(kept))
      BY <3>3, EnsuredFacts
    <3>6. ReplyIsHeard'
      BY <3>2, <3>3, <3>4, <3>5 DEF ReplyIsHeard, Silent, Unplanned
    <3>7. QED
      BY <1>i, <2>1, <3>2, <3>6 DEF RowsSoFar, Waits, Asking
  <2>5. QED
    BY <2>2, <2>3, <2>4
<1>3. CASE SpeaksOpener \/ Tells \/ Recalls \/ Notes
  <2>1. RowsSoFar'
    BY <1>3, <1>i, Emissions DEF RowsSoFar, Waits
  <2>2. PICK text \in Seq(Pieces) :
          /\ heard' = heard \o text
          /\ IF turn.at = "opening" THEN turn'.parts = text ELSE turn'.parts = turn.parts \o text
    BY <1>3, <1>i, Emissions
  <2>3. /\ turn.at \in {"opening", "telling", "recalling", "noting"}
        /\ turn'.at \in {"searching", "telling", "recalling", "noting", "speaking"}
    BY <1>3, <1>i, Emissions
  <2>4. heard' = turn'.parts
    <3>1. turn.at = "opening" => heard = <<>> /\ heard \o text = text
      BY <1>i DEF ReplyIsHeard, Silent
    <3>2. heard = turn.parts
      BY <1>i, <2>3 DEF ReplyIsHeard
    <3>3. QED
      BY <2>2, <3>1, <3>2
  <2>5. ReplyIsHeard'
    BY <2>3, <2>4 DEF ReplyIsHeard, Silent, Unplanned
  <2>6. QED
    BY <2>1, <2>5
<1>4. CASE Speaks
  <2> DEFINE said == IF turn.parts # <<>> THEN turn.parts ELSE Opener
             visible == IF said = <<>> /\ Has(turn.out, "remember") THEN <<"noted">> ELSE said
  <2>1. visible \in Seq(Pieces)
    <3>1. <<"noted">> \in Seq(Pieces)
      BY PieceFacts
    <3>2. QED
      BY <1>t, <3>1, OpenerIsSaid
  <2>2. turn.parts # <<>> => visible = turn.parts
    OBVIOUS
  <2>3. /\ turn.at = "speaking" /\ rows' = rows /\ heard' = IF heard = <<>> THEN visible ELSE heard
        /\ turn'.at = "storing" /\ turn'.reply = Ensured(visible)
    BY <1>4, <1>t DEF Speaks, Turn
  <2> HIDE DEF visible
  <2>4. heard' = visible
    BY <1>i, <2>2, <2>3 DEF ReplyIsHeard
  <2>5. /\ Ensured(visible) # <<>> /\ ~Leaks(Ensured(visible))
        /\ \/ Ensured(visible) = visible
           \/ Ensured(visible) = <<"fallback">> /\ (visible = <<>> \/ Leaks(visible))
    BY <2>1, EnsuredFacts
  <2>6. turn'.reply = Ensured(heard') /\ Leaks(heard') = Leaks(visible)
    BY <2>3, <2>4
  <2>7. ReplyIsHeard'
    BY <2>3, <2>4, <2>5, <2>6 DEF ReplyIsHeard, Silent, Unplanned
  <2>8. QED
    BY <1>i, <2>3, <2>7 DEF RowsSoFar, Waits
<1>5. CASE ReplyStored
  <2>1. /\ turn.at = "storing" /\ turn'.at = "done" /\ turn'.reply = turn.reply /\ heard' = heard
        /\ rows' = Append(rows, Row("assistant", turn.reply))
    BY <1>5, <1>t DEF ReplyStored, Turn
  <2>2. rows = <<Row("user", <<>>)>>
    BY <1>i, <2>1 DEF RowsSoFar, Waits
  <2>3. rows' = <<Row("user", <<>>), Row("assistant", turn.reply)>>
    <3>1. ASSUME NEW first, NEW second
          PROVE  Append(<<first>>, second) = <<first, second>>
      <4> DEFINE S == {first, second}
      <4>1. <<first>> \in Seq(S) /\ <<first, second>> \in Seq(S) /\ second \in S
        OBVIOUS
      <4>2. /\ Append(<<first>>, second) \in Seq(S) /\ Len(Append(<<first>>, second)) = 2
            /\ Append(<<first>>, second)[1] = first /\ Append(<<first>>, second)[2] = second
        BY <4>1
      <4> DEFINE s == Append(<<first>>, second)
                 r == <<first, second>>
      <4>3. s \in Seq(S) /\ r \in Seq(S) /\ Len(s) = 2 /\ Len(r) = 2 /\ s[1] = r[1] /\ s[2] = r[2]
        BY <4>1, <4>2
      <4> HIDE DEF s, r
      <4>4. \A k \in 1 .. Len(s) : s[k] = r[k]
        BY <4>3
      <4>5. s = r
        BY <4>3, <4>4, SeqEqual
      <4>6. QED
        BY <4>5 DEF s, r
    <3>2. QED
      BY <2>1, <2>2, <3>1
  <2>4. turn'.allowed = turn.allowed
    BY <1>5, <1>t DEF ReplyStored, Turn
  <2>5. ReplyIsHeard'
    BY <1>i, <2>1, <2>4 DEF ReplyIsHeard, Silent, Unplanned
  <2>6. QED
    BY <2>1, <2>3, <2>5 DEF RowsSoFar, Waits
<1>6. CASE Fails
  <2>1. turn'.at = "failed" /\ UNCHANGED <<heard, rows>>
    BY <1>6, <1>t DEF Fails, Turn
  <2>2. QED
    BY <2>1 DEF RowsSoFar, ReplyIsHeard, Silent, Unplanned, Waits
<1>7. CASE (\E goal \in Goals : TaskMoves(goal)) \/ UNCHANGED vars
  <2>1. UNCHANGED <<turn, heard, rows>>
    BY <1>7 DEF TaskMoves, vars
  <2>2. QED
    BY <1>i, <2>1 DEF RowsSoFar, ReplyIsHeard
<1>8. QED
  BY <1>1, <1>2, <1>3, <1>4, <1>5, <1>6, <1>7, StepsAre

LEMMA HistoryInit ==
  ASSUME Init
  PROVE  HistoryInv
BY TypesInit DEF Init, NewTurn, HistoryInv, RowsSoFar, ReplyIsHeard, Waits

(* The history is what was said: a turn that comes to its end leaves the row  *)
(* of the user and one reply, never empty and never half a directive: word by *)
(* word what has been heard, without the repetition that was heard if the     *)
(* answer streamed, or the fallback if nothing or half a directive was heard. *)
THEOREM HistoryIsWhatWasSaid == Spec => []HistoryTellsTheReply
<1>1. Init => HistoryInv
  BY HistoryInit
<1>2. HistoryInv /\ [Next]_vars => HistoryInv'
  BY TypesStep, HistoryStep DEF HistoryInv
<1>3. HistoryInv => HistoryTellsTheReply
  <2> SUFFICES ASSUME HistoryInv, turn.at = "done" PROVE HistoryTellsTheReply
    BY DEF HistoryTellsTheReply
  <2>1. rows = <<Row("user", <<>>), Row("assistant", turn.reply)>>
    BY DEF HistoryInv, RowsSoFar
  <2>2. DOMAIN rows = 1 .. 2 /\ rows[1].role = "user" /\ rows[2].role = "assistant" /\ rows[2].text = turn.reply
    BY <2>1 DEF Row
  <2>3. [i \in DOMAIN rows |-> rows[i].role] = <<"user", "assistant">>
    BY <2>2
  <2>4. QED
    BY <2>2, <2>3 DEF HistoryInv, ReplyIsHeard, HistoryTellsTheReply, Cut
<1>4. QED
  BY <1>1, <1>2, <1>3, PTL DEF Spec

-----------------------------------------------------------------------------
(* The delegates                                                            *)

(* The step leaves the answer, its delegates and what is told of them alone.  *)
LEMMA SameDelegates ==
  ASSUME DelegateInv, turn \in Turn,
         turn'.out = turn.out, turn'.told = turn.told, turn'.fresh = turn.fresh,
         turn'.starting = turn.starting, turn'.storing = turn.storing,
         turn'.todo = turn.todo, turn'.allowed = turn.allowed,
         \A goal \in Goals : board'[goal] \in Live => board[goal] \in Live,
         turn'.at \in {turn.at, "failed"} \/ (turn'.at \in Spawned /\ turn.at \in Spawned)
  PROVE  StopsComeFirst' /\ DelegatesAreTold'
<1>1. GoalsOf(turn.out, "stop") \subseteq Goals
  BY DirectivesOf DEF Turn
<1>2. StopsComeFirst'
  BY <1>1 DEF DelegateInv, StopsComeFirst, Spawned
<1>3. DelegatesAreTold'
  BY DEF DelegateInv, DelegatesAreTold, Spawned
<1>4. QED
  BY <1>2, <1>3

LEMMA DelegateStep ==
  ASSUME DelegateInv, [Next]_vars
  PROVE  StopsComeFirst' /\ DelegatesAreTold'
<1>t. /\ turn \in Turn /\ turn.at \in Stage /\ turn.out \in Seq(Item) /\ turn.todo \in Seq(Item)
      /\ board \in [Goals -> Statuses]
  BY Types DEF DelegateInv, TypedInv
<1>i. StopsComeFirst /\ DelegatesAreTold /\ NothingIsPlanned
  BY DEF DelegateInv, TypedInv
<1>g. GoalsOf(turn.out, "stop") \subseteq Goals
  BY <1>t, DirectivesOf
<1>1. CASE Begin \/ SessionReady \/ ContextRead \/ UserRowStored
  <2>1. /\ turn'.at \in Unplanned /\ turn.at \in Unplanned
        /\ turn'.told = turn.told /\ turn'.fresh = turn.fresh /\ turn'.out = turn.out
    BY <1>1, <1>t DEF Begin, SessionReady, ContextRead, UserRowStored, Turn, Unplanned
  <2>2. QED
    BY <1>i, <2>1 DEF StopsComeFirst, DelegatesAreTold, Unplanned, Spawned
<1>2. CASE AnswersDirectly
  <2>1. turn.at \in Unplanned /\ ~turn.allowed
    BY <1>2 DEF AnswersDirectly, Unplanned
  <2>2. turn'.at \in {"asking_again", "storing"} /\ turn'.told = turn.told /\ turn'.allowed = turn.allowed
    BY <1>2, <1>t DEF AnswersDirectly, Turn
  <2>3. turn'.told = {}
    BY <1>i, <2>1, <2>2 DEF NothingIsPlanned
  <2>4. QED
    BY <2>1, <2>2, <2>3 DEF StopsComeFirst, DelegatesAreTold, Spawned
<1>3. CASE Plans
  <2>1. turn.at \in Unplanned /\ board' = board
    BY <1>3 DEF Plans, Unplanned
  <2>2. PICK out \in Outputs : turn' = [turn EXCEPT !.at = "stopping", !.out = out, !.todo = Stops(out)]
    BY <1>3 DEF Plans
  <2>3. turn'.at = "stopping" /\ turn'.out = out /\ turn'.todo = Stops(out) /\ turn'.told = {}
        /\ turn'.storing = {}
    BY <1>i, <1>t, <2>1, <2>2 DEF Turn, NothingIsPlanned
  <2>4. \A goal \in GoalsOf(out, "stop") : \E k \in DOMAIN Stops(out) : Stops(out)[k].goal = goal
    BY OutputsAssumption, DirectivesOf
  <2>5. QED
    BY <2>3, <2>4 DEF StopsComeFirst, DelegatesAreTold, Spawned
<1>4. CASE StopsTask
  <2>1. /\ turn.at = "stopping" /\ turn.todo # <<>> /\ turn' = [turn EXCEPT !.at = "stopping", !.todo = Tail(turn.todo)]
        /\ board' = [board EXCEPT ![Head(turn.todo).goal] =
                       IF board[Head(turn.todo).goal] \in Live THEN "over" ELSE board[Head(turn.todo).goal]]
    BY <1>4 DEF StopsTask, Turns
  <2>2. /\ turn'.at = "stopping" /\ turn'.out = turn.out /\ turn'.told = turn.told /\ turn'.fresh = turn.fresh
        /\ turn'.todo = Tail(turn.todo) /\ turn'.storing = turn.storing
    BY <1>t, <2>1 DEF Turn
  <2>3. ASSUME NEW goal \in GoalsOf(turn.out, "stop")
        PROVE  board'[goal] \notin Live \/ \E k \in DOMAIN turn'.todo : turn'.todo[k].goal = goal
    <3>1. goal \in Goals /\ "over" \notin Live
      BY <1>g DEF Live
    <3>2. CASE board[goal] \notin Live \/ Head(turn.todo).goal = goal
      BY <1>t, <2>1, <3>1, <3>2
    <3>3. CASE board[goal] \in Live /\ Head(turn.todo).goal # goal
      <4>1. PICK k \in DOMAIN turn.todo : turn.todo[k].goal = goal
        BY <1>i, <2>1, <3>3 DEF StopsComeFirst
      <4>2. k # 1 /\ k \in 1 .. Len(turn.todo) /\ Len(turn.todo) \in Nat
        BY <1>t, <2>1, <3>3, <4>1
      <4>3. k - 1 \in DOMAIN Tail(turn.todo) /\ Tail(turn.todo)[k - 1] = turn.todo[k]
        BY <1>t, <2>1, <4>2
      <4>4. QED
        BY <2>2, <4>1, <4>3
    <3>4. QED
      BY <3>2, <3>3
  <2>4. QED
    BY <1>i, <2>1, <2>2, <2>3 DEF StopsComeFirst, DelegatesAreTold, Spawned
<1>5. CASE AnswersTask \/ ExecutesProfile
  <2>1. /\ turn.at \in {"answering", "profile"} /\ turn'.at = turn.at /\ turn'.out = turn.out
        /\ turn'.told = turn.told /\ turn'.fresh = turn.fresh /\ turn'.storing = turn.storing
    BY <1>5, <1>t DEF AnswersTask, ExecutesProfile, Turns, Turn
  <2>2. \A goal \in Goals : board'[goal] \in Live => board[goal] \in Live
    BY <1>5, <1>t DEF AnswersTask, ExecutesProfile, Live
  <2>3. QED
    BY <1>g, <1>i, <2>1, <2>2 DEF StopsComeFirst, DelegatesAreTold, Spawned
<1>6. CASE NextStage
  <2>1. /\ turn'.out = turn.out /\ turn'.told = turn.told /\ turn'.fresh = turn.fresh /\ board' = board
        /\ turn'.storing = turn.storing
        /\ \/ turn.at = "stopping" /\ turn'.at = "answering"
           \/ turn.at = "answering" /\ turn'.at = "profile"
           \/ turn.at = "profile" /\ turn'.at = "spawning" /\ turn'.starting = DOMAIN Delegates(turn.out)
    BY <1>6, <1>t DEF NextStage, Turns, Turn
  <2>2. turn.at = "stopping" => \A goal \in GoalsOf(turn.out, "stop") : board[goal] \notin Live
    BY <1>6, <1>i DEF NextStage, StopsComeFirst
  <2>3. StopsComeFirst'
    BY <1>i, <2>1, <2>2 DEF StopsComeFirst
  <2>4. QED
    BY <1>i, <2>1, <2>3 DEF DelegatesAreTold, Spawned
<1>7. ASSUME NEW i \in DOMAIN Delegates(turn.out), SpawnStarts(i) \/ SpawnStored(i)
      PROVE  StopsComeFirst' /\ DelegatesAreTold'
  <2> DEFINE goal == Delegates(turn.out)[i].goal
             D == DOMAIN Delegates(turn.out)
             GoalOf(k) == Delegates(turn.out)[k].goal
  <2>1. goal \in Goals /\ turn.at = "spawning"
    BY <1>t, <1>7, DirectivesOf DEF SpawnStarts, SpawnStored
  <2>2. CASE SpawnStarts(i) /\ board[goal] \in Live
    <3>1. /\ turn'.at = "spawning" /\ turn'.out = turn.out /\ turn'.told = turn.told \cup {goal}
          /\ turn'.fresh = turn.fresh /\ turn'.starting = turn.starting \ {i}
          /\ turn'.storing = turn.storing /\ board' = board
      BY <1>t, <2>1, <2>2 DEF SpawnStarts, Turn
    <3>2. goal \in GoalsOf(turn.out, "stop") => goal \in turn.fresh
      BY <1>i, <2>1, <2>2 DEF StopsComeFirst
    <3>3. StopsComeFirst'
      BY <1>i, <2>1, <3>1, <3>2 DEF StopsComeFirst
    <3>4. DelegatesAreTold'
      BY <1>i, <2>1, <3>1 DEF DelegatesAreTold, Spawned
    <3>5. QED
      BY <3>3, <3>4
  <2>3. CASE SpawnStarts(i) /\ board[goal] \notin Live
    <3>1. /\ turn'.at = "spawning" /\ turn'.out = turn.out /\ turn'.told = turn.told
          /\ turn'.fresh = turn.fresh \cup {goal} /\ turn'.starting = turn.starting \ {i}
          /\ turn'.storing = turn.storing \cup {i} /\ board' = [board EXCEPT ![goal] = "running"]
      BY <1>t, <2>1, <2>3 DEF SpawnStarts, Turn
    <3>2. StopsComeFirst'
      BY <1>t, <1>g, <1>i, <2>1, <3>1 DEF StopsComeFirst
    <3>3. DelegatesAreTold'
      BY <1>i, <2>1, <3>1 DEF DelegatesAreTold, Spawned
    <3>4. QED
      BY <3>2, <3>3
  <2>4. CASE SpawnStored(i)
    <3>1. /\ turn'.at = "spawning" /\ turn'.out = turn.out /\ turn'.told = turn.told \cup {goal}
          /\ turn'.fresh = turn.fresh /\ turn'.starting = turn.starting
          /\ turn'.storing = turn.storing \ {i} /\ board' = board /\ i \in turn.storing
      BY <1>t, <2>1, <2>4 DEF SpawnStored, Turn
    <3>2. goal \in turn.fresh
      BY <1>i, <2>1, <3>1 DEF DelegatesAreTold
    <3>3. StopsComeFirst'
      BY <1>i, <2>1, <3>1, <3>2 DEF StopsComeFirst
    <3>4. DelegatesAreTold'
      BY <1>i, <2>1, <3>1 DEF DelegatesAreTold, Spawned
    <3>5. QED
      BY <3>3, <3>4
  <2>5. QED
    BY <1>7, <2>2, <2>3, <2>4
<1>8. CASE SpawnsDone
  <2>1. /\ turn.at = "spawning" /\ turn.starting = {} /\ turn.storing = {} /\ board' = board
        /\ turn'.at = "opening" /\ turn'.out = turn.out /\ turn'.told = turn.told /\ turn'.fresh = turn.fresh
    BY <1>8, <1>t DEF SpawnsDone, Turn
  <2>2. QED
    BY <1>i, <2>1 DEF StopsComeFirst, DelegatesAreTold
<1>9. CASE \/ SpeaksOpener \/ SearchesDone \/ Tells \/ Recalls \/ Notes \/ Speaks \/ ReplyStored
           \/ Fails \/ (\E i \in 1 .. MaxSearches : SearchAnswers(i))
  <2>1. /\ turn'.out = turn.out /\ turn'.told = turn.told /\ turn'.fresh = turn.fresh
        /\ turn'.starting = turn.starting /\ turn'.storing = turn.storing
        /\ turn'.todo = turn.todo /\ turn'.allowed = turn.allowed
        /\ turn'.at \in {turn.at, "failed"} \/ (turn'.at \in Spawned /\ turn.at \in Spawned)
    <3>1. CASE SpeaksOpener
      <4>1. AfterOpener \in Spawned
        BY DEF AfterOpener, Spawned
      <4>2. QED
        BY <1>t, <3>1, <4>1 DEF SpeaksOpener, Spawned, Turn
    <3>2. CASE SearchesDone \/ Tells \/ (\E i \in 1 .. MaxSearches : SearchAnswers(i))
      BY <1>t, <3>2 DEF SearchesDone, Tells, SearchAnswers, Spawned, Turn
    <3>3. CASE Recalls \/ Notes
      BY <1>t, <3>3 DEF Recalls, Notes, Spawned, Turn
    <3>4. CASE Speaks
      BY <1>t, <3>4 DEF Speaks, Spawned, Turn
    <3>5. CASE ReplyStored \/ Fails
      BY <1>t, <3>5 DEF ReplyStored, Fails, Spawned, Turn
    <3>6. QED
      BY <1>9, <3>1, <3>2, <3>3, <3>4, <3>5
  <2>2. board' = board
    BY <1>9 DEF SpeaksOpener, SearchesDone, Tells, Recalls, Notes, Speaks, ReplyStored, Fails, SearchAnswers
  <2>3. QED
    BY <1>t, <2>1, <2>2, SameDelegates
<1>10. CASE (\E goal \in Goals : TaskMoves(goal)) \/ UNCHANGED vars
  <2>1. turn' = turn /\ \A goal \in Goals : board'[goal] \in Live => board[goal] \in Live
    BY <1>10, <1>t DEF TaskMoves, vars, Live
  <2>2. QED
    BY <1>t, <2>1, SameDelegates
<1>11. QED
  BY <1>1, <1>2, <1>3, <1>4, <1>5, <1>6, <1>7, <1>8, <1>9, <1>10 DEF Next, Progress

(* When the turn comes to speak, each goal it delegates has a task, and on a   *)
(* goal the same answer stops it is one that this turn has created.           *)
THEOREM EveryDelegateStarts == Spec => []DelegatesStart
<1>1. Init => DelegateInv
  <2>1. Init => TypedInv
    BY TypesInit
  <2>2. Init => StopsComeFirst /\ DelegatesAreTold
    BY DEF Init, NewTurn, StopsComeFirst, DelegatesAreTold, Spawned
  <2>3. QED
    BY <2>1, <2>2 DEF DelegateInv
<1>2. DelegateInv /\ [Next]_vars => DelegateInv'
  BY TypesStep, DelegateStep DEF DelegateInv
<1>3. DelegateInv => DelegatesStart
  <2> SUFFICES ASSUME DelegateInv, turn.at \in Spawned, turn.allowed, NEW goal \in GoalsOf(turn.out, "delegate")
               PROVE  goal \in turn.told /\ (goal \in GoalsOf(turn.out, "stop") => goal \in turn.fresh)
    BY DEF DelegatesStart, Spawned
  <2>1. PICK i \in DOMAIN Delegates(turn.out) : Delegates(turn.out)[i].goal = goal
    BY Types, DirectivesOf DEF DelegateInv, TypedInv
  <2>2. goal \in turn.told
    BY <2>1 DEF DelegateInv, DelegatesAreTold
  <2>3. QED
    BY <2>2 DEF DelegateInv, StopsComeFirst
<1>4. QED
  BY <1>1, <1>2, <1>3, PTL DEF Spec

-----------------------------------------------------------------------------
(* The order                                                                *)

LEMMA Ranks ==
  /\ Rank("prose") = 0 /\ Rank("again") = 0 /\ Rank("noted") = 0 /\ Rank("recalled") = 4 /\ Rank("note") = 5
  /\ \A i \in 1 .. 3 : AnswerPiece[i] # "openSearch" /\ Rank(AnswerPiece[i]) = i
  /\ \A piece \in Pieces : Rank(piece) \in 0 .. 5
<1>1. DOMAIN AnswerPiece = 1 .. 3 /\ AnswerPiece[1] = "answer1" /\ AnswerPiece[2] = "answer2" /\ AnswerPiece[3] = "answer3"
  BY DEF AnswerPiece
<1>2. ToSet(AnswerPiece) = {"answer1", "answer2", "answer3"}
  BY <1>1 DEF ToSet
<1>3. Rank("prose") = 0 /\ Rank("again") = 0 /\ Rank("noted") = 0 /\ Rank("recalled") = 4 /\ Rank("note") = 5
  BY <1>2 DEF Rank
<1>4. ASSUME NEW i \in 1 .. 3
      PROVE  AnswerPiece[i] # "openSearch" /\ Rank(AnswerPiece[i]) = i
  <2>1. i = 1 \/ i = 2 \/ i = 3
    OBVIOUS
  <2>2. AnswerPiece[i] \in ToSet(AnswerPiece) /\ AnswerPiece[i] # "openSearch"
    BY <1>1, <1>2, <2>1
  <2>3. \A k \in DOMAIN AnswerPiece : AnswerPiece[k] = AnswerPiece[i] => k = i
    BY <1>1, <2>1
  <2>4. (CHOOSE k \in DOMAIN AnswerPiece : AnswerPiece[k] = AnswerPiece[i]) = i
    BY <1>1, <2>3
  <2>5. QED
    BY <2>2, <2>4 DEF Rank
<1>5. \A piece \in Pieces : Rank(piece) \in 0 .. 5
  <2> SUFFICES ASSUME NEW piece \in Pieces PROVE Rank(piece) \in 0 .. 5
    OBVIOUS
  <2>1. CASE piece \in ToSet(AnswerPiece)
    <3>1. \E i \in 1 .. 3 : piece = AnswerPiece[i]
      BY <1>1, <1>2, <2>1
    <3>2. QED
      BY <1>4, <3>1
  <2>2. CASE piece \notin ToSet(AnswerPiece)
    BY <2>2 DEF Rank
  <2>3. QED
    BY <2>1, <2>2
<1>6. QED
  BY <1>3, <1>4, <1>5

(* What an answer itself says is in order: all of it has rank 0.              *)
LEMMA SaidInOrder ==
  ASSUME NEW text \in Seq(Said)
  PROVE  InOrder(text) /\ Between(text, 0, 0)
<1>1. \A i \in DOMAIN text : text[i] # "openSearch" => Rank(text[i]) = 0
  BY Ranks DEF Said, Words
<1>2. QED
  BY <1>1 DEF InOrder, Between

(* A text of at most two pieces, the second of which is half a directive.     *)
LEMMA ShortInOrder ==
  ASSUME NEW piece \in Pieces, NEW n \in Nat, piece # "openSearch" => Rank(piece) = n,
         NEW text \in {<<>>, <<piece>>, <<piece, "openSearch">>}
  PROVE  InOrder(text) /\ Between(text, n, n)
<1>1. \A i \in DOMAIN text : text[i] # "openSearch" => text[i] = piece
  OBVIOUS
<1>2. QED
  BY <1>1 DEF InOrder, Between

(* What ranks above what has been said goes on in order.                      *)
LEMMA JoinsInOrder ==
  ASSUME NEW said \in Seq(Pieces), NEW text \in Seq(Pieces),
         NEW low \in Nat, NEW from \in Nat, NEW high \in Nat, low <= from, from <= high,
         InOrder(said), Between(said, 0, low), InOrder(text), Between(text, from, high)
  PROVE  InOrder(said \o text) /\ Between(said \o text, 0, high)
<1> DEFINE s == said \o text
           n == Len(said)
<1>1. /\ n \in Nat /\ Len(text) \in Nat /\ DOMAIN s = 1 .. n + Len(text)
      /\ DOMAIN said = 1 .. n /\ DOMAIN text = 1 .. Len(text)
      /\ \A i \in 1 .. n : s[i] = said[i]
      /\ \A i \in DOMAIN s : ~(i <= n) => i - n \in DOMAIN text /\ s[i] = text[i - n]
  OBVIOUS
<1>2. \A i \in DOMAIN s : s[i] \in Pieces
  OBVIOUS
<1>3. \A i \in DOMAIN s : Rank(s[i]) \in Int
  BY <1>2, Ranks
<1> HIDE DEF s, n
<1>4. ASSUME NEW i \in DOMAIN s, s[i] # "openSearch"
      PROVE  /\ i <= n => 0 <= Rank(s[i]) /\ Rank(s[i]) <= low
             /\ ~(i <= n) => from <= Rank(s[i]) /\ Rank(s[i]) <= high
  BY <1>1, <1>4 DEF Between
<1>5. Between(s, 0, high)
  BY <1>1, <1>3, <1>4 DEF Between
<1>6. InOrder(s)
  <2> SUFFICES ASSUME NEW i \in DOMAIN s, NEW j \in DOMAIN s, i < j, s[i] # "openSearch", s[j] # "openSearch"
               PROVE  Rank(s[i]) <= Rank(s[j])
    BY DEF InOrder
  <2>1. CASE j <= n
    BY <1>1, <2>1 DEF InOrder
  <2>2. CASE ~(i <= n)
    <3>1. /\ i - n \in DOMAIN text /\ s[i] = text[i - n] /\ j - n \in DOMAIN text /\ s[j] = text[j - n]
          /\ i - n < j - n
      BY <1>1, <2>2
    <3>2. QED
      BY <3>1 DEF InOrder
  <2>3. CASE i <= n /\ ~(j <= n)
    BY <1>3, <1>4, <2>3
  <2>4. QED
    BY <1>1, <2>1, <2>2, <2>3
<1>7. QED
  BY <1>5, <1>6 DEF s

LEMMA WiderBetween ==
  ASSUME NEW text \in Seq(Pieces), NEW n \in Nat, NEW m \in Nat, n <= m, Between(text, 0, n)
  PROVE  Between(text, 0, m)
<1>1. \A i \in DOMAIN text : Rank(text[i]) \in Int
  BY Ranks
<1>2. QED
  BY <1>1 DEF Between

LEMMA OrderStep ==
  ASSUME OrderInv, [Next]_vars
  PROVE  SaysInOrder'
<1>t. /\ turn \in Turn /\ turn.at \in Stage /\ turn.out \in Seq(Item) /\ heard \in Seq(Pieces)
      /\ turn.found \in Seq(Seq(Pieces)) /\ turn.parts \in Seq(Pieces)
  BY Types DEF OrderInv, HistoryInv, TypedInv
<1>i. SaysInOrder /\ ReplyIsHeard
  BY DEF OrderInv, HistoryInv
<1>n. SearchCount(turn.out) \in Nat /\ SearchCount(turn.out) <= 3
  <2>1. turn.out \in Seq(Item)
    BY <1>t
  <2>2. SearchCount(turn.out) \in 0 .. MaxSearches
    BY <2>1, SearchesOf
  <2>3. QED
    BY <2>2 DEF MaxSearches
<1>e. InOrder(<<>>) /\ Between(<<>>, 0, 0)
  BY DEF InOrder, Between
<1>1. CASE Unheard
  <2>1. CASE turn.at # "searching"
    <3>1. heard' = heard /\ turn'.at \notin {"searching", "telling", "recalling", "noting"}
      BY <1>t, <1>1, <2>1, UnheardSteps DEF Planning
    <3>2. QED
      BY <1>i, <3>1 DEF SaysInOrder
  <2>2. CASE SearchesDone
    <3>1. /\ turn.at = "searching" /\ turn'.at = "telling" /\ turn'.out = turn.out
          /\ turn'.found = turn.found /\ heard' = heard
      BY <1>t, <2>2 DEF SearchesDone, Turn
    <3>2. SearchCount(turn.out) - Len(turn.found) = 0
      BY <1>n, <1>i, <3>1 DEF SaysInOrder
    <3>3. QED
      BY <1>n, <1>i, <3>1, <3>2 DEF SaysInOrder
  <2>3. CASE \E i \in 1 .. MaxSearches : SearchAnswers(i)
    <3>0. PICK i \in 1 .. MaxSearches : SearchAnswers(i)
      BY <2>3
    <3>1. PICK text \in {<<>>, <<AnswerPiece[i]>>} :
            /\ turn.at = "searching" /\ heard' = heard
            /\ turn' = [turn EXCEPT !.pending = @ \ {i}, !.found[i] = text]
      BY <3>0 DEF SearchAnswers
    <3>2. /\ turn'.at = "searching" /\ turn'.out = turn.out
          /\ turn'.found = [turn.found EXCEPT ![i] = text]
      BY <1>t, <3>1 DEF Turn
    <3>3. Len(turn'.found) = Len(turn.found) /\ DOMAIN turn'.found = DOMAIN turn.found
      BY <1>t, <3>2
    <3>4. AnswersFrom(turn'.found, 0)
      <4> SUFFICES ASSUME NEW k \in DOMAIN turn.found PROVE turn'.found[k] \in {<<>>, <<AnswerPiece[0 + k]>>}
        BY <3>3 DEF AnswersFrom
      <4>1. k \in Nat /\ 0 + k = k
        BY <1>t
      <4>2. turn.found[k] \in {<<>>, <<AnswerPiece[0 + k]>>}
        BY <1>i, <3>1 DEF SaysInOrder, AnswersFrom
      <4>3. QED
        BY <1>t, <3>1, <3>2, <4>1, <4>2
    <3>5. QED
      BY <1>i, <3>1, <3>2, <3>3, <3>4 DEF SaysInOrder
  <2>4. QED
    BY <1>1, <2>1, <2>2, <2>3 DEF Unheard, Begin, SessionReady, ContextRead, UserRowStored, Plans, StopsTask,
       AnswersTask, ExecutesProfile, NextStage, SpawnStarts, SpawnStored, SpawnsDone
<1>2. CASE AnswersDirectly
  <2>1. InOrder(heard')
    <3>1. heard' = heard \/ \E out \in Outputs : heard' = Strip(out)
      BY <1>2 DEF AnswersDirectly
    <3>2. \A out \in Outputs : InOrder(Strip(out))
      BY OutputsAssumption, TextsOf, SaidInOrder
    <3>3. QED
      BY <1>i, <3>1, <3>2 DEF SaysInOrder
  <2>2. turn'.at \in {"asking_again", "storing"}
    BY <1>2, <1>t DEF AnswersDirectly, Turn
  <2>3. QED
    BY <2>1, <2>2 DEF SaysInOrder
<1>3. CASE SpeaksOpener
  <2> DEFINE text == IF HasToolWork THEN Opener ELSE <<>>
             n == SearchCount(turn.out)
             found == [i \in 1 .. n |-> <<>>]
  <2>1. /\ turn.at = "opening" /\ heard' = heard \o text
        /\ turn' = [turn EXCEPT !.at = AfterOpener, !.parts = text, !.pending = 1 .. n, !.found = found]
    BY <1>3 DEF SpeaksOpener, Emits
  <2>2. text \in Seq(Said) /\ text \in Seq(Pieces)
    <3>1. <<>> \in Seq(Said) /\ <<>> \in Seq(Pieces)
      OBVIOUS
    <3>2. QED
      BY <1>t, <3>1, OpenerIsSaid
  <2>3. Len(found) = n /\ AnswersFrom(found, 0)
    BY <1>n DEF AnswersFrom
  <2> HIDE DEF text, n, found
  <2>4. turn'.at = AfterOpener /\ turn'.out = turn.out /\ turn'.found = found
    BY <1>t, <2>1 DEF Turn
  <2>5. heard' = text
    <3>1. heard = <<>>
      BY <1>i, <2>1 DEF ReplyIsHeard, Silent
    <3>2. QED
      BY <2>1, <2>2, <3>1
  <2>6. InOrder(heard') /\ Between(heard', 0, 0) /\ Between(heard', 0, 3) /\ Between(heard', 0, 4)
    BY <2>2, <2>5, SaidInOrder, WiderBetween
  <2>7. AfterOpener \in {"searching", "recalling", "noting"}
    BY DEF AfterOpener
  <2>8. QED
    BY <2>3, <2>4, <2>6, <2>7 DEF SaysInOrder, n
<1>4. CASE Tells
  <2> DEFINE n == SearchCount(turn.out)
             k == n - Len(turn.found)
  <2>1. turn.at = "telling" /\ k \in Nat /\ n \in Nat /\ n <= 3 /\ Len(turn.found) \in Nat /\ k + Len(turn.found) = n
    <3>1. turn.at = "telling" /\ Len(turn.found) <= n
      BY <1>4, <1>i DEF Tells, SaysInOrder
    <3>2. n \in Nat /\ n <= 3 /\ Len(turn.found) \in Nat
      BY <1>t, <1>n
    <3> HIDE DEF n
    <3>3. QED
      BY <3>1, <3>2
  <2>2. AnswersFrom(turn.found, k) /\ Between(heard, 0, k)
    BY <1>i, <2>1 DEF SaysInOrder
  <2>3. CASE turn.found = <<>>
    <3>1. heard' = heard /\ turn'.at = "noting"
      BY <1>4, <1>t, <2>3 DEF Tells, Turn
    <3>2. Between(heard, 0, 4)
      BY <1>t, <2>1, <2>2, WiderBetween
    <3>3. QED
      BY <1>i, <3>1, <3>2 DEF SaysInOrder
  <2>4. CASE turn.found # <<>>
    <3> DEFINE text == Head(turn.found)
    <3>1. /\ heard' = heard \o text
          /\ turn' = [turn EXCEPT !.found = Tail(turn.found), !.parts = turn.parts \o text]
      BY <1>4, <2>4 DEF Tells, Emits
    <3>2. turn'.at = "telling" /\ turn'.out = turn.out /\ turn'.found = Tail(turn.found)
      BY <1>t, <2>1, <3>1 DEF Turn
    <3>3. /\ Len(turn'.found) = Len(turn.found) - 1 /\ Len(turn.found) >= 1
          /\ text = turn.found[1] /\ 1 \in DOMAIN turn.found /\ text \in Seq(Pieces)
          /\ \A j \in DOMAIN turn'.found :
               j \in Nat /\ j + 1 \in DOMAIN turn.found /\ turn'.found[j] = turn.found[j + 1]
      BY <1>t, <2>4, <3>2
    <3>4. k + 1 \in Nat /\ k + 1 \in 1 .. 3 /\ n - Len(turn'.found) = k + 1 /\ Len(turn'.found) <= n
      <4> DEFINE left == Len(turn.found)
                 rest == Len(turn'.found)
      <4>1. left \in Nat /\ left >= 1 /\ rest = left - 1 /\ k + left = n /\ n \in Nat /\ n <= 3 /\ k \in Nat
        BY <2>1, <3>3
      <4> HIDE DEF k, n, left, rest
      <4>2. k + 1 \in Nat /\ k + 1 \in 1 .. 3 /\ n - rest = k + 1 /\ rest <= n
        BY <4>1
      <4>3. QED
        BY <4>2 DEF rest
    <3>5. text \in {<<>>, <<AnswerPiece[k + 1]>>}
      BY <2>2, <3>3 DEF AnswersFrom
    <3> HIDE DEF text, k
    <3>6. InOrder(text) /\ Between(text, k + 1, k + 1)
      <4>1. AnswerPiece[k + 1] \in Pieces /\ Rank(AnswerPiece[k + 1]) = k + 1
        BY <3>4, PieceFacts, Ranks
      <4>2. QED
        BY <3>4, <3>5, <4>1, ShortInOrder
    <3>7. InOrder(heard') /\ Between(heard', 0, k + 1)
      <4>1. InOrder(heard) /\ k <= k + 1 /\ k \in Nat
        BY <1>i, <2>1 DEF SaysInOrder
      <4>2. QED
        BY <1>t, <2>2, <3>1, <3>3, <3>4, <3>6, <4>1, JoinsInOrder
    <3>8. AnswersFrom(turn'.found, k + 1)
      <4> SUFFICES ASSUME NEW j \in DOMAIN turn'.found
                   PROVE  turn'.found[j] \in {<<>>, <<AnswerPiece[k + 1 + j]>>}
        BY DEF AnswersFrom
      <4>1. turn.found[j + 1] \in {<<>>, <<AnswerPiece[k + (j + 1)]>>}
        BY <2>2, <3>3 DEF AnswersFrom
      <4>2. k + (j + 1) = k + 1 + j
        <5>1. j \in Nat /\ k \in Nat
          BY <2>1, <3>3
        <5>2. QED
          BY <5>1
      <4>3. QED
        BY <3>3, <4>1, <4>2
    <3>9. QED
      BY <3>2, <3>4, <3>7, <3>8 DEF SaysInOrder
  <2>5. QED
    BY <2>3, <2>4
<1>5. CASE Recalls
  <2>1. PICK text \in {<<>>, <<"recalled">>, <<"recalled", "openSearch">>} :
          /\ turn.at = "recalling" /\ heard' = heard \o text
          /\ turn' = [turn EXCEPT !.at = "noting", !.parts = @ \o text]
    BY <1>5 DEF Recalls, Emits
  <2>2. turn'.at = "noting"
    BY <1>t, <2>1 DEF Turn
  <2>3. "recalled" \in Pieces /\ text \in Seq(Pieces)
    <3>1. "recalled" \in Pieces /\ "openSearch" \in Pieces
      BY PieceFacts DEF Said, Words
    <3>2. /\ <<>> \in Seq(Pieces) /\ <<"recalled">> \in Seq(Pieces)
          /\ <<"recalled", "openSearch">> \in Seq(Pieces)
      BY <3>1
    <3>3. QED
      BY <3>1, <3>2
  <2>4. InOrder(text) /\ Between(text, 4, 4)
    BY <2>3, Ranks, ShortInOrder
  <2>5. InOrder(heard) /\ Between(heard, 0, 3)
    BY <1>i, <2>1 DEF SaysInOrder
  <2>6. InOrder(heard \o text) /\ Between(heard \o text, 0, 4)
    BY <1>t, <2>3, <2>4, <2>5, JoinsInOrder
  <2>7. QED
    BY <2>1, <2>2, <2>6 DEF SaysInOrder
<1>6. CASE Notes
  <2>1. PICK text \in {<<>>, <<"note">>} :
          /\ turn.at = "noting" /\ heard' = heard \o text
          /\ turn' = [turn EXCEPT !.at = "speaking", !.parts = @ \o text]
    BY <1>6 DEF Notes, Emits
  <2>2. turn'.at = "speaking"
    BY <1>t, <2>1 DEF Turn
  <2>3. "note" \in Pieces /\ text \in Seq(Pieces)
    <3>1. "note" \in Pieces
      BY PieceFacts
    <3>2. <<>> \in Seq(Pieces) /\ <<"note">> \in Seq(Pieces)
      BY <3>1
    <3>3. QED
      BY <3>1, <3>2
  <2>4. InOrder(text) /\ Between(text, 5, 5)
    BY <2>3, Ranks, ShortInOrder
  <2>5. InOrder(heard) /\ Between(heard, 0, 4)
    BY <1>i, <2>1 DEF SaysInOrder
  <2>6. InOrder(heard \o text)
    BY <1>t, <2>3, <2>4, <2>5, JoinsInOrder
  <2>7. QED
    BY <2>1, <2>2, <2>6 DEF SaysInOrder
<1>7. CASE Speaks
  <2> DEFINE said == IF turn.parts # <<>> THEN turn.parts ELSE Opener
             visible == IF said = <<>> /\ Has(turn.out, "remember") THEN <<"noted">> ELSE said
  <2>1. /\ turn.at = "speaking" /\ turn'.at = "storing"
        /\ heard' = IF heard = <<>> THEN visible ELSE heard
    BY <1>7, <1>t DEF Speaks, Turn
  <2>2. InOrder(<<"noted">>) /\ InOrder(Opener)
    <3>1. "noted" \in Pieces
      BY PieceFacts
    <3>2. InOrder(<<"noted">>)
      BY <3>1, Ranks, ShortInOrder
    <3>3. QED
      BY <1>t, <3>2, OpenerIsSaid, SaidInOrder
  <2>3. heard = <<>> => InOrder(visible)
    <3>1. heard = turn.parts
      BY <1>i, <2>1 DEF ReplyIsHeard
    <3>2. QED
      BY <2>2, <3>1
  <2>4. QED
    BY <1>i, <2>1, <2>3 DEF SaysInOrder
<1>8. CASE ReplyStored \/ Fails
  <2>1. heard' = heard /\ turn'.at \in {"done", "failed"}
    BY <1>8, <1>t DEF ReplyStored, Fails, Turn
  <2>2. QED
    BY <1>i, <2>1 DEF SaysInOrder
<1>9. CASE (\E goal \in Goals : TaskMoves(goal)) \/ UNCHANGED vars
  <2>1. UNCHANGED <<turn, heard>>
    BY <1>9 DEF TaskMoves, vars
  <2>2. QED
    BY <1>i, <2>1 DEF SaysInOrder
<1>10. QED
  BY <1>1, <1>2, <1>3, <1>4, <1>5, <1>6, <1>7, <1>8, <1>9, StepsAre

(* What is spoken is in order: lead-in, one answer per search in the order of *)
(* the searches whichever ends first, what is recalled, the note at the end.  *)
THEOREM SpokenInOrderAlways == Spec => []SpokenInOrder
<1>1. Init => OrderInv
  <2>1. Init => HistoryInv
    BY HistoryInit
  <2>2. Init => SaysInOrder
    BY DEF Init, NewTurn, SaysInOrder, InOrder
  <2>3. QED
    BY <2>1, <2>2 DEF OrderInv
<1>2. OrderInv /\ [Next]_vars => OrderInv'
  BY TypesStep, HistoryStep, OrderStep DEF OrderInv, HistoryInv
<1>3. OrderInv => SpokenInOrder
  BY DEF OrderInv, SaysInOrder, InOrder, SpokenInOrder
<1>4. QED
  BY <1>1, <1>2, <1>3, PTL DEF Spec
===============================================================================
