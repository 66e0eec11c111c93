--------------------------- MODULE SubAgents_proofs ---------------------------
(* Theorems about SubAgents, for any tasks, topics, slots, limits of the      *)
(* board and of the worker, reports and number of runs. What depends on the   *)
(* disturbances or on the reports says so in its hypotheses.                  *)
EXTENDS SubAgents, TLAPS, FiniteSetTheorems, SequenceTheorems, WellFoundedInduction

-----------------------------------------------------------------------------
(* The board                                                                *)

(* No task has two rows in a list.                                           *)
OneRowEach(rows) == \A i, j \in DOMAIN rows : rows[i].id = rows[j].id => i = j

IdsOf(rows) == {row.id : row \in RowsOf(rows)}

LEMMA RowsAreRows ==
  ASSUME NEW rows \in Seq(Row), NEW row \in RowsOf(rows)
  PROVE  row \in Row
  BY DEF RowsOf

LEMMA PlaceOfRow ==
  ASSUME NEW rows, NEW id, Position(rows, id) # {}
  PROVE  Place(rows, id) \in DOMAIN rows /\ rows[Place(rows, id)].id = id
<1>1. Place(rows, id) \in Position(rows, id)
  BY DEF Place
<1>2. QED
  BY <1>1 DEF Position

LEMMA RowsOfAppend ==
  ASSUME NEW rows \in Seq(Row), NEW row \in Row
  PROVE  RowsOf(Append(rows, row)) = RowsOf(rows) \cup {row}
<1> DEFINE new == Append(rows, row)
<1>1. DOMAIN rows = 1 .. Len(rows) /\ DOMAIN new = 1 .. Len(rows) + 1 /\ Len(rows) \in Nat
  BY AppendProperties, LenProperties
<1>2. \A i \in 1 .. Len(rows) : new[i] = rows[i]
  BY AppendProperties
<1>3. new[Len(rows) + 1] = row
  BY AppendProperties
<1>4. QED
  BY <1>1, <1>2, <1>3 DEF RowsOf

LEMMA OneRowEachAppend ==
  ASSUME NEW rows \in Seq(Row), NEW row \in Row, OneRowEach(rows), row.id \notin IdsOf(rows)
  PROVE  OneRowEach(Append(rows, row))
<1> DEFINE new == Append(rows, row)
<1>1. DOMAIN rows = 1 .. Len(rows) /\ DOMAIN new = 1 .. Len(rows) + 1 /\ Len(rows) \in Nat
  BY AppendProperties, LenProperties
<1>2. \A i \in 1 .. Len(rows) : new[i] = rows[i] /\ rows[i].id # row.id
  BY AppendProperties, <1>1 DEF IdsOf, RowsOf
<1>3. new[Len(rows) + 1] = row
  BY AppendProperties
<1>4. QED
  BY <1>1, <1>2, <1>3 DEF OneRowEach

LEMMA RowsOfConcat ==
  ASSUME NEW p \in Seq(Row), NEW q \in Seq(Row)
  PROVE  RowsOf(p \o q) = RowsOf(p) \cup RowsOf(q)
<1>1. /\ DOMAIN p = 1 .. Len(p) /\ DOMAIN q = 1 .. Len(q) /\ Len(p) \in Nat /\ Len(q) \in Nat
      /\ DOMAIN (p \o q) = 1 .. Len(p) + Len(q)
  BY ConcatProperties, LenProperties
<1>2. \A i \in 1 .. Len(p) + Len(q) : (p \o q)[i] = IF i <= Len(p) THEN p[i] ELSE q[i - Len(p)]
  BY ConcatProperties
<1>3. RowsOf(p \o q) \subseteq RowsOf(p) \cup RowsOf(q)
  <2> SUFFICES ASSUME NEW i \in DOMAIN (p \o q)
               PROVE  (p \o q)[i] \in RowsOf(p) \cup RowsOf(q)
    BY DEF RowsOf
  <2>1. CASE i <= Len(p)
    BY <1>1, <1>2, <2>1 DEF RowsOf
  <2>2. CASE ~(i <= Len(p))
    <3>1. i - Len(p) \in DOMAIN q /\ (p \o q)[i] = q[i - Len(p)]
      BY <1>1, <1>2, <2>2
    <3>2. QED
      BY <3>1 DEF RowsOf
  <2>3. QED
    BY <2>1, <2>2
<1>4. RowsOf(p) \subseteq RowsOf(p \o q)
  BY <1>1, <1>2 DEF RowsOf
<1>5. RowsOf(q) \subseteq RowsOf(p \o q)
  <2> SUFFICES ASSUME NEW i \in DOMAIN q PROVE q[i] \in RowsOf(p \o q)
    BY DEF RowsOf
  <2>1. i + Len(p) \in DOMAIN (p \o q) /\ (p \o q)[i + Len(p)] = q[i]
    BY <1>1, <1>2
  <2>2. QED
    BY <2>1 DEF RowsOf
<1>6. QED
  BY <1>3, <1>4, <1>5

LEMMA PartOfRows ==
  ASSUME NEW rows \in Seq(Row), NEW m \in 1 .. Len(rows) + 1, NEW n \in 0 .. Len(rows)
  PROVE  /\ SubSeq(rows, m, n) \in Seq(Row)
         /\ Len(SubSeq(rows, m, n)) = IF m <= n THEN n - m + 1 ELSE 0
         /\ \A i \in 1 .. n - m + 1 : SubSeq(rows, m, n)[i] = rows[m + i - 1]
         /\ RowsOf(SubSeq(rows, m, n)) = {rows[i] : i \in m .. n}
         /\ OneRowEach(rows) => OneRowEach(SubSeq(rows, m, n))
<1> DEFINE part == SubSeq(rows, m, n)
<1>1. Len(rows) \in Nat /\ DOMAIN rows = 1 .. Len(rows) /\ \A i \in m .. n : rows[i] \in Row
  BY LenProperties
<1>2. /\ part \in Seq(Row) /\ Len(part) = IF m <= n THEN n - m + 1 ELSE 0
      /\ \A i \in 1 .. n - m + 1 : part[i] = rows[m + i - 1]
  BY <1>1, SubSeqProperties
<1>3. DOMAIN part = 1 .. n - m + 1
  BY <1>1, <1>2, LenProperties
<1>4. RowsOf(part) = {rows[i] : i \in m .. n}
  <2>1. \A i \in DOMAIN part : part[i] \in {rows[j] : j \in m .. n}
    <3> TAKE i \in DOMAIN part
    <3>1. m + i - 1 \in m .. n /\ part[i] = rows[m + i - 1]
      BY <1>1, <1>2, <1>3
    <3>2. QED
      BY <3>1
  <2>2. \A j \in m .. n : rows[j] \in RowsOf(part)
    <3> TAKE j \in m .. n
    <3>1. j - m + 1 \in DOMAIN part /\ part[j - m + 1] = rows[j]
      BY <1>1, <1>2, <1>3
    <3>2. QED
      BY <3>1 DEF RowsOf
  <2>3. QED
    BY <2>1, <2>2 DEF RowsOf
<1>5. ASSUME OneRowEach(rows) PROVE OneRowEach(part)
  <2> SUFFICES ASSUME NEW i \in DOMAIN part, NEW j \in DOMAIN part, part[i].id = part[j].id
               PROVE  i = j
    BY DEF OneRowEach
  <2>1. m + i - 1 \in DOMAIN rows /\ m + j - 1 \in DOMAIN rows
    BY <1>1, <1>3
  <2>2. rows[m + i - 1].id = rows[m + j - 1].id
    BY <1>2, <1>3
  <2>3. m + i - 1 = m + j - 1
    BY <1>5, <2>1, <2>2 DEF OneRowEach
  <2>4. QED
    BY <1>1, <1>3, <2>3
<1>6. QED
  BY <1>2, <1>4, <1>5

LEMMA LengthAfter ==
  ASSUME NEW n \in Nat, NEW p \in 1 .. n
  PROVE  (IF p + 1 <= n THEN n - (p + 1) + 1 ELSE 0) = n - p
  OBVIOUS

LEMMA WithoutRow ==
  ASSUME NEW rows \in Seq(Row), NEW id
  PROVE  /\ Without(rows, id) \in Seq(Row)
         /\ Len(Without(rows, id)) <= Len(rows)
         /\ RowsOf(Without(rows, id)) \subseteq RowsOf(rows)
         /\ OneRowEach(rows) =>
              /\ OneRowEach(Without(rows, id))
              /\ RowsOf(Without(rows, id)) = {row \in RowsOf(rows) : row.id # id}
<1>1. CASE Position(rows, id) = {}
  <2>1. Without(rows, id) = rows
    BY <1>1 DEF Without
  <2>2. \A row \in RowsOf(rows) : row.id # id
    BY <1>1 DEF RowsOf, Position
  <2>3. Len(rows) \in Nat
    BY LenProperties
  <2>4. QED
    BY <2>1, <2>2, <2>3
<1>2. CASE Position(rows, id) # {}
  <2>1. Len(rows) \in Nat /\ DOMAIN rows = 1 .. Len(rows)
    BY LenProperties
  <2>2. PICK p \in 1 .. Len(rows) : p = Place(rows, id) /\ rows[p].id = id
    BY <1>2, <2>1, PlaceOfRow
  <2> DEFINE left == SubSeq(rows, 1, p - 1)
             right == SubSeq(rows, p + 1, Len(rows))
             rest == left \o right
  <2>3. Without(rows, id) = rest
    BY <1>2, <2>2 DEF Without, RemoveAt
  <2>4. /\ left \in Seq(Row) /\ Len(left) = p - 1
        /\ \A i \in 1 .. p - 1 : left[i] = rows[i]
        /\ RowsOf(left) = {rows[i] : i \in 1 .. p - 1}
    <3>1. 1 \in 1 .. Len(rows) + 1 /\ p - 1 \in 0 .. Len(rows)
      BY <2>1, <2>2
    <3>2. /\ left \in Seq(Row) /\ Len(left) = IF 1 <= p - 1 THEN (p - 1) - 1 + 1 ELSE 0
          /\ \A i \in 1 .. (p - 1) - 1 + 1 : left[i] = rows[1 + i - 1]
          /\ RowsOf(left) = {rows[i] : i \in 1 .. p - 1}
      BY <3>1, PartOfRows
    <3>3. (p - 1) - 1 + 1 = p - 1 /\ \A i \in 1 .. p - 1 : 1 + i - 1 = i
      BY <2>1, <2>2
    <3>4. QED
      BY <2>1, <2>2, <3>2, <3>3
  <2>5. /\ right \in Seq(Row) /\ Len(right) = Len(rows) - p
        /\ \A i \in 1 .. Len(rows) - p : right[i] = rows[p + i]
        /\ RowsOf(right) = {rows[i] : i \in p + 1 .. Len(rows)}
    <3>1. p + 1 \in 1 .. Len(rows) + 1 /\ Len(rows) \in 0 .. Len(rows)
      BY <2>1, <2>2
    <3>2. /\ right \in Seq(Row)
          /\ Len(right) = IF p + 1 <= Len(rows) THEN Len(rows) - (p + 1) + 1 ELSE 0
          /\ \A i \in 1 .. Len(rows) - (p + 1) + 1 : right[i] = rows[(p + 1) + i - 1]
          /\ RowsOf(right) = {rows[i] : i \in p + 1 .. Len(rows)}
      BY <3>1, PartOfRows
    <3>3. Len(rows) - (p + 1) + 1 = Len(rows) - p
      BY <2>1, <2>2
    <3>4. ASSUME NEW i \in 1 .. Len(rows) - p PROVE right[i] = rows[p + i]
      <4>1. (p + 1) + i - 1 = p + i
        BY <2>1, <2>2
      <4>2. QED
        BY <3>2, <3>3, <4>1
    <3>5. Len(right) = Len(rows) - p
      BY <2>1, <3>2, LengthAfter
    <3>6. QED
      BY <3>2, <3>4, <3>5
  <2> HIDE DEF left, right
  <2>6. /\ rest \in Seq(Row) /\ Len(rest) = Len(rows) - 1
        /\ \A i \in 1 .. Len(rows) - 1 :
             rest[i] = IF i <= p - 1 THEN left[i] ELSE right[i - (p - 1)]
    <3>1. Len(left) + Len(right) = Len(rows) - 1
      BY <2>1, <2>2, <2>4, <2>5
    <3>2. /\ rest \in Seq(Row) /\ Len(rest) = Len(left) + Len(right)
          /\ \A i \in 1 .. Len(left) + Len(right) :
               rest[i] = IF i <= Len(left) THEN left[i] ELSE right[i - Len(left)]
      BY <2>4, <2>5, ConcatProperties
    <3>3. QED
      BY <2>4, <3>1, <3>2
  <2>7. RowsOf(rest) = {rows[i] : i \in (1 .. Len(rows)) \ {p}}
    <3>1. RowsOf(rest) = {rows[i] : i \in 1 .. p - 1} \cup {rows[i] : i \in p + 1 .. Len(rows)}
      BY <2>4, <2>5, RowsOfConcat
    <3>2. (1 .. Len(rows)) \ {p} = (1 .. p - 1) \cup (p + 1 .. Len(rows))
      BY <2>1, <2>2
    <3>3. QED
      BY <3>1, <3>2
  <2> HIDE DEF rest
  <2>8. RowsOf(rest) \subseteq RowsOf(rows)
    BY <2>1, <2>7 DEF RowsOf
  <2>9. ASSUME OneRowEach(rows)
        PROVE  OneRowEach(rest) /\ RowsOf(rest) = {row \in RowsOf(rows) : row.id # id}
    <3> DEFINE old(i) == IF i < p THEN i ELSE i + 1
    <3>1. \A i \in DOMAIN rest : rest[i] = rows[old(i)] /\ old(i) \in 1 .. Len(rows)
      <4> TAKE i \in DOMAIN rest
      <4>1. i \in 1 .. Len(rows) - 1
        BY <2>1, <2>6, LenProperties
      <4>2. CASE i < p
        <5>1. i \in 1 .. p - 1 /\ i <= p - 1 /\ old(i) = i /\ i \in 1 .. Len(rows)
          BY <2>1, <4>1, <4>2
        <5>2. rest[i] = left[i]
          BY <2>6, <4>1, <5>1
        <5>3. QED
          BY <2>4, <5>1, <5>2
      <4>3. CASE ~(i < p)
        <5>1. i - (p - 1) \in 1 .. Len(rows) - p /\ p + (i - (p - 1)) = i + 1
          BY <2>1, <2>2, <4>1, <4>3
        <5>2. rest[i] = right[i - (p - 1)]
          <6>1. ~(i <= p - 1)
            BY <4>1, <4>3
          <6>2. QED
            BY <2>6, <4>1, <6>1
        <5>3. rest[i] = rows[i + 1]
          BY <2>5, <5>1, <5>2
        <5>4. old(i) = i + 1 /\ i + 1 \in 1 .. Len(rows)
          BY <2>1, <4>1, <4>3
        <5>5. QED
          BY <5>3, <5>4
      <4>4. QED
        BY <4>2, <4>3
    <3>2. OneRowEach(rest)
      <4> SUFFICES ASSUME NEW i \in DOMAIN rest, NEW j \in DOMAIN rest, rest[i].id = rest[j].id
                   PROVE  i = j
        BY DEF OneRowEach
      <4>1. old(i) = old(j)
        BY <2>1, <2>9, <3>1 DEF OneRowEach
      <4>2. i \in Int /\ j \in Int
        BY <2>6, LenProperties
      <4>3. QED
        BY <2>2, <4>1, <4>2
    <3>3. \A i \in 1 .. Len(rows) : i # p <=> rows[i].id # id
      BY <2>1, <2>2, <2>9 DEF OneRowEach
    <3>4. QED
      BY <2>1, <2>7, <3>2, <3>3 DEF RowsOf
  <2>10. QED
    BY <2>1, <2>3, <2>6, <2>8, <2>9
<1>3. QED
  BY <1>1, <1>2

(* The part of the inductive invariant that is about the lists.               *)
BoardOK == active \in Seq(Row) /\ completed \in Seq(Row) /\ OneRowEach(active)

Others(rows, id) == {row \in RowsOf(rows) : row.id # id}
OwnRows(rows, id) == {row \in RowsOf(rows) : row.id = id}

(* A task that ends leaves the active list; nothing comes into the completed  *)
(* one but its row.                                                          *)
LEMMA FinalizeStep ==
  ASSUME BoardOK, NEW row \in Row, Finalize(row)
  PROVE  /\ BoardOK'
         /\ RowsOf(active') = Others(active, row.id)
         /\ RowsOf(completed') \subseteq {row} \cup RowsOf(completed)
<1> DEFINE rows == <<row>> \o completed
<1>1. <<row>> \in Seq(Row) /\ RowsOf(<<row>>) = {row}
  BY DEF RowsOf
<1>2. rows \in Seq(Row) /\ RowsOf(rows) = {row} \cup RowsOf(completed)
  BY <1>1, ConcatProperties, RowsOfConcat DEF BoardOK
<1>3. active' = Without(active, row.id)
  BY DEF Finalize
<1>4. active' \in Seq(Row) /\ OneRowEach(active') /\ RowsOf(active') = Others(active, row.id)
  BY <1>3, WithoutRow DEF BoardOK, Others
<1>5. completed' \in Seq(Row) /\ RowsOf(completed') \subseteq RowsOf(rows)
  <2>1. CASE Len(rows) > MaxCompleted
    <3>1. completed' = SubSeq(rows, 1, MaxCompleted)
      BY <2>1 DEF Finalize
    <3>2. Len(rows) \in Nat /\ DOMAIN rows = 1 .. Len(rows)
      BY <1>2, LenProperties
    <3>3. 1 \in 1 .. Len(rows) + 1 /\ MaxCompleted \in 0 .. Len(rows)
      BY <2>1, <3>2, BoardAssumption
    <3>4. /\ completed' \in Seq(Row)
          /\ RowsOf(completed') = {rows[i] : i \in 1 .. MaxCompleted}
      BY <1>2, <3>1, <3>3, PartOfRows
    <3>5. \A i \in 1 .. MaxCompleted : i \in DOMAIN rows
      BY <3>2, <3>3
    <3>6. QED
      BY <3>4, <3>5 DEF RowsOf
  <2>2. CASE ~(Len(rows) > MaxCompleted)
    BY <1>2, <2>2 DEF Finalize
  <2>3. QED
    BY <2>1, <2>2
<1>6. QED
  BY <1>2, <1>4, <1>5 DEF BoardOK

(* A task that is registered may push rows of other tasks into the completed  *)
(* list, unless the board has room for it.                                   *)
LEMMA RegisterStep ==
  ASSUME BoardOK, NEW row \in Row, row.id \notin IdsOf(active), Register(row)
  PROVE  /\ BoardOK'
         /\ RowsOf(active') \subseteq RowsOf(active) \cup {row} /\ row \in RowsOf(active')
         /\ IdsOf(completed') \subseteq IdsOf(completed) \cup IdsOf(active) \cup {row.id}
         /\ Len(active) < MaxActive => active' = Append(active, row) /\ completed' = completed
<1> DEFINE rows == Append(active, row)
           excess == IF Len(rows) > MaxActive THEN Len(rows) - MaxActive ELSE 0
           Dropped(i) == [rows[excess + 1 - i] EXCEPT !.status = "error"]
           dropped == [i \in 1 .. excess |-> Dropped(i)]
<1>1. rows \in Seq(Row) /\ RowsOf(rows) = RowsOf(active) \cup {row} /\ OneRowEach(rows)
  BY AppendProperties, RowsOfAppend, OneRowEachAppend DEF BoardOK
<1>2. Len(rows) = Len(active) + 1 /\ Len(active) \in Nat /\ DOMAIN rows = 1 .. Len(rows)
  BY AppendProperties, LenProperties DEF BoardOK
<1>3. active' = SubSeq(rows, excess + 1, Len(rows)) /\ completed' = dropped \o completed
  BY DEF Register
<1>4. excess \in 0 .. Len(rows)
  BY <1>2, BoardAssumption
<1> HIDE DEF rows, excess
<1>5. /\ active' \in Seq(Row) /\ OneRowEach(active')
      /\ RowsOf(active') = {rows[i] : i \in excess + 1 .. Len(rows)}
  <2>1. excess + 1 \in 1 .. Len(rows) + 1 /\ Len(rows) \in 0 .. Len(rows)
    BY <1>2, <1>4
  <2>2. QED
    BY <1>1, <1>3, <2>1, PartOfRows
<1>6. RowsOf(active') \subseteq RowsOf(rows)
  <2>1. \A i \in excess + 1 .. Len(rows) : i \in DOMAIN rows
    BY <1>2, <1>4
  <2>2. QED
    BY <1>5, <2>1 DEF RowsOf
<1>7. \A i \in 1 .. excess : Dropped(i) \in Row /\ Dropped(i).id \in IdsOf(rows)
  <2> TAKE i \in 1 .. excess
  <2>1. excess + 1 - i \in DOMAIN rows
    BY <1>2, <1>4
  <2>2. rows[excess + 1 - i] \in Row /\ rows[excess + 1 - i] \in RowsOf(rows)
    BY <1>1, <1>2, <2>1, ElementOfSeq DEF RowsOf
  <2>3. QED
    BY <2>2 DEF Row, IdsOf, Statuses, Terminal
<1>8. dropped \in Seq(Row) /\ DOMAIN dropped = 1 .. excess
  BY <1>4, <1>7
<1>9. IdsOf(dropped) \subseteq IdsOf(rows)
  <2> SUFFICES ASSUME NEW i \in 1 .. excess PROVE dropped[i].id \in IdsOf(rows)
    BY <1>8 DEF IdsOf, RowsOf
  <2>1. dropped[i] = Dropped(i)
    OBVIOUS
  <2>2. QED
    BY <1>7, <2>1
<1>10. completed' \in Seq(Row) /\ IdsOf(completed') \subseteq IdsOf(completed) \cup IdsOf(rows)
  <2>1. completed' \in Seq(Row) /\ RowsOf(completed') = RowsOf(dropped) \cup RowsOf(completed)
    BY <1>3, <1>8, ConcatProperties, RowsOfConcat DEF BoardOK
  <2>2. QED
    BY <1>9, <2>1 DEF IdsOf
<1>11. IdsOf(rows) = IdsOf(active) \cup {row.id}
  BY <1>1 DEF IdsOf
<1>12. ASSUME Len(active) < MaxActive PROVE active' = rows /\ completed' = completed
  <2>1. excess = 0
    BY <1>2, <1>12, BoardAssumption DEF excess
  <2>2. active' = rows
    BY <1>1, <1>3, <2>1, SubSeqFull
  <2>3. dropped = <<>>
    BY <1>8, <2>1, LenProperties
  <2>4. QED
    BY <1>3, <2>2, <2>3, ConcatEmptySeq DEF BoardOK
<1>13. row \in RowsOf(active')
  <2>1. Len(rows) \in excess + 1 .. Len(rows)
    BY <1>2, BoardAssumption DEF excess
  <2>2. rows[Len(rows)] = row
    BY AppendProperties DEF BoardOK, rows
  <2>3. QED
    BY <1>5, <2>1, <2>2
<1>14. QED
  BY <1>1, <1>5, <1>6, <1>10, <1>11, <1>12, <1>13 DEF BoardOK, rows

LEMMA NewActiveRow ==
  ASSUME BoardOK, NEW row \in Row, row.id \notin IdsOf(active)
  PROVE  /\ Append(active, row) \in Seq(Row) /\ OneRowEach(Append(active, row))
         /\ RowsOf(Append(active, row)) = Others(active, row.id) \cup {row}
  BY AppendProperties, RowsOfAppend, OneRowEachAppend DEF BoardOK, Others, IdsOf

LEMMA ReplacedRow ==
  ASSUME BoardOK, NEW row \in Row, Position(active, row.id) # {}
  PROVE  LET rows == [active EXCEPT ![Place(active, row.id)] = row]
         IN  /\ rows \in Seq(Row) /\ OneRowEach(rows)
             /\ RowsOf(rows) = Others(active, row.id) \cup {row}
<1>1. Len(active) \in Nat /\ DOMAIN active = 1 .. Len(active) /\ active \in Seq(Row)
  BY LenProperties DEF BoardOK
<1>2. PICK p \in 1 .. Len(active) : p = Place(active, row.id) /\ active[p].id = row.id
  BY <1>1, PlaceOfRow
<1> DEFINE rows == [active EXCEPT ![p] = row]
<1>3. /\ rows \in Seq(Row) /\ DOMAIN rows = 1 .. Len(active)
      /\ \A j \in 1 .. Len(active) : rows[j] = IF j = p THEN row ELSE active[j]
  BY <1>1, ExceptSeq, LenProperties
<1> HIDE DEF rows
<1>4. \A j \in 1 .. Len(active) : j # p <=> active[j].id # row.id
  BY <1>1, <1>2 DEF BoardOK, OneRowEach
<1>5. OneRowEach(rows)
  BY <1>1, <1>2, <1>3, <1>4 DEF BoardOK, OneRowEach
<1>6. RowsOf(rows) \subseteq Others(active, row.id) \cup {row}
  BY <1>1, <1>3, <1>4 DEF Others, RowsOf
<1>7. Others(active, row.id) \subseteq RowsOf(rows)
  BY <1>1, <1>3, <1>4 DEF Others, RowsOf
<1>8. row \in RowsOf(rows)
  BY <1>2, <1>3 DEF RowsOf
<1>9. QED
  BY <1>2, <1>3, <1>5, <1>6, <1>7, <1>8 DEF rows

(* A report changes the row of its task only, which leaves the active list    *)
(* with a terminal report.                                                   *)
Finalizes(kind) == kind \in {"DONE", "ERROR", "ERROR_USER"}

LEMMA UpsertStep ==
  ASSUME BoardOK, NEW id \in Ids, NEW kind \in Kinds, Upsert(id, kind)
  PROVE  \E topic \in Topics \cup {Unknown} :
           LET row == [id |-> id, topic |-> topic, status |-> StatusAfter(kind)]
           IN  /\ row \in Row /\ BoardOK'
               /\ \A q \in RowsOf(active) : q.id = id => q.topic = topic
               /\ RowsOf(active') = Others(active, id) \cup (IF Finalizes(kind) THEN {} ELSE {row})
               /\ RowsOf(completed') \subseteq RowsOf(completed) \cup {row}
               /\ Finalizes(kind) => Finalize(row)
               /\ ~Finalizes(kind) => UNCHANGED completed
<1> DEFINE known == Position(active, id)
           topic == IF known = {} THEN Unknown ELSE active[Place(active, id)].topic
           row == [id |-> id, topic |-> topic, status |-> StatusAfter(kind)]
<1>1. /\ topic \in Topics \cup {Unknown}
      /\ \A q \in RowsOf(active) : q.id = id => q.topic = topic
  <2>1. CASE known = {}
    BY <2>1 DEF Position, RowsOf
  <2>2. CASE known # {}
    <3>1. Place(active, id) \in DOMAIN active /\ active[Place(active, id)].id = id
      BY <2>2, PlaceOfRow
    <3>2. active[Place(active, id)] \in Row
      BY <3>1, ElementOfSeq, LenProperties DEF BoardOK
    <3>3. QED
      BY <2>2, <3>1, <3>2 DEF BoardOK, OneRowEach, RowsOf, Row
  <2>3. QED
    BY <2>1, <2>2
<1>2. StatusAfter(kind) \in Statuses
  BY DEF Kinds, StatusAfter, Statuses, Terminal
<1>3. row \in Row /\ row.id = id
  BY <1>1, <1>2 DEF Row
<1>4. CASE Finalizes(kind)
  <2>1. Finalize(row)
    BY <1>4 DEF Upsert, Finalizes
  <2>2. QED
    BY <1>1, <1>3, <1>4, <2>1, FinalizeStep
<1>5. CASE ~Finalizes(kind)
  <2>1. /\ active' = IF known = {} THEN Append(active, row)
                     ELSE [active EXCEPT ![Place(active, id)] = row]
        /\ UNCHANGED completed
    BY <1>5 DEF Upsert, Finalizes
  <2>2. active' \in Seq(Row) /\ OneRowEach(active') /\ RowsOf(active') = Others(active, id) \cup {row}
    <3>1. CASE known = {}
      <4>1. id \notin IdsOf(active)
        BY <3>1 DEF IdsOf, RowsOf, Position
      <4>2. QED
        BY <1>3, <2>1, <3>1, <4>1, NewActiveRow
    <3>2. CASE known # {}
      BY <1>3, <2>1, <3>2, ReplacedRow
    <3>3. QED
      BY <3>1, <3>2
  <2>3. QED
    BY <1>1, <1>3, <1>5, <2>1, <2>2 DEF BoardOK
<1>6. QED
  BY <1>4, <1>5

LEMMA MarkCancelledStep ==
  ASSUME BoardOK, NEW id \in Ids, MarkCancelled(id)
  PROVE  /\ BoardOK'
         /\ RowsOf(active') = Others(active, id)
         /\ IdsOf(completed') \subseteq IdsOf(completed) \cup {id}
<1>1. CASE Position(active, id) = {}
  BY <1>1 DEF MarkCancelled, boardVars, BoardOK, Others, RowsOf, Position
<1>2. CASE Position(active, id) # {}
  <2> DEFINE row == [active[Place(active, id)] EXCEPT !.status = "cancelled"]
  <2>1. Place(active, id) \in DOMAIN active /\ active[Place(active, id)].id = id
    BY <1>2, PlaceOfRow
  <2>2. active[Place(active, id)] \in Row
    BY <2>1, ElementOfSeq, LenProperties DEF BoardOK
  <2>3. row \in Row /\ row.id = id
    BY <2>1, <2>2 DEF Row, Statuses, Terminal
  <2>4. Finalize(row)
    BY <1>2 DEF MarkCancelled
  <2>5. QED
    BY <2>3, <2>4, FinalizeStep DEF IdsOf
<1>3. QED
  BY <1>1, <1>2

-----------------------------------------------------------------------------
(* The inductive invariant                                                  *)

(* A run belongs to a task that has been spawned, and so does a row.          *)
RunsOfTasks ==
  \A r \in Runs : run[r].at # "unused" => run[r].id \in Ids /\ spawn[run[r].id].at # "none"

RowsOfTasks == \A id \in IdsOf(active) \cup IdsOf(completed) : spawn[id].at # "none"

(* A slot is recorded for a task one of whose runs is past assign_slot, and   *)
(* the slots that are recorded and those that are free are not more than all. *)
Slotted == {"warming"} \cup InWorker

HeldIsSlotted == \A id \in held : \E r \in Runs : run[r].id = id /\ run[r].at \in Slotted

SlotsCounted == IsFiniteSet(held) /\ free + Cardinality(held) <= SubSlots

(* The parts of TypeOK but for those of BoardOK.                             *)
RunTypes == spawn \in [Ids -> Spawning] /\ run \in [Runs -> Run]
DictTypes ==
  /\ workers \in [Ids -> Runs \cup {NoRun}] /\ workerTasks \in [Ids -> Runs \cup {NoRun}]
  /\ answers \subseteq Ids /\ stopping \in [Ids -> Runs \cup {NoRun}]
SlotTypes == held \subseteq Ids /\ free \in 0 .. SubSlots

RunsOK == RunTypes /\ RunsOfTasks
SlotsOK == SlotTypes /\ SlotsCounted /\ HeldIsSlotted

IInv == BoardOK /\ RowsOfTasks /\ RunsOK /\ DictTypes /\ SlotsOK

LEMMA IInvTypeOK == IInv => TypeOK
  BY DEF IInv, TypeOK, BoardOK, RunsOK, RunTypes, DictTypes, SlotsOK, SlotTypes

LEMMA HeldIsWorkedOn == ASSUME IInv, NEW id \in held PROVE RunsOf(id) # {}
<1>1. PICK r \in Runs : run[r].id = id /\ run[r].at \in Slotted
  BY DEF IInv, SlotsOK, HeldIsSlotted
<1>2. r \in RunsOf(id)
  BY <1>1 DEF RunsOf, Alive, Slotted, InWorker
<1>3. QED
  BY <1>2

LEMMA UnusedType ==
  /\ Unused \in Run /\ Unused.at = "unused" /\ Unused.last = FALSE /\ Unused.cancelled = FALSE
  /\ Unused.double = FALSE
  /\ Unused.reports = <<>> /\ Unused.topic = Unknown
<1>1. <<>> \in Seq(Kinds)
  BY EmptySeq
<1>2. QED
  BY <1>1, RunsAssumption DEF Unused, Run, Stage

LEMMA InitIInv == Init => IInv
<1> SUFFICES ASSUME Init PROVE IInv
  OBVIOUS
<1>1. <<>> \in Seq(Row) /\ DOMAIN <<>> = {}
  BY EmptySeq
<1>2. BoardOK /\ IdsOf(active) = {} /\ IdsOf(completed) = {}
  BY <1>1 DEF Init, BoardOK, OneRowEach, IdsOf, RowsOf
<1>3. RunsOK
  BY UnusedType DEF Init, RunsOK, RunTypes, RunsOfTasks, Spawning
<1>4. DictTypes
  BY DEF Init, DictTypes
<1>5. IsFiniteSet({}) /\ Cardinality({}) = 0
  BY FS_EmptySet
<1>6. SlotsOK
  BY <1>5, RunsAssumption DEF Init, SlotsOK, SlotTypes, SlotsCounted, HeldIsSlotted
<1>7. QED
  BY <1>2, <1>3, <1>4, <1>6 DEF IInv, RowsOfTasks

-----------------------------------------------------------------------------
(* What a step of a run can do                                              *)

(* It changes that run only, which keeps its task; a run that is cancelled    *)
(* stays so until it dies, a dying one can only go, and one that goes may     *)
(* take the entries of its task out of the dictionaries.                     *)
RunChange(r) ==
  /\ Alive(r)
  /\ run' = [run EXCEPT ![r] = run'[r]] /\ run'[r] \in Run
  /\ run'[r].id = run[r].id /\ run'[r].double = run[r].double /\ run'[r].at # "unused"
  /\ run'[r].at = "resumed" => run[r].at = "resumed"
  /\ run'[r].at # "gone" => run'[r].topic = run[r].topic /\ run[r].at # "dying"
  /\ run'[r].cancelled => run[r].cancelled
  /\ run[r].cancelled => run'[r].cancelled \/ run'[r].at \in {"dying", "gone"}
  /\ workerTasks' = IF run'[r].at = "gone" /\ run[r].at \notin {"created", "resumed"}
                      THEN [workerTasks EXCEPT ![run[r].id] = NoRun] ELSE workerTasks
  /\ workers' \in {workers, [workers EXCEPT ![run[r].id] = r], [workers EXCEPT ![run[r].id] = NoRun]}
  /\ answers' \subseteq answers
  /\ UNCHANGED spawn

RunEffect(r) == RunChange(r) /\ UNCHANGED stopping

(* A slot is taken where one is free, and given back when a run that is past  *)
(* that point goes.                                                          *)
TakesSlot(r) ==
  /\ free > 0 /\ free' = free - 1 /\ held' = held \cup {run[r].id}
  /\ run[r].at \notin Slotted /\ run'[r].at \in Slotted

SlotEffect(r) ==
  \/ UNCHANGED slotVars /\ (run[r].at \in Slotted => run'[r].at \in Slotted)
  \/ FreeSlot(run[r].id)
  \/ TakesSlot(r)

(* The board learns of a report, or of a run whose task it has forgotten.     *)
Reported(r) == \E kind \in Kinds : Upsert(run[r].id, kind)
Registers(r) ==
  /\ Found(run[r].id) = {}
  /\ Register([id |-> run[r].id, topic |-> run[r].topic, status |-> "running"])

BoardEffect(r) == UNCHANGED boardVars \/ Reported(r) \/ Registers(r)

Effect(r) == RunEffect(r) /\ SlotEffect(r) /\ BoardEffect(r)

(* An alive run changes some of its fields only.                              *)
LEMMA RunFields ==
  ASSUME RunsOK, NEW r \in Runs
  PROVE  /\ run[r] \in Run
         /\ run[r].at # "unused" => run[r].id \in Ids /\ spawn[run[r].id].at # "none"
  BY DEF RunsOK, RunTypes, RunsOfTasks

LEMMA MovedEffect ==
  ASSUME RunsOK, NEW r \in Runs, NEW at \in Stage \ {"unused", "resumed"}, Alive(r),
         run[r].at # "dying" \/ at = "gone",
         at = "gone" => run[r].at \in {"created", "resumed"},
         Moved(r, at), UNCHANGED <<spawn, dictVars, stopping>>
  PROVE  RunEffect(r) /\ run'[r].at = at
<1>1. run[r] \in Run
  BY RunFields
<1>2. run'[r] = [run[r] EXCEPT !.at = at] /\ run' = [run EXCEPT ![r] = run'[r]]
  BY DEF Moved, RunsOK, RunTypes
<1>3. run'[r] \in Run /\ run'[r].at = at /\ run'[r].id = run[r].id
      /\ run'[r].topic = run[r].topic /\ run'[r].cancelled = run[r].cancelled
      /\ run'[r].double = run[r].double
  BY <1>1, <1>2 DEF Run
<1>4. QED
  BY <1>2, <1>3 DEF RunEffect, RunChange, dictVars

LEMMA LeaveEffect ==
  ASSUME RunsOK, NEW r \in Runs, Alive(r), Leave(r), UNCHANGED <<spawn, answers>>,
         run[r].at \notin {"created", "resumed"}
  PROVE  RunChange(r) /\ run'[r].at = "gone" /\ (UNCHANGED stopping => RunEffect(r))
<1>1. run[r] \in Run
  BY RunFields
<1>2. /\ run'[r] = [Unused EXCEPT !.id = run[r].id, !.told = run[r].told,
                                    !.double = run[r].double, !.at = "gone"]
      /\ run' = [run EXCEPT ![r] = run'[r]]
  BY DEF Leave, RunsOK, RunTypes
<1>3. /\ run'[r] \in Run /\ run'[r].at = "gone" /\ run'[r].id = run[r].id /\ ~run'[r].cancelled
      /\ run'[r].double = run[r].double
  BY <1>1, <1>2, UnusedType DEF Run, Unused, Stage
<1>4. QED
  BY <1>2, <1>3 DEF RunEffect, RunChange, Leave

LEMMA PublishEffect ==
  ASSUME RunsOK, NEW r \in Runs, NEW kind \in Kinds, NEW rest \in Seq(Kinds),
         run[r].at \in InWorker \ {"dying"}, Publish(r, kind, rest)
  PROVE  Effect(r) /\ run'[r].at = "persisting"
<1>1. run[r] \in Run
  BY RunFields
<1>2. /\ run'[r] = [run[r] EXCEPT !.at = "persisting", !.reports = rest, !.last = @ \/ Ends(kind)]
      /\ run' = [run EXCEPT ![r] = run'[r]]
  BY DEF Publish, RunsOK, RunTypes
<1>3. run[r].last \/ Ends(kind) \in BOOLEAN
  BY <1>1 DEF Run, Ends
<1>4. /\ run'[r] \in Run /\ run'[r].at = "persisting" /\ run'[r].id = run[r].id
      /\ run'[r].topic = run[r].topic /\ run'[r].cancelled = run[r].cancelled
      /\ run'[r].double = run[r].double
  BY <1>1, <1>2, <1>3 DEF Run, Stage, InWorker
<1>5. Alive(r)
  BY DEF Alive, InWorker
<1>6. RunEffect(r)
  BY <1>2, <1>4, <1>5 DEF RunEffect, RunChange, Publish, dictVars, InWorker
<1>7. SlotEffect(r) /\ BoardEffect(r)
  BY <1>4 DEF SlotEffect, BoardEffect, Reported, Publish, Slotted, InWorker
<1>8. QED
  BY <1>4, <1>6, <1>7 DEF Effect

LEMMA EnterEffect ==
  ASSUME RunsOK, NEW r \in Runs, NEW told \in BOOLEAN, EnterWorker(r, told),
         run[r].at \in {"warming", "resumed"}
  PROVE  /\ run' = [run EXCEPT ![r] = run'[r]] /\ run'[r] \in Run
         /\ run'[r].at \in {"stepping", "registering"} /\ run'[r].id = run[r].id
         /\ run'[r].topic = run[r].topic /\ run'[r].cancelled = run[r].cancelled
         /\ run'[r].double = run[r].double
         /\ run'[r].last = run[r].last /\ run'[r].reports = run[r].reports
         /\ BoardEffect(r)
         /\ ~Registers(r) => UNCHANGED boardVars
<1>1. run[r] \in Run
  BY RunFields
<1>2. CASE Found(run[r].id) # {}
  <2>1. /\ run'[r] = [run[r] EXCEPT !.at = "stepping", !.told = FALSE]
        /\ run' = [run EXCEPT ![r] = run'[r]] /\ UNCHANGED boardVars
    BY <1>2 DEF EnterWorker, RunsOK, RunTypes
  <2>2. run'[r] \in Run /\ run'[r].at = "stepping" /\ run'[r].id = run[r].id
        /\ run'[r].topic = run[r].topic /\ run'[r].cancelled = run[r].cancelled
        /\ run'[r].double = run[r].double
        /\ run'[r].last = run[r].last /\ run'[r].reports = run[r].reports
    BY <1>1, <2>1 DEF Run, Stage, InWorker
  <2>3. QED
    BY <2>1, <2>2 DEF BoardEffect
<1>3. CASE Found(run[r].id) = {}
  <2>1. /\ run'[r] = [run[r] EXCEPT !.at = "registering", !.told = told]
        /\ run' = [run EXCEPT ![r] = run'[r]] /\ Registers(r)
    BY <1>3 DEF EnterWorker, RunsOK, RunTypes, Registers
  <2>2. run'[r] \in Run /\ run'[r].at = "registering" /\ run'[r].id = run[r].id
        /\ run'[r].topic = run[r].topic /\ run'[r].cancelled = run[r].cancelled
        /\ run'[r].double = run[r].double
        /\ run'[r].last = run[r].last /\ run'[r].reports = run[r].reports
    BY <1>1, <2>1 DEF Run, Stage, InWorker
  <2>3. QED
    BY <2>1, <2>2 DEF BoardEffect
<1>4. QED
  BY <1>2, <1>3

(* Every step of a run has that effect.                                      *)
LEMMA RunStepEffect ==
  ASSUME RunsOK, NEW r \in Runs, RunStep(r)
  PROVE  Effect(r)
<1>1. run[r] \in Run
  BY RunFields
<1>2. CASE GetsSlot(r)
  <2>1. RunEffect(r) /\ run'[r].at = "warming"
    BY <1>2, MovedEffect DEF GetsSlot, Stage, Alive
  <2>2. SlotEffect(r)
    BY <1>2, <2>1 DEF GetsSlot, SlotEffect, TakesSlot, Slotted, InWorker
  <2>3. QED
    BY <1>2, <2>1, <2>2 DEF GetsSlot, Effect, BoardEffect
<1>3. CASE WaitsForSlot(r)
  <2>1. RunEffect(r)
    BY <1>3, MovedEffect DEF WaitsForSlot, Stage, Alive
  <2>2. QED
    BY <1>3, <2>1 DEF WaitsForSlot, Effect, BoardEffect, SlotEffect, Slotted, InWorker
<1>4. CASE BuildFails(r)
  <2>1. RunEffect(r)
    BY <1>4, LeaveEffect DEF BuildFails, Alive
  <2>2. QED
    BY <1>4, <2>1 DEF BuildFails, Effect, BoardEffect, SlotEffect
<1>5. CASE WorkerStarts(r)
  <2>1. run[r].at = "warming" /\ EnterWorker(r, run[r].told \/ run[r].id \in answers)
    BY <1>5 DEF WorkerStarts
  <2>2. (run[r].told \/ run[r].id \in answers) \in BOOLEAN
    BY <1>1 DEF Run
  <2>3. /\ run' = [run EXCEPT ![r] = run'[r]] /\ run'[r] \in Run
        /\ run'[r].at \in {"stepping", "registering"} /\ run'[r].id = run[r].id
        /\ run'[r].topic = run[r].topic /\ run'[r].cancelled = run[r].cancelled
        /\ run'[r].double = run[r].double
        /\ BoardEffect(r)
    BY <2>1, <2>2, EnterEffect
  <2>4. RunEffect(r)
    BY <1>5, <2>3 DEF WorkerStarts, RunEffect, RunChange, Alive
  <2>5. QED
    BY <1>5, <2>3, <2>4 DEF WorkerStarts, Effect, SlotEffect, Slotted, InWorker
<1>6. CASE WorkerResumes(r)
  <2>1. run[r].at = "resumed" /\ EnterWorker(r, run[r].told) /\ run[r].told \in BOOLEAN
    BY <1>1, <1>6 DEF WorkerResumes, Run
  <2>2. /\ run' = [run EXCEPT ![r] = run'[r]] /\ run'[r] \in Run
        /\ run'[r].at \in {"stepping", "registering"} /\ run'[r].id = run[r].id
        /\ run'[r].topic = run[r].topic /\ run'[r].cancelled = run[r].cancelled
        /\ run'[r].double = run[r].double
        /\ BoardEffect(r)
    BY <2>1, EnterEffect
  <2>3. RunEffect(r)
    BY <1>6, <2>2 DEF WorkerResumes, RunEffect, RunChange, Alive, dictVars
  <2>4. QED
    BY <1>6, <2>2, <2>3 DEF WorkerResumes, Effect, SlotEffect, Slotted, InWorker
<1>7. CASE Registered(r)
  <2>1. run'[r] = [run[r] EXCEPT !.at = "stepping", !.told = FALSE] /\ run' = [run EXCEPT ![r] = run'[r]]
    BY <1>7 DEF Registered, RunsOK, RunTypes
  <2>2. /\ run'[r] \in Run /\ run'[r].at = "stepping" /\ run'[r].id = run[r].id
        /\ run'[r].topic = run[r].topic /\ run'[r].cancelled = run[r].cancelled
        /\ run'[r].double = run[r].double
    BY <1>1, <2>1 DEF Run, Stage, InWorker
  <2>3. QED
    BY <1>7, <2>1, <2>2 DEF Registered, Effect, RunEffect, RunChange, SlotEffect, BoardEffect, Alive, dictVars,
                            Slotted, InWorker
<1>8. CASE \E reports \in Outputs : StepReports(r, reports)
  <2>1. PICK reports \in Outputs : StepReports(r, reports)
    BY <1>8
  <2>2. Head(reports) \in Kinds /\ Tail(reports) \in Seq(Kinds)
    BY <2>1, OutputsAssumption, HeadTailProperties DEF StepReports
  <2>3. QED
    BY <2>1, <2>2, PublishEffect DEF StepReports, InWorker
<1>9. CASE StepReportsNothing(r)
  <2>1. RunEffect(r) /\ run'[r].at = "tools"
    BY <1>9, MovedEffect DEF StepReportsNothing, Stage, Alive, InWorker
  <2>2. QED
    BY <1>9, <2>1 DEF StepReportsNothing, Effect, BoardEffect, SlotEffect, Slotted, InWorker
<1>10. CASE NextReport(r)
  <2>1. run[r].reports \in Seq(Kinds) /\ run[r].reports # <<>>
    BY <1>1, <1>10 DEF NextReport, Run
  <2>2. Head(run[r].reports) \in Kinds /\ Tail(run[r].reports) \in Seq(Kinds)
    BY <2>1, HeadTailProperties
  <2>3. QED
    BY <1>10, <2>2, PublishEffect DEF NextReport, InWorker
<1>11. CASE ReportsDone(r)
  <2>1. RunEffect(r) /\ run'[r].at = "tools"
    BY <1>11, MovedEffect DEF ReportsDone, Stage, Alive, InWorker
  <2>2. QED
    BY <1>11, <2>1 DEF ReportsDone, Effect, BoardEffect, SlotEffect, Slotted, InWorker
<1>12. CASE WorkerReturns(r)
  <2>1. RunEffect(r)
    BY <1>12, LeaveEffect DEF WorkerReturns, Finish, Alive
  <2>2. QED
    BY <1>12, <2>1 DEF WorkerReturns, Finish, Effect, BoardEffect, SlotEffect
<1>13. CASE NextStep(r)
  <2>1. /\ run'[r] = [run[r] EXCEPT !.at = "stepping", !.told = FALSE, !.steps = @ + 1]
        /\ run' = [run EXCEPT ![r] = run'[r]]
    BY <1>13 DEF NextStep, RunsOK, RunTypes
  <2>2. run[r].steps + 1 \in 0 .. MaxSteps
    BY <1>1, <1>13, RunsAssumption DEF NextStep, Run
  <2>3. /\ run'[r] \in Run /\ run'[r].at = "stepping" /\ run'[r].id = run[r].id
        /\ run'[r].topic = run[r].topic /\ run'[r].cancelled = run[r].cancelled
        /\ run'[r].double = run[r].double
    BY <1>1, <2>1, <2>2 DEF Run, Stage, InWorker
  <2>4. QED
    BY <1>13, <2>1, <2>3 DEF NextStep, Effect, RunEffect, RunChange, SlotEffect, BoardEffect, Alive, dictVars,
                             Slotted, InWorker
<1>14. CASE StepLimit(r)
  <2>1. "ERROR" \in Kinds /\ <<>> \in Seq(Kinds)
    BY EmptySeq DEF Kinds
  <2>2. QED
    BY <1>14, <2>1, PublishEffect DEF StepLimit, InWorker
<1>15. CASE WorkerFails(r)
  <2>1. run[r].at \in InWorker \ {"dying"}
    BY <1>15 DEF WorkerFails, InWorker
  <2>2. /\ run'[r] = [run[r] EXCEPT !.at = "dying", !.reports = <<>>, !.cancelled = FALSE]
        /\ run' = [run EXCEPT ![r] = run'[r]]
    BY <1>15 DEF WorkerFails, RunsOK, RunTypes
  <2>3. <<>> \in Seq(Kinds)
    BY EmptySeq
  <2>4. /\ run'[r] \in Run /\ run'[r].at = "dying" /\ run'[r].id = run[r].id
        /\ run'[r].topic = run[r].topic /\ ~run'[r].cancelled
        /\ run'[r].double = run[r].double
    BY <1>1, <2>2, <2>3 DEF Run, Stage, InWorker
  <2>5. RunEffect(r)
    BY <1>15, <2>1, <2>2, <2>4 DEF WorkerFails, RunEffect, RunChange, Alive, dictVars, InWorker
  <2>6. SlotEffect(r) /\ BoardEffect(r)
    BY <1>15, <2>4 DEF WorkerFails, SlotEffect, BoardEffect, Reported, Slotted, InWorker, Kinds
  <2>7. QED
    BY <2>5, <2>6 DEF Effect
<1>16. CASE WorkerDies(r)
  <2>1. RunEffect(r)
    BY <1>16, LeaveEffect DEF WorkerDies, Finish, Alive
  <2>2. QED
    BY <1>16, <2>1 DEF WorkerDies, Finish, Effect, BoardEffect, SlotEffect
<1>17. CASE CancelledEarly(r)
  <2>1. CASE run[r].at \in {"created", "resumed"}
    <3>1. Moved(r, "gone") /\ UNCHANGED <<boardVars, spawn, dictVars, stopping, slotVars>>
      BY <1>17, <2>1 DEF CancelledEarly, dictVars
    <3>2. RunEffect(r)
      BY <2>1, <3>1, MovedEffect DEF Stage, Alive
    <3>3. QED
      BY <2>1, <3>1, <3>2 DEF Effect, BoardEffect, SlotEffect, Slotted, InWorker
  <2>2. CASE run[r].at = "assigning"
    <3>1. Leave(r) /\ UNCHANGED <<boardVars, spawn, answers, stopping, slotVars>>
      BY <1>17, <2>2 DEF CancelledEarly
    <3>2. RunEffect(r)
      BY <2>2, <3>1, LeaveEffect DEF Alive
    <3>3. QED
      BY <2>2, <3>1, <3>2 DEF Effect, BoardEffect, SlotEffect, Slotted, InWorker
  <2>3. CASE run[r].at = "warming"
    <3>1. FreeSlot(run[r].id) /\ Leave(r) /\ UNCHANGED <<boardVars, spawn, answers, stopping>>
      BY <1>17, <2>3 DEF CancelledEarly
    <3>2. RunEffect(r)
      BY <2>3, <3>1, LeaveEffect DEF Alive
    <3>3. QED
      BY <3>1, <3>2 DEF Effect, BoardEffect, SlotEffect
  <2>4. QED
    BY <1>17, <2>1, <2>2, <2>3 DEF CancelledEarly
<1>18. QED
  BY <1>2, <1>3, <1>4, <1>5, <1>6, <1>7, <1>8, <1>9, <1>10, <1>11, <1>12, <1>13, <1>14, <1>15,
     <1>16, <1>17 DEF RunStep

-----------------------------------------------------------------------------
(* The inductive invariant is preserved                                     *)

(* A run past assign_slot stays there.                                       *)
StaysSlotted(q) == run[q].at \in Slotted => run'[q].at \in Slotted /\ run'[q].id = run[q].id

LEMMA SlotsKept ==
  ASSUME SlotsOK, UNCHANGED slotVars, \A q \in Runs : StaysSlotted(q)
  PROVE  SlotsOK'
<1>1. SlotTypes' /\ SlotsCounted'
  BY DEF SlotsOK, SlotTypes, SlotsCounted, slotVars
<1>2. HeldIsSlotted'
  BY DEF SlotsOK, HeldIsSlotted, StaysSlotted, slotVars
<1>3. QED
  BY <1>1, <1>2 DEF SlotsOK

LEMMA SlotGivenBack ==
  ASSUME SlotsOK, NEW id, FreeSlot(id), \A q \in Runs : run[q].id # id => StaysSlotted(q)
  PROVE  SlotsOK'
<1>1. HeldIsSlotted'
  BY DEF SlotsOK, HeldIsSlotted, StaysSlotted, FreeSlot
<1>2. SlotTypes' /\ SlotsCounted'
  <2>1. CASE id \in held
    <3>1. /\ IsFiniteSet(held \ {id}) /\ Cardinality(held \ {id}) = Cardinality(held) - 1
          /\ Cardinality(held) \in Nat
      BY <2>1, FS_RemoveElement, FS_CardinalityType DEF SlotsOK, SlotsCounted
    <3>2. free + 1 + Cardinality(held \ {id}) <= SubSlots /\ Cardinality(held \ {id}) \in Nat
      BY <3>1, RunsAssumption, FS_CardinalityType DEF SlotsOK, SlotTypes, SlotsCounted
    <3>3. free' = free + 1 /\ held' = held \ {id}
      BY <2>1 DEF FreeSlot
    <3>4. QED
      BY <3>1, <3>2, <3>3, RunsAssumption DEF SlotsOK, SlotTypes, SlotsCounted
  <2>2. CASE id \notin held
    <3>1. held' = held /\ free' = free
      BY <2>2 DEF FreeSlot
    <3>2. QED
      BY <3>1 DEF SlotsOK, SlotTypes, SlotsCounted
  <2>3. QED
    BY <2>1, <2>2
<1>3. QED
  BY <1>1, <1>2 DEF SlotsOK

LEMMA SlotTaken ==
  ASSUME SlotsOK, NEW r \in Runs, run[r].id \in Ids, run'[r].id = run[r].id, TakesSlot(r),
         \A q \in Runs : StaysSlotted(q)
  PROVE  SlotsOK'
<1> DEFINE id == run[r].id
<1>1. HeldIsSlotted'
  BY DEF SlotsOK, HeldIsSlotted, StaysSlotted, TakesSlot
<1>2. /\ IsFiniteSet(held \cup {id}) /\ Cardinality(held \cup {id}) \in Nat
      /\ Cardinality(held \cup {id}) <= Cardinality(held) + 1 /\ Cardinality(held) \in Nat
  <2>1. IsFiniteSet(held)
    BY DEF SlotsOK, SlotsCounted
  <2>2. QED
    <3>1. /\ IsFiniteSet(held \cup {id})
          /\ Cardinality(held \cup {id}) \in {Cardinality(held), Cardinality(held) + 1}
      BY <2>1, FS_AddElement
    <3>2. Cardinality(held) \in Nat
      BY <2>1, FS_CardinalityType
    <3>3. QED
      BY <3>1, <3>2
<1>3. SlotTypes' /\ SlotsCounted'
  BY <1>2, RunsAssumption DEF SlotsOK, SlotTypes, SlotsCounted, TakesSlot
<1>4. QED
  BY <1>1, <1>3 DEF SlotsOK

(* create_task for a task that has been spawned.                             *)
NewRun(id, topic, at, told) ==
  [Unused EXCEPT !.id = id, !.topic = topic, !.at = at, !.told = told, !.double = RunsOf(id) # {}]

LEMMA CreateRunStep ==
  ASSUME RunsOK, NEW id \in Ids, NEW topic \in Topics \cup {Unknown},
         NEW at \in {"created", "resumed"}, NEW told \in BOOLEAN,
         CreateRun(id, topic, at, told)
  PROVE  \E r \in Runs :
           LET new == NewRun(id, topic, at, told)
           IN  /\ NextRun(r) /\ run[r].at = "unused" /\ new \in Run
               /\ new.double = (RunsOf(id) # {})
               /\ run' = [run EXCEPT ![r] = new]
               /\ new.at = at /\ new.id = id /\ new.topic = topic /\ ~new.cancelled /\ ~new.last
               /\ new.reports = <<>>
               /\ workerTasks' = [workerTasks EXCEPT ![id] = r]
<1>1. PICK r \in Runs :
        /\ NextRun(r)
        /\ run' = [run EXCEPT ![r] = [Unused EXCEPT !.id = id, !.topic = topic, !.at = at,
                                                    !.told = told, !.double = RunsOf(id) # {}]]
        /\ workerTasks' = [workerTasks EXCEPT ![id] = r]
  BY DEF CreateRun
<1> DEFINE new == NewRun(id, topic, at, told)
<1>2. /\ new \in Run /\ new.at = at /\ new.id = id /\ new.topic = topic /\ ~new.cancelled
      /\ ~new.last /\ new.reports = <<>> /\ new.double = (RunsOf(id) # {})
  BY UnusedType DEF Run, Unused, Stage, NewRun
<1>3. QED
  BY <1>1, <1>2 DEF NextRun, NewRun

(* What a step does to the runs when it is not a step of one: nothing, or a   *)
(* new run of a task, or marks on runs that go on.                           *)
OnlyMarked ==
  /\ run' \in [Runs -> Run]
  /\ \A q \in Runs : run'[q].at = run[q].at /\ run'[q].id = run[q].id /\ run'[q].double = run[q].double

LEMMA MarkedSlots ==
  ASSUME OnlyMarked
  PROVE  \A q \in Runs : StaysSlotted(q)
  BY DEF OnlyMarked, StaysSlotted

(* Tasks stay spawned.                                                       *)
StillSpawned ==
  spawn' \in [Ids -> Spawning] /\ \A id \in Ids : spawn[id].at # "none" => spawn'[id].at # "none"

LEMMA MarkedRuns ==
  ASSUME RunsOK, OnlyMarked, StillSpawned
  PROVE  RunsOK'
  BY DEF RunsOK, RunTypes, RunsOfTasks, OnlyMarked, StillSpawned

LEMMA CreatedRuns ==
  ASSUME RunsOK, StillSpawned, NEW id \in Ids, spawn'[id].at # "none",
         NEW topic \in Topics \cup {Unknown}, NEW at \in {"created", "resumed"},
         NEW told \in BOOLEAN, CreateRun(id, topic, at, told)
  PROVE  RunsOK' /\ \A q \in Runs : StaysSlotted(q)
<1> DEFINE new == NewRun(id, topic, at, told)
<1>1. PICK r \in Runs :
        run[r].at = "unused" /\ new \in Run /\ run' = [run EXCEPT ![r] = new]
          /\ new.at = at /\ new.id = id
  BY CreateRunStep
<1> HIDE DEF new
<1>2. RunsOK'
  BY <1>1 DEF RunsOK, RunTypes, RunsOfTasks, StillSpawned
<1>3. \A q \in Runs : StaysSlotted(q)
  BY <1>1 DEF StaysSlotted, Slotted, InWorker, RunsOK, RunTypes
<1>4. QED
  BY <1>2, <1>3

LEMMA ScheduleStep ==
  ASSUME RunsOK, DictTypes, StillSpawned, NEW id \in Ids, spawn'[id].at # "none",
         NEW topic \in Topics \cup {Unknown}, NEW answered \in BOOLEAN,
         Schedule(id, topic, answered), UNCHANGED <<workers, stopping>>
  PROVE  RunsOK' /\ DictTypes' /\ \A q \in Runs : StaysSlotted(q)
<1>1. CASE Pending(id) /\ UNCHANGED <<run, workerTasks>>
  <2>1. OnlyMarked
    BY <1>1 DEF OnlyMarked, RunsOK, RunTypes
  <2>2. answers' \subseteq Ids
    BY <1>1 DEF Schedule, DictTypes
  <2>3. QED
    BY <1>1, <2>1, <2>2, MarkedRuns, MarkedSlots DEF DictTypes
<1>2. CASE CreateRun(id, topic, "created", answered) /\ UNCHANGED answers
  <2>1. RunsOK' /\ \A q \in Runs : StaysSlotted(q)
    BY <1>2, CreatedRuns
  <2>2. PICK r \in Runs : workerTasks' = [workerTasks EXCEPT ![id] = r]
    BY <1>2 DEF CreateRun
  <2>3. QED
    BY <1>2, <2>1, <2>2 DEF DictTypes
<1>3. QED
  BY <1>1, <1>2 DEF Schedule

(* The rows stay rows of tasks.                                              *)
LEMMA RowsStay ==
  ASSUME RowsOfTasks, StillSpawned, NEW id \in Ids, spawn'[id].at # "none",
         active' \in Seq(Row), completed' \in Seq(Row),
         IdsOf(active') \cup IdsOf(completed') \subseteq IdsOf(active) \cup IdsOf(completed) \cup {id}
  PROVE  RowsOfTasks'
<1>1. \A i \in IdsOf(active) \cup IdsOf(completed) : spawn[i].at # "none"
  BY DEF RowsOfTasks
<1>2. IdsOf(active') \subseteq Ids /\ IdsOf(completed') \subseteq Ids
  BY RowsAreRows DEF IdsOf, Row
<1>3. \A i \in IdsOf(active') \cup IdsOf(completed') : spawn'[i].at # "none"
  BY <1>1, <1>2 DEF StillSpawned
<1>4. QED
  BY <1>3 DEF RowsOfTasks, IdsOf, RowsOf

LEMMA LeastOf ==
  ASSUME NEW P, P \subseteq Nat, P # {}
  PROVE  \E j \in P : \A k \in P : j <= k
<1>1. PICK j \in P : \A k \in P : ~(<<k, j>> \in OpToRel(<, Nat))
  BY WFMin, NatLessThanWellFounded
<1>2. ASSUME NEW k \in P PROVE j <= k
  <2>1. k \in Nat /\ j \in Nat
    OBVIOUS
  <2>2. ~(k < j)
    BY <1>1, <2>1 DEF OpToRel
  <2>3. QED
    BY <2>1, <2>2
<1>3. QED
  BY <1>2

LEMMA FoundNothing ==
  ASSUME BoardOK, NEW id, Found(id) = {}
  PROVE  id \notin IdsOf(active) /\ id \notin IdsOf(completed)
<1>1. Position(active, id) = {}
  BY DEF Found
<1>2. id \notin IdsOf(active)
  BY <1>1 DEF Position, IdsOf, RowsOf
<1>3. ASSUME id \in IdsOf(completed) PROVE FALSE
  <2> DEFINE P == Position(completed, id)
  <2>1. P # {} /\ P \subseteq 1 .. Len(completed) /\ Len(completed) \in Nat
    BY <1>3, LenProperties DEF Position, IdsOf, RowsOf, BoardOK
  <2>2. PICK j \in P : \A k \in P : j <= k
    BY <2>1, LeastOf
  <2>3. completed[j] \in Found(id)
    BY <1>1, <2>2 DEF Found
  <2>4. QED
    BY <2>3
<1>4. QED
  BY <1>2, <1>3

LEMMA ChangeIInv ==
  ASSUME IInv, NEW r \in Runs, RunChange(r), SlotEffect(r), BoardEffect(r),
         stopping' \in [Ids -> Runs \cup {NoRun}]
  PROVE  IInv'
<1>1. RunsOK /\ RunChange(r)
  BY DEF IInv
<1>2. run[r].id \in Ids /\ spawn[run[r].id].at # "none" /\ run[r] \in Run
  BY <1>1, RunFields DEF RunChange, Alive
<1>3. StillSpawned
  BY <1>1 DEF StillSpawned, RunChange, RunsOK, RunTypes
<1>4. RunsOK'
  BY <1>1, <1>2 DEF RunChange, RunsOK, RunTypes, RunsOfTasks
<1>5. DictTypes'
  BY <1>1, <1>2 DEF RunChange, DictTypes, IInv
<1>6. \A q \in Runs : q # r => StaysSlotted(q)
  BY <1>1 DEF RunChange, StaysSlotted, RunsOK, RunTypes
<1>7. SlotsOK'
  <2>1. SlotsOK
    BY DEF IInv
  <2>2. CASE UNCHANGED slotVars /\ (run[r].at \in Slotted => run'[r].at \in Slotted)
    <3>1. StaysSlotted(r)
      BY <1>1, <2>2 DEF StaysSlotted, RunChange
    <3>2. QED
      BY <1>6, <2>1, <2>2, <3>1, SlotsKept
  <2>3. CASE FreeSlot(run[r].id)
    BY <1>6, <2>1, <2>3, SlotGivenBack
  <2>4. CASE TakesSlot(r)
    <3>1. run'[r].id = run[r].id
      BY <1>1 DEF RunChange
    <3>2. StaysSlotted(r)
      BY <2>4, <3>1 DEF StaysSlotted, TakesSlot
    <3>3. QED
      BY <1>2, <1>6, <2>1, <2>4, <3>1, <3>2, SlotTaken
  <2>5. QED
    BY <2>2, <2>3, <2>4 DEF SlotEffect
<1>8. BoardOK' /\ RowsOfTasks'
  <2>1. BoardOK /\ RowsOfTasks
    BY DEF IInv
  <2>2. CASE UNCHANGED boardVars
    BY <1>1, <2>1, <2>2 DEF boardVars, BoardOK, RowsOfTasks, RunChange, IdsOf, RowsOf
  <2>3. CASE Reported(r)
    <3>1. PICK kind \in Kinds : Upsert(run[r].id, kind)
      BY <2>3 DEF Reported
    <3>2. PICK topic \in Topics \cup {Unknown} :
            LET row == [id |-> run[r].id, topic |-> topic, status |-> StatusAfter(kind)]
            IN  /\ BoardOK'
                /\ RowsOf(active') \subseteq RowsOf(active) \cup {row}
                /\ RowsOf(completed') \subseteq RowsOf(completed) \cup {row}
      BY <1>2, <2>1, <3>1, UpsertStep DEF Others
    <3>3. IdsOf(active') \cup IdsOf(completed')
            \subseteq IdsOf(active) \cup IdsOf(completed) \cup {run[r].id}
      BY <3>2 DEF IdsOf
    <3>4. active' \in Seq(Row) /\ completed' \in Seq(Row)
      BY <3>2 DEF BoardOK
    <3>5. spawn'[run[r].id].at # "none"
      BY <1>2, <1>3 DEF StillSpawned
    <3>6. RowsOfTasks'
      BY <1>2, <1>3, <2>1, <3>3, <3>4, <3>5, RowsStay
    <3>7. QED
      BY <3>2, <3>6
  <2>4. CASE Registers(r)
    <3> DEFINE row == [id |-> run[r].id, topic |-> run[r].topic, status |-> "running"]
    <3>1. row \in Row /\ row.id = run[r].id /\ row.id \notin IdsOf(active) /\ Register(row)
      BY <1>2, <2>1, <2>4, FoundNothing DEF Registers, Row, Run, Statuses
    <3>2. /\ BoardOK'
          /\ RowsOf(active') \subseteq RowsOf(active) \cup {row}
          /\ IdsOf(completed') \subseteq IdsOf(completed) \cup IdsOf(active) \cup {run[r].id}
      BY <2>1, <3>1, RegisterStep
    <3>3. IdsOf(active') \cup IdsOf(completed')
            \subseteq IdsOf(active) \cup IdsOf(completed) \cup {run[r].id}
      BY <3>2 DEF IdsOf
    <3>4. active' \in Seq(Row) /\ completed' \in Seq(Row)
      BY <3>2 DEF BoardOK
    <3>5. spawn'[run[r].id].at # "none"
      BY <1>2, <1>3 DEF StillSpawned
    <3>6. RowsOfTasks'
      BY <1>2, <1>3, <2>1, <3>3, <3>4, <3>5, RowsStay
    <3>7. QED
      BY <3>2, <3>6
  <2>5. QED
    BY <2>2, <2>3, <2>4 DEF BoardEffect
<1>9. QED
  BY <1>4, <1>5, <1>7, <1>8 DEF IInv

LEMMA RunStepIInv ==
  ASSUME IInv, NEW r \in Runs, RunStep(r)
  PROVE  IInv'
<1>1. Effect(r)
  BY RunStepEffect DEF IInv
<1>2. stopping' \in [Ids -> Runs \cup {NoRun}]
  BY <1>1 DEF Effect, RunEffect, IInv, DictTypes
<1>3. QED
  BY <1>1, <1>2, ChangeIInv DEF Effect, RunEffect

(* A cancel_task that comes back with an exception takes the run with it.     *)
LEMMA StopFailsEffect ==
  ASSUME IInv, NEW id \in Ids, StopFails(id)
  PROVE  /\ stopping[id] \in Runs
         /\ RunChange(stopping[id]) /\ SlotEffect(stopping[id]) /\ BoardEffect(stopping[id])
         /\ run'[stopping[id]].at = "gone" /\ run[stopping[id]].at = "dying"
         /\ UNCHANGED <<boardVars, answers>>
         /\ stopping' = [stopping EXCEPT ![id] = NoRun]
<1> DEFINE r == stopping[id]
<1>1. r \in Runs /\ run[r].at = "dying" /\ Finish(r) /\ UNCHANGED <<boardVars, spawn, answers>>
      /\ stopping' = [stopping EXCEPT ![id] = NoRun] /\ ~run[r].cancelled
  BY DEF StopFails, IInv, DictTypes
<1> HIDE DEF r
<1>2. RunChange(r) /\ run'[r].at = "gone"
  BY <1>1, LeaveEffect DEF Finish, Alive, IInv
<1>3. SlotEffect(r) /\ BoardEffect(r)
  BY <1>1 DEF Finish, SlotEffect, BoardEffect
<1>4. QED
  BY <1>1, <1>2, <1>3 DEF r

LEMMA StopFailsIInv ==
  ASSUME IInv, NEW id \in Ids, StopFails(id)
  PROVE  IInv'
<1>1. stopping' \in [Ids -> Runs \cup {NoRun}]
  BY StopFailsEffect DEF IInv, DictTypes
<1>2. QED
  BY <1>1, StopFailsEffect, ChangeIInv

LEMMA SpawnIInv ==
  ASSUME IInv, NEW id \in Ids, NEW topic \in Topics, Spawn(id, topic)
  PROVE  IInv'
<1> DEFINE row == [id |-> id, topic |-> topic, status |-> "running"]
<1>1. BoardOK /\ RowsOfTasks /\ RunsOK
  BY DEF IInv
<1>2. StillSpawned /\ spawn'[id].at # "none"
  BY <1>1 DEF Spawn, StillSpawned, RunsOK, RunTypes, Spawning
<1>3. row \in Row /\ row.id = id /\ row.id \notin IdsOf(active) /\ Register(row)
  BY <1>1 DEF Spawn, Row, Statuses, RowsOfTasks
<1>4. /\ BoardOK'
      /\ RowsOf(active') \subseteq RowsOf(active) \cup {row}
      /\ IdsOf(completed') \subseteq IdsOf(completed) \cup IdsOf(active) \cup {id}
  BY <1>1, <1>3, RegisterStep
<1>5. IdsOf(active') \cup IdsOf(completed') \subseteq IdsOf(active) \cup IdsOf(completed) \cup {id}
  BY <1>4 DEF IdsOf
<1>6. active' \in Seq(Row) /\ completed' \in Seq(Row)
  BY <1>4 DEF BoardOK
<1>7. RowsOfTasks'
  BY <1>1, <1>2, <1>5, <1>6, RowsStay
<1>8. OnlyMarked
  BY <1>1 DEF Spawn, OnlyMarked, RunsOK, RunTypes
<1>9. RunsOK' /\ SlotsOK'
  BY <1>1, <1>2, <1>8, MarkedRuns, MarkedSlots, SlotsKept DEF IInv, Spawn
<1>10. DictTypes'
  BY DEF Spawn, dictVars, DictTypes, IInv
<1>11. QED
  BY <1>4, <1>7, <1>9, <1>10 DEF IInv

LEMMA BoardUnchanged ==
  ASSUME BoardOK, RowsOfTasks, UNCHANGED boardVars, StillSpawned
  PROVE  BoardOK' /\ RowsOfTasks'
<1>1. IdsOf(active) \subseteq Ids /\ IdsOf(completed) \subseteq Ids
  BY RowsAreRows DEF IdsOf, Row, BoardOK
<1>2. QED
  BY <1>1 DEF boardVars, BoardOK, RowsOfTasks, StillSpawned, IdsOf, RowsOf

LEMMA SpawnStoresIInv ==
  ASSUME IInv, NEW id \in Ids, SpawnStores(id)
  PROVE  IInv'
<1>1. BoardOK /\ RowsOfTasks /\ RunsOK /\ DictTypes /\ SlotsOK
  BY DEF IInv
<1>2. StillSpawned /\ spawn'[id].at # "none"
  BY <1>1 DEF SpawnStores, StillSpawned, RunsOK, RunTypes, Spawning
<1>3. spawn[id].topic \in Topics \cup {Unknown}
  BY <1>1 DEF RunsOK, RunTypes, Spawning
<1>4. RunsOK' /\ DictTypes' /\ \A q \in Runs : StaysSlotted(q)
  BY <1>1, <1>2, <1>3, ScheduleStep DEF SpawnStores
<1>5. SlotsOK'
  BY <1>1, <1>4, SlotsKept DEF SpawnStores
<1>6. BoardOK' /\ RowsOfTasks'
  BY <1>1, <1>2, BoardUnchanged DEF SpawnStores
<1>7. QED
  BY <1>4, <1>5, <1>6 DEF IInv

LEMMA SpawnAbortsIInv ==
  ASSUME IInv, NEW id \in Ids, SpawnAborts(id)
  PROVE  IInv'
<1>1. BoardOK /\ RowsOfTasks /\ RunsOK /\ DictTypes /\ SlotsOK
  BY DEF IInv
<1>2. StillSpawned /\ OnlyMarked
  BY <1>1 DEF SpawnAborts, StillSpawned, OnlyMarked, RunsOK, RunTypes, Spawning
<1>3. RunsOK' /\ SlotsOK'
  BY <1>1, <1>2, MarkedRuns, MarkedSlots, SlotsKept DEF SpawnAborts
<1>4. DictTypes' /\ BoardOK' /\ RowsOfTasks'
  BY <1>1, <1>2, BoardUnchanged DEF SpawnAborts, dictVars, DictTypes
<1>5. QED
  BY <1>3, <1>4 DEF IInv

LEMMA FoundRows ==
  ASSUME BoardOK, NEW id, NEW row \in Found(id)
  PROVE  /\ row \in Row /\ row.id = id
         /\ row \in RowsOf(active) \/ (row \in RowsOf(completed) /\ id \notin IdsOf(active))
<1>1. DOMAIN active = 1 .. Len(active) /\ DOMAIN completed = 1 .. Len(completed)
  BY LenProperties DEF BoardOK
<1>2. CASE Position(active, id) # {}
  <2>1. PICK i \in Position(active, id) : row = active[i]
    BY <1>2 DEF Found
  <2>2. QED
    BY <1>1, <2>1, ElementOfSeq DEF BoardOK, Position, RowsOf
<1>3. CASE Position(active, id) = {}
  <2>1. PICK i \in Position(completed, id) : row = completed[i]
    BY <1>3 DEF Found
  <2>2. id \notin IdsOf(active)
    BY <1>3 DEF Position, IdsOf, RowsOf
  <2>3. QED
    BY <1>1, <2>1, <2>2, ElementOfSeq DEF BoardOK, Position, RowsOf
<1>4. QED
  BY <1>2, <1>3

(* An answer makes a paused row of the task a running one.                    *)
Woken(row, id) ==
  IF row.id = id /\ row.status = "paused" THEN [row EXCEPT !.status = "running"] ELSE row

LEMMA AnswerBoard ==
  ASSUME BoardOK, NEW id \in Ids, Answer(id)
  PROVE  /\ BoardOK' /\ UNCHANGED completed
         /\ RowsOf(active') = {Woken(row, id) : row \in RowsOf(active)}
         /\ IdsOf(active') = IdsOf(active) /\ Len(active') = Len(active)
         /\ \A row \in Row : Woken(row, id) \in Row /\ Woken(row, id).id = row.id
                             /\ Woken(row, id).topic = row.topic
<1>1. active' = [i \in DOMAIN active |-> Woken(active[i], id)] /\ UNCHANGED completed
  BY DEF Answer, Woken
<1>2. active \in Seq(Row) /\ DOMAIN active = 1 .. Len(active) /\ Len(active) \in Nat
  BY LenProperties DEF BoardOK
<1>3. \A row \in Row : Woken(row, id) \in Row /\ Woken(row, id).id = row.id
                       /\ Woken(row, id).topic = row.topic
  BY DEF Woken, Row, Statuses
<1>4. \A i \in 1 .. Len(active) : active[i] \in Row
  BY <1>2, ElementOfSeq
<1>5. active' \in Seq(Row) /\ DOMAIN active' = 1 .. Len(active) /\ Len(active') = Len(active)
  BY <1>1, <1>2, <1>3, <1>4
<1>6. \A i \in 1 .. Len(active) : active'[i] = Woken(active[i], id) /\ active'[i].id = active[i].id
  BY <1>1, <1>2, <1>3, <1>4
<1>7. OneRowEach(active')
  BY <1>2, <1>5, <1>6 DEF OneRowEach, BoardOK
<1>8. RowsOf(active') = {Woken(row, id) : row \in RowsOf(active)}
  BY <1>2, <1>5, <1>6 DEF RowsOf
<1>9. IdsOf(active') = IdsOf(active)
  BY <1>2, <1>5, <1>6 DEF IdsOf, RowsOf
<1>10. QED
  BY <1>1, <1>3, <1>5, <1>7, <1>8, <1>9 DEF BoardOK

LEMMA AnswerIInv ==
  ASSUME IInv, NEW id \in Ids, Answer(id)
  PROVE  IInv'
<1>1. BoardOK /\ RowsOfTasks /\ RunsOK /\ DictTypes /\ SlotsOK
  BY DEF IInv
<1>2. StillSpawned /\ spawn'[id].at # "none"
  BY <1>1 DEF Answer, StillSpawned, RunsOK, RunTypes
<1>3. BoardOK' /\ RowsOfTasks'
  <2>1. BoardOK' /\ completed' = completed /\ IdsOf(active') = IdsOf(active)
    BY <1>1, AnswerBoard
  <2>2. active' \in Seq(Row) /\ completed' \in Seq(Row)
    BY <2>1 DEF BoardOK
  <2>3. IdsOf(active') \cup IdsOf(completed') \subseteq IdsOf(active) \cup IdsOf(completed) \cup {id}
    BY <2>1
  <2>4. QED
    BY <1>1, <1>2, <2>1, <2>2, <2>3, RowsStay
<1>4. RunsOK' /\ DictTypes' /\ \A q \in Runs : StaysSlotted(q)
  <2> DEFINE w == workers[id]
  <2>1. CASE /\ w # NoRun /\ Pending(id) /\ run' = [run EXCEPT ![w].told = TRUE]
             /\ UNCHANGED <<workerTasks, answers>>
    <3>1. w \in Runs /\ run[w] \in Run
      BY <1>1, <2>1 DEF DictTypes, RunsOK, RunTypes
    <3>2. run' = [run EXCEPT ![w] = [run[w] EXCEPT !.told = TRUE]]
      BY <1>1, <2>1, <3>1 DEF RunsOK, RunTypes
    <3>3. [run[w] EXCEPT !.told = TRUE] \in Run
      BY <3>1 DEF Run
    <3>4. OnlyMarked
      BY <1>1, <3>1, <3>2, <3>3 DEF OnlyMarked, RunsOK, RunTypes, Run
    <3>5. QED
      BY <1>1, <1>2, <2>1, <3>4, MarkedRuns, MarkedSlots DEF Answer, DictTypes
  <2>2. CASE /\ w # NoRun /\ ~Pending(id) /\ CreateRun(id, run[w].topic, "resumed", TRUE)
             /\ UNCHANGED answers
    <3>1. run[w].topic \in Topics \cup {Unknown}
      BY <1>1, <2>2 DEF DictTypes, RunsOK, RunTypes, Run
    <3>2. RunsOK' /\ \A q \in Runs : StaysSlotted(q)
      BY <1>1, <1>2, <2>2, <3>1, CreatedRuns
    <3>3. PICK r \in Runs : workerTasks' = [workerTasks EXCEPT ![id] = r]
      BY <2>2 DEF CreateRun
    <3>4. QED
      BY <1>1, <2>2, <3>2, <3>3 DEF Answer, DictTypes
  <2>3. CASE w = NoRun /\ \E row \in Found(id) : Schedule(id, row.topic, TRUE)
    <3>1. PICK row \in Found(id) : Schedule(id, row.topic, TRUE)
      BY <2>3
    <3>2. row.topic \in Topics \cup {Unknown}
      BY <1>1, FoundRows DEF Row
    <3>3. UNCHANGED <<workers, stopping>>
      BY DEF Answer
    <3>4. QED
      BY <1>1, <1>2, <3>1, <3>2, <3>3, ScheduleStep
  <2>4. QED
    BY <2>1, <2>2, <2>3 DEF Answer
<1>5. SlotsOK'
  BY <1>1, <1>4, SlotsKept DEF Answer
<1>6. QED
  BY <1>3, <1>4, <1>5 DEF IInv

LEMMA MarkCancelledRows ==
  ASSUME BoardOK, RowsOfTasks, StillSpawned, NEW id \in Ids, spawn'[id].at # "none",
         MarkCancelled(id)
  PROVE  BoardOK' /\ RowsOfTasks'
<1>1. /\ BoardOK' /\ RowsOf(active') = Others(active, id)
      /\ IdsOf(completed') \subseteq IdsOf(completed) \cup {id}
  BY MarkCancelledStep
<1>2. IdsOf(active') \subseteq IdsOf(active)
  BY <1>1 DEF IdsOf, Others
<1>3. IdsOf(active') \cup IdsOf(completed') \subseteq IdsOf(active) \cup IdsOf(completed) \cup {id}
  BY <1>1, <1>2
<1>4. QED
  BY <1>1, <1>3, RowsStay DEF BoardOK

LEMMA StopTaskIInv ==
  ASSUME IInv, NEW id \in Ids, StopTask(id)
  PROVE  IInv'
<1>1. BoardOK /\ RowsOfTasks /\ RunsOK /\ DictTypes /\ SlotsOK
  BY DEF IInv
<1>2. StillSpawned /\ spawn'[id].at # "none"
  BY <1>1 DEF StopTask, StillSpawned, RunsOK, RunTypes
<1>3. workers' \in [Ids -> Runs \cup {NoRun}] /\ workerTasks' \in [Ids -> Runs \cup {NoRun}]
      /\ answers' \subseteq Ids
  BY <1>1 DEF StopTask, DictTypes
<1>4. CASE /\ Pending(id)
           /\ run' = [run EXCEPT ![workerTasks[id]].cancelled = TRUE]
           /\ stopping' = [stopping EXCEPT ![id] = workerTasks[id]]
           /\ UNCHANGED <<boardVars, slotVars>>
  <2> DEFINE w == workerTasks[id]
  <2>1. w \in Runs /\ run[w] \in Run
    BY <1>1, <1>4 DEF Pending, DictTypes, RunsOK, RunTypes
  <2>2. [run[w] EXCEPT !.cancelled = TRUE] \in Run
    BY <2>1 DEF Run
  <2>3. OnlyMarked
    BY <1>1, <1>4, <2>1, <2>2 DEF OnlyMarked, RunsOK, RunTypes, Run
  <2>4. RunsOK' /\ SlotsOK'
    BY <1>1, <1>2, <1>4, <2>3, MarkedRuns, MarkedSlots, SlotsKept
  <2>5. DictTypes'
    BY <1>1, <1>3, <1>4, <2>1 DEF DictTypes
  <2>6. BoardOK' /\ RowsOfTasks'
    BY <1>1, <1>2, <1>4, BoardUnchanged
  <2>7. QED
    BY <2>4, <2>5, <2>6 DEF IInv
<1>5. CASE ~Pending(id) /\ FreeSlot(id) /\ MarkCancelled(id) /\ UNCHANGED <<run, stopping>>
  <2>1. OnlyMarked
    BY <1>1, <1>5 DEF OnlyMarked, RunsOK, RunTypes
  <2>2. RunsOK' /\ SlotsOK'
    BY <1>1, <1>2, <1>5, <2>1, MarkedRuns, MarkedSlots, SlotGivenBack
  <2>3. DictTypes'
    BY <1>1, <1>3, <1>5 DEF DictTypes
  <2>4. BoardOK' /\ RowsOfTasks'
    BY <1>1, <1>2, <1>5, MarkCancelledRows
  <2>5. QED
    BY <2>2, <2>3, <2>4 DEF IInv
<1>6. QED
  BY <1>4, <1>5 DEF StopTask

LEMMA StopEndsIInv ==
  ASSUME IInv, NEW id \in Ids, StopEnds(id)
  PROVE  IInv'
<1>1. BoardOK /\ RowsOfTasks /\ RunsOK /\ DictTypes /\ SlotsOK
  BY DEF IInv
<1>2. StillSpawned /\ OnlyMarked
  BY <1>1 DEF StopEnds, StillSpawned, OnlyMarked, RunsOK, RunTypes
<1>3. RunsOK' /\ SlotsOK'
  BY <1>1, <1>2, MarkedRuns, MarkedSlots, SlotGivenBack DEF StopEnds
<1>4. DictTypes'
  BY <1>1 DEF StopEnds, dictVars, DictTypes
<1>5. BoardOK' /\ RowsOfTasks'
  <2>1. MarkCancelled(id) /\ UNCHANGED spawn
    BY DEF StopEnds
  <2>2. CASE spawn[id].at # "none"
    BY <1>1, <1>2, <2>1, <2>2, MarkCancelledRows
  <2>3. CASE spawn[id].at = "none"
    <3>1. Position(active, id) = {}
      BY <1>1, <2>3 DEF RowsOfTasks, IdsOf, RowsOf, Position
    <3>2. UNCHANGED boardVars
      BY <2>1, <3>1 DEF MarkCancelled
    <3>3. QED
      BY <1>1, <1>2, <3>2, BoardUnchanged
  <2>4. QED
    BY <2>2, <2>3
<1>6. QED
  BY <1>3, <1>4, <1>5 DEF IInv

LEMMA NextIInv == IInv /\ [Next]_vars => IInv'
<1> SUFFICES ASSUME IInv, [Next]_vars PROVE IInv'
  OBVIOUS
<1>1. CASE \E r \in Runs : RunStep(r)
  BY <1>1, RunStepIInv
<1>2. CASE \E id \in Ids : (\E topic \in Topics : Spawn(id, topic)) \/ SpawnStep(id)
  BY <1>2, SpawnIInv, SpawnStoresIInv, SpawnAbortsIInv DEF SpawnStep
<1>3. CASE \E id \in Ids : Answer(id) \/ StopTask(id) \/ StopEnds(id) \/ StopFails(id)
  BY <1>3, AnswerIInv, StopTaskIInv, StopEndsIInv, StopFailsIInv
<1>4. CASE UNCHANGED vars
  BY <1>4 DEF vars, IInv, BoardOK, RowsOfTasks, RunsOK, RunTypes, RunsOfTasks, DictTypes, SlotsOK,
              SlotTypes, SlotsCounted, HeldIsSlotted, IdsOf, RowsOf
<1>5. QED
  BY <1>1, <1>2, <1>3, <1>4 DEF Next

THEOREM Inductive == Spec => []IInv
<1>1. QED
  BY InitIInv, NextIInv, PTL DEF Spec

(* Types of the board, the runs, the dictionaries and the slots; in           *)
(* particular assign_slot and free_slot never hand out or get back more slots *)
(* than there are (EnginePool, Supervisor, TaskBoard).                       *)
THEOREM TypesHold == Spec => []TypeOK
<1>1. QED
  BY Inductive, IInvTypeOK, PTL

-----------------------------------------------------------------------------
(* What a step of a run does to the run and to the row of its task, which is  *)
(* more than its effect says.                                                *)

SameReports(r) == run'[r].last = run[r].last /\ run'[r].reports = run[r].reports

(* It goes on with its work without a word to the board ...                   *)
MovesOn(r) ==
  /\ UNCHANGED boardVars /\ SameReports(r)
  /\ run[r].at # "dying" /\ ~(run[r].at = "persisting" /\ run[r].last)
  /\ run'[r].at \notin {"gone", "dying", "registering"}

(* ... or puts its task on the board again ...                                *)
Reenters(r) ==
  /\ Registers(r) /\ SameReports(r)
  /\ run[r].at \in {"warming", "resumed"} /\ run'[r].at = "registering"

(* ... or reports what a model step said ...                                  *)
Says(r, kind, rest) ==
  \/ run[r].at = "stepping" /\ \E reports \in Outputs : /\ reports # <<>> /\ kind = Head(reports)
                                                        /\ rest = Tail(reports)
  \/ run[r].at = "persisting" /\ run[r].reports # <<>> /\ kind = Head(run[r].reports)
       /\ rest = Tail(run[r].reports)
  \/ run[r].at = "tools" /\ kind = "ERROR" /\ rest = <<>>

Reports(r, kind, rest) ==
  /\ Says(r, kind, rest) /\ Upsert(run[r].id, kind)
  /\ run'[r].at = "persisting" /\ run'[r].reports = rest
  /\ run'[r].last = (run[r].last \/ Ends(kind))

(* ... or fails ...                                                          *)
Fails(r) ==
  /\ Upsert(run[r].id, "ERROR")
  /\ run'[r].at = "dying" /\ run'[r].reports = <<>> /\ run'[r].last = run[r].last
  /\ \/ run[r].at \in {"stepping", "tools"}
     \/ run[r].at \in InWorker \ {"dying"} /\ ("db_error" \in Disturbances \/ run[r].cancelled)

(* ... or is over.                                                           *)
Departs(r) ==
  /\ UNCHANGED boardVars
  /\ run'[r].at = "gone"
  /\ run[r].cancelled \/ workers' = [workers EXCEPT ![run[r].id] = NoRun]
  /\ \/ run[r].at = "dying"
     \/ run[r].at = "persisting" /\ run[r].last
     \/ run[r].cancelled
     \/ run[r].at = "warming" /\ (run[r].topic = Unknown \/ "build_error" \in Disturbances)

LEMMA PublishReports ==
  ASSUME RunsOK, NEW r \in Runs, NEW kind, NEW rest, Says(r, kind, rest), Publish(r, kind, rest)
  PROVE  kind \in Kinds /\ rest \in Seq(Kinds) /\ Reports(r, kind, rest)
<1>1. run[r] \in Run
  BY RunFields
<1>2. kind \in Kinds /\ rest \in Seq(Kinds)
  <2>1. CASE run[r].at = "tools" /\ kind = "ERROR" /\ rest = <<>>
    BY <2>1 DEF Kinds
  <2>2. CASE \E reports \in Seq(Kinds) : reports # <<>> /\ kind = Head(reports) /\ rest = Tail(reports)
    BY <2>2, HeadTailProperties
  <2>3. QED
    BY <1>1, <2>1, <2>2, OutputsAssumption DEF Says, Run
<1>3. run'[r] = [run[r] EXCEPT !.at = "persisting", !.reports = rest, !.last = @ \/ Ends(kind)]
  BY DEF Publish, RunsOK, RunTypes
<1>4. run'[r].at = "persisting" /\ run'[r].reports = rest /\ run'[r].last = (run[r].last \/ Ends(kind))
  BY <1>1, <1>3 DEF Run
<1>5. QED
  BY <1>2, <1>4 DEF Reports, Publish

LEMMA RunStepCases ==
  ASSUME RunsOK, NEW r \in Runs, RunStep(r)
  PROVE  \/ MovesOn(r) \/ Reenters(r) \/ Fails(r) \/ Departs(r)
         \/ \E kind \in Kinds, rest \in Seq(Kinds) : Reports(r, kind, rest)
<1>1. run[r] \in Run /\ run \in [Runs -> Run]
  BY RunFields DEF RunsOK, RunTypes
<1>2. ASSUME NEW at \in Stage, run[r].at \in Stage \ {"dying"},
             ~(run[r].at = "persisting" /\ run[r].last), Moved(r, at),
             at \notin {"gone", "dying", "registering"}, UNCHANGED boardVars
      PROVE  MovesOn(r)
  BY <1>1, <1>2 DEF Moved, MovesOn, SameReports, Run
<1>3. CASE GetsSlot(r) \/ WaitsForSlot(r) \/ StepReportsNothing(r)
  BY <1>2, <1>3 DEF GetsSlot, WaitsForSlot, StepReportsNothing, Stage, InWorker
<1>4. CASE Registered(r) \/ NextStep(r)
  BY <1>1, <1>4 DEF Registered, NextStep, MovesOn, SameReports, Run
<1>5. CASE ReportsDone(r)
  BY <1>2, <1>5 DEF ReportsDone, Stage, InWorker
<1>6. CASE BuildFails(r) \/ WorkerReturns(r) \/ WorkerDies(r)
  <2>1. Leave(r) /\ UNCHANGED boardVars
    BY <1>6 DEF BuildFails, WorkerReturns, WorkerDies, Finish
  <2>2. run'[r].at = "gone"
    BY <1>1, <2>1, UnusedType DEF Leave, Unused, Run
  <2>3. QED
    BY <1>6, <2>1, <2>2 DEF BuildFails, WorkerReturns, WorkerDies, Departs, Leave
<1>7. CASE CancelledEarly(r)
  <2>1. CASE Leave(r)
    <3>1. run'[r].at = "gone"
      BY <1>1, <2>1, UnusedType DEF Leave, Unused, Run
    <3>2. QED
      BY <1>7, <3>1 DEF CancelledEarly, Departs
  <2>2. CASE Moved(r, "gone")
    BY <1>1, <1>7, <2>2 DEF CancelledEarly, Departs, Moved
  <2>3. QED
    BY <1>7, <2>1, <2>2 DEF CancelledEarly
<1>8. CASE WorkerStarts(r) \/ WorkerResumes(r)
  <2>1. PICK told \in BOOLEAN : EnterWorker(r, told) /\ run[r].at \in {"warming", "resumed"}
    BY <1>1, <1>8 DEF WorkerStarts, WorkerResumes, Run
  <2>2. SameReports(r)
    BY <1>1, <2>1, EnterEffect DEF SameReports
  <2>3. CASE Found(run[r].id) # {}
    BY <1>1, <2>1, <2>2, <2>3 DEF EnterWorker, MovesOn, Run
  <2>4. CASE Found(run[r].id) = {}
    BY <1>1, <2>1, <2>2, <2>4 DEF EnterWorker, Reenters, Registers, Run
  <2>5. QED
    BY <2>3, <2>4
<1>9. CASE \E reports \in Outputs : StepReports(r, reports)
  <2>1. PICK reports \in Outputs : StepReports(r, reports)
    BY <1>9
  <2>2. Says(r, Head(reports), Tail(reports)) /\ Publish(r, Head(reports), Tail(reports))
    BY <2>1 DEF StepReports, Says
  <2>3. QED
    BY <2>2, PublishReports
<1>10. CASE NextReport(r)
  <2>1. Says(r, Head(run[r].reports), Tail(run[r].reports))
    BY <1>10 DEF NextReport, Says
  <2>2. Publish(r, Head(run[r].reports), Tail(run[r].reports))
    BY <1>10 DEF NextReport
  <2>3. QED
    BY <2>1, <2>2, PublishReports
<1>11. CASE StepLimit(r)
  <2>1. Says(r, "ERROR", <<>>) /\ Publish(r, "ERROR", <<>>)
    BY <1>11 DEF StepLimit, Says
  <2>2. QED
    BY <2>1, PublishReports
<1>12. CASE WorkerFails(r)
  BY <1>1, <1>12 DEF WorkerFails, Fails, InWorker, Run
<1>13. QED
  BY <1>3, <1>4, <1>5, <1>6, <1>7, <1>8, <1>9, <1>10, <1>11, <1>12 DEF RunStep

(* What the theorems that need it ask of the reports of a model step: that    *)
(* the end of the task is the last thing they say.                           *)
EndsAtLast(reports) == \A i \in DOMAIN reports : Ends(reports[i]) => i = Len(reports)
EndsLast == \A reports \in Outputs : EndsAtLast(reports)

LEMMA RestOfReports ==
  ASSUME NEW reports \in Seq(Kinds), reports # <<>>, EndsAtLast(reports)
  PROVE  EndsAtLast(Tail(reports)) /\ (Ends(Head(reports)) => Tail(reports) = <<>>)
<1>1. /\ Len(reports) \in Nat /\ Len(reports) > 0 /\ DOMAIN reports = 1 .. Len(reports)
      /\ Head(reports) = reports[1] /\ Tail(reports) \in Seq(Kinds)
      /\ Len(Tail(reports)) = Len(reports) - 1
      /\ \A i \in 1 .. Len(Tail(reports)) : Tail(reports)[i] = reports[i + 1]
  BY HeadTailProperties, LenProperties, EmptySeq
<1>2. EndsAtLast(Tail(reports))
  <2> SUFFICES ASSUME NEW i \in DOMAIN Tail(reports), Ends(Tail(reports)[i])
               PROVE  i = Len(Tail(reports))
    BY DEF EndsAtLast
  <2>1. i \in 1 .. Len(reports) - 1 /\ i + 1 \in DOMAIN reports /\ Ends(reports[i + 1])
    BY <1>1, LenProperties
  <2>2. i + 1 = Len(reports)
    BY <2>1 DEF EndsAtLast
  <2>3. QED
    BY <1>1, <2>1, <2>2
<1>3. ASSUME Ends(Head(reports)) PROVE Tail(reports) = <<>>
  <2>1. Len(reports) = 1
    BY <1>1, <1>3 DEF EndsAtLast
  <2>2. Len(Tail(reports)) = 0 /\ Tail(reports) \in Seq(Kinds)
    BY <1>1, <2>1
  <2>3. QED
    BY <2>2, EmptySeq
<1>4. QED
  BY <1>2, <1>3

(* A run that has reported the end of its task has nothing more to report.    *)
LastIsLast ==
  \A r \in Runs : Alive(r) /\ run[r].last => run[r].reports = <<>> /\ run[r].at \in {"persisting", "dying"}

ReportsEndLast == \A r \in Runs : Alive(r) => EndsAtLast(run[r].reports)

ReportsOK == LastIsLast /\ ReportsEndLast

(* Nothing is added after the end of a task, and a report that ends it is the *)
(* last one.                                                                 *)
LEMMA SaysLast ==
  ASSUME RunsOK, ReportsOK, EndsLast, NEW r \in Runs, Alive(r), NEW kind, NEW rest, Says(r, kind, rest)
  PROVE  ~run[r].last /\ EndsAtLast(rest) /\ (Ends(kind) => rest = <<>>)
<1>1. run[r] \in Run
  BY RunFields
<1>2. CASE run[r].at = "tools" /\ kind = "ERROR" /\ rest = <<>>
  BY <1>2, EmptySeq DEF EndsAtLast, ReportsOK, LastIsLast
<1>3. CASE \E reports \in Outputs : reports # <<>> /\ kind = Head(reports) /\ rest = Tail(reports)
           /\ run[r].at = "stepping"
  BY <1>3, RestOfReports, OutputsAssumption DEF EndsLast, ReportsOK, LastIsLast
<1>4. CASE /\ run[r].at = "persisting" /\ run[r].reports # <<>> /\ kind = Head(run[r].reports)
           /\ rest = Tail(run[r].reports)
  <2>1. run[r].reports \in Seq(Kinds) /\ EndsAtLast(run[r].reports) /\ ~run[r].last
    BY <1>1, <1>4 DEF Run, ReportsOK, ReportsEndLast, LastIsLast
  <2>2. QED
    BY <1>4, <2>1, RestOfReports
<1>5. QED
  BY <1>2, <1>3, <1>4 DEF Says

LEMMA RunStepReportsOK ==
  ASSUME RunsOK, ReportsOK, EndsLast, NEW r \in Runs, RunStep(r)
  PROVE  ReportsOK'
<1>1. RunEffect(r)
  BY RunStepEffect DEF Effect
<1>2. Alive(r) /\ \A q \in Runs : q # r => run'[q] = run[q]
  BY <1>1 DEF RunEffect, RunChange, RunsOK, RunTypes
<1>3. SUFFICES ASSUME Alive(r)'
               PROVE  /\ run'[r].last => run'[r].reports = <<>> /\ run'[r].at \in {"persisting", "dying"}
                      /\ EndsAtLast(run'[r].reports)
  BY <1>2 DEF ReportsOK, LastIsLast, ReportsEndLast, Alive
<1>4. CASE MovesOn(r) \/ Reenters(r)
  BY <1>2, <1>4 DEF MovesOn, Reenters, SameReports, ReportsOK, LastIsLast, ReportsEndLast
<1>5. CASE Fails(r)
  BY <1>5, EmptySeq DEF Fails, EndsAtLast
<1>6. CASE Departs(r)
  BY <1>3, <1>6 DEF Departs, Alive
<1>7. CASE \E kind \in Kinds, rest \in Seq(Kinds) : Reports(r, kind, rest)
  BY <1>2, <1>7, SaysLast DEF Reports
<1>8. QED
  BY <1>4, <1>5, <1>6, <1>7, RunStepCases

(* The row of a task changes only by what its own runs do.                    *)
LEMMA OtherRows ==
  ASSUME IInv, NEW r \in Runs, RunStep(r), NEW row \in RowsOf(active'), row.id # run[r].id
  PROVE  row \in RowsOf(active)
<1>1. BoardOK /\ RunsOK /\ RowsOfTasks /\ BoardEffect(r) /\ Alive(r)
  BY RunStepEffect DEF IInv, Effect, RunEffect, RunChange
<1>2. run[r] \in Run /\ run[r].id \in Ids
  BY <1>1, RunFields DEF Alive
<1>3. CASE UNCHANGED boardVars
  BY <1>3 DEF boardVars
<1>4. CASE Reported(r)
  <2>1. PICK kind \in Kinds : Upsert(run[r].id, kind)
    BY <1>4 DEF Reported
  <2>2. PICK topic \in Topics \cup {Unknown} :
          LET new == [id |-> run[r].id, topic |-> topic, status |-> StatusAfter(kind)]
          IN  RowsOf(active') = Others(active, run[r].id) \cup (IF Finalizes(kind) THEN {} ELSE {new})
    BY <1>1, <1>2, <2>1, UpsertStep
  <2>3. QED
    BY <2>2 DEF Others
<1>5. CASE Registers(r)
  <2> DEFINE new == [id |-> run[r].id, topic |-> run[r].topic, status |-> "running"]
  <2>1. new \in Row /\ new.id = run[r].id /\ new.id \notin IdsOf(active) /\ Register(new)
    BY <1>1, <1>2, <1>5, FoundNothing DEF Registers, Row, Run, Statuses
  <2>2. RowsOf(active') \subseteq RowsOf(active) \cup {new}
    BY <1>1, <2>1, RegisterStep
  <2>3. QED
    BY <2>1, <2>2
<1>6. QED
  BY <1>1, <1>3, <1>4, <1>5 DEF BoardEffect

(* A report leaves a row of its own in the active list only if it is not a    *)
(* terminal one, with the status that the report gives it.                    *)
LEMMA ReportedRow ==
  ASSUME IInv, NEW r \in Runs, Alive(r), NEW kind \in Kinds, Upsert(run[r].id, kind),
         NEW row \in RowsOf(active'), row.id = run[r].id
  PROVE  ~Finalizes(kind) /\ row.status = StatusAfter(kind)
<1>1. BoardOK /\ run[r].id \in Ids
  BY RunFields DEF IInv, Alive
<1>2. PICK topic \in Topics \cup {Unknown} :
        LET new == [id |-> run[r].id, topic |-> topic, status |-> StatusAfter(kind)]
        IN  RowsOf(active') = Others(active, run[r].id) \cup (IF Finalizes(kind) THEN {} ELSE {new})
  BY <1>1, UpsertStep
<1>3. QED
  BY <1>2 DEF Others
===============================================================================
