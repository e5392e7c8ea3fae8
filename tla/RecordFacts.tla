---------------------------- MODULE RecordFacts ----------------------------
(***************************************************************************)
(* What a change does to a record list and to a store.  The proofs about   *)
(* the update path and about the signatures cite these facts.              *)
(***************************************************************************)
EXTENDS RecordStore, RecursionFacts, SequenceTheorems

-----------------------------------------------------------------------------
(***************************************************************************)
(* The lists.                                                              *)
(***************************************************************************)

\* One turn of the loop that drops a value.
KeptStep(rs, v, f, n) ==
    IF n = 0 THEN << >>
    ELSE IF rs[n].rdata = v THEN f[n - 1]
    ELSE Append(f[n - 1], rs[n])

\* KeptUpTo is the recursion it is written as, and its values are lists.
LEMMA KeptUpToSolves ==
    ASSUME NEW R, NEW rs \in Seq(R), NEW v
    PROVE  /\ KeptUpTo(rs, v) = [n \in 0..Len(rs) |-> KeptStep(rs, v, KeptUpTo(rs, v), n)]
           /\ KeptUpTo(rs, v) \in [0..Len(rs) -> Seq(R)]
<1> DEFINE N == Len(rs)
           Solves(f) == f = [n \in 0..N |-> KeptStep(rs, v, f, n)]
           step == [p \in (1..N) \X Seq(R) |->
                      IF rs[p[1]].rdata = v THEN p[2] ELSE Append(p[2], rs[p[1]])]
<1>0. N \in Nat /\ \A n \in 1..N : rs[n] \in R
  OBVIOUS
<1>1. step \in [(1..N) \X Seq(R) -> Seq(R)]
  OBVIOUS
<1>2. << >> \in Seq(R)
  OBVIOUS
<1>3. PICK g \in [0..N -> Seq(R)] : \A n \in 0..N : g[n] = Fold(<< >>, step, g, n)
  <2>1. N \in Nat /\ step \in StepsOn(N, Seq(R))
    BY <1>0, <1>1 DEF StepsOn
  <2>2. HasSolution(N, Seq(R), << >>, step)
    <3> HIDE DEF N, step
    <3> QED BY <1>2, <2>1, FoldExists
  <2> QED BY <2>2 DEF HasSolution
<1>4. ASSUME NEW n \in 0..N PROVE Fold(<< >>, step, g, n) = KeptStep(rs, v, g, n)
  <2>1. CASE n = 0
    BY <2>1 DEF Fold, KeptStep
  <2>2. CASE n # 0
    <3>1. n \in 1..N /\ n - 1 \in 0..N
      BY <2>2, <1>0
    <3>2. <<n, g[n - 1]>> \in (1..N) \X Seq(R)
      BY <3>1, <1>3
    <3> QED BY <2>2, <3>2 DEF Fold, KeptStep
  <2> QED BY <2>1, <2>2
<1>5. Solves(g)
  <2> HIDE DEF N, step
  <2> QED BY <1>3, <1>4
<1>6. KeptUpTo(rs, v) = CHOOSE f : Solves(f)
  BY DEF KeptUpTo, KeptStep
<1>7. Solves(KeptUpTo(rs, v))
  <2> HIDE DEF Solves
  <2> QED BY <1>5, <1>6
<1>8. \A n \in 0..N : KeptUpTo(rs, v)[n] = KeptStep(rs, v, KeptUpTo(rs, v), n)
  BY <1>7
<1> DEFINE S == {n \in 0..N : KeptUpTo(rs, v)[n] \in Seq(R)}
<1>9. 0 \in S
  <2>1. 0 \in 0..N
    BY <1>0
  <2>2. KeptUpTo(rs, v)[0] = << >>
    BY <2>1, <1>8 DEF KeptStep
  <2>3. KeptUpTo(rs, v)[0] \in Seq(R)
    BY <2>2
  <2> QED BY <2>1, <2>3
<1>10. ASSUME NEW n \in 1..N, n - 1 \in S PROVE n \in S
  <2>1. n \in 0..N /\ n # 0 /\ KeptUpTo(rs, v)[n - 1] \in Seq(R) /\ rs[n] \in R
    BY <1>0, <1>10
  <2> DEFINE before == KeptUpTo(rs, v)[n - 1]
  <2>2. \/ KeptUpTo(rs, v)[n] = before
        \/ KeptUpTo(rs, v)[n] = Append(before, rs[n])
    BY <2>1, <1>8 DEF KeptStep
  <2>3. Append(before, rs[n]) \in Seq(R)
    <3>1. before \in Seq(R)
      BY <2>1
    <3> HIDE DEF before
    <3> QED BY <2>1, <3>1
  <2> QED BY <2>1, <2>2, <2>3
<1>11. \A n \in 0..N : n \in S
  <2> HIDE DEF S, N
  <2> QED BY <1>0, <1>9, <1>10, IntervalInduction
<1> QED BY <1>7, <1>11

\* The records that remain of a list are a list of records.
LEMMA KeptType ==
    ASSUME NEW R, NEW rs \in Seq(R), NEW v
    PROVE  Kept(rs, v) \in Seq(R)
<1>1. Len(rs) \in 0..Len(rs)
  OBVIOUS
<1> QED BY <1>1, KeptUpToSolves DEF Kept

\* Applying a change to a store gives a store.
LEMMA ApplyChangeType ==
    ASSUME NEW st \in Stores, NEW ch \in Change
    PROVE  ApplyChange(st, ch) \in Stores
<1>1. RecordOf(ch) \in Record
  BY DEF RecordOf, Record, Change
<1>2. ASSUME NEW rs \in Seq(Record) PROVE ChangedList(rs, ch) \in Seq(Record)
  <2>1. Kept(rs, ch.rdata) \in Seq(Record)
    BY KeptType
  <2> QED BY <1>1, <2>1 DEF ChangedList
<1> QED BY <1>2 DEF ApplyChange, Stores

Elements(rs) == {rs[i] : i \in 1..Len(rs)}

\* What the loop of Apply has kept after n records.
KeptSoFar(rs, v, n) == {rs[i] : i \in {j \in 1..n : rs[j].rdata # v}}

\* A record put at the end of a list.
LEMMA ElementsOfAppend ==
    ASSUME NEW R, NEW rs \in Seq(R), NEW r \in R
    PROVE  /\ Elements(Append(rs, r)) = Elements(rs) \cup {r}
           /\ ValuesOnce(rs) /\ (\A e \in Elements(rs) : e.rdata # r.rdata) =>
                 ValuesOnce(Append(rs, r))
<1> DEFINE longer == Append(rs, r)
<1>1. /\ Len(rs) \in Nat /\ Len(longer) = Len(rs) + 1 /\ longer[Len(rs) + 1] = r
      /\ \A i \in 1..Len(rs) : longer[i] = rs[i]
  OBVIOUS
<1> HIDE DEF longer
<1>2. \A i \in 1..Len(longer) : i \in 1..Len(rs) \/ i = Len(rs) + 1
  BY <1>1
<1>3. \A i \in 1..Len(rs) : i \in 1..Len(longer)
  BY <1>1
<1>4. Len(rs) + 1 \in 1..Len(longer)
  BY <1>1
<1>5. Elements(longer) = Elements(rs) \cup {r}
  BY <1>1, <1>2, <1>3, <1>4 DEF Elements
<1>6. ASSUME ValuesOnce(rs), \A e \in Elements(rs) : e.rdata # r.rdata,
             NEW i \in 1..Len(longer), NEW j \in 1..Len(longer),
             longer[i].rdata = longer[j].rdata
      PROVE  i = j
  <2>1. \A k \in 1..Len(rs) : longer[k].rdata # r.rdata
    BY <1>1, <1>6 DEF Elements
  <2> QED BY <1>1, <1>2, <1>6, <2>1 DEF ValuesOnce
<1> QED BY <1>5, <1>6 DEF ValuesOnce, longer

\* What the loop keeps: the records of another value, and none of them twice if
\* there was none twice.
LEMMA KeptElements ==
    ASSUME NEW R, NEW rs \in Seq(R), NEW v
    PROVE  /\ Elements(Kept(rs, v)) = {r \in Elements(rs) : r.rdata # v}
           /\ ValuesOnce(rs) => ValuesOnce(Kept(rs, v))
<1> DEFINE N == Len(rs)
           f == KeptUpTo(rs, v)
           S == {n \in 0..N : /\ Elements(f[n]) = KeptSoFar(rs, v, n)
                              /\ ValuesOnce(rs) => ValuesOnce(f[n])}
<1>1. N \in Nat /\ \A n \in 1..N : rs[n] \in R
  OBVIOUS
<1>2. /\ \A n \in 0..N : f[n] = KeptStep(rs, v, f, n)
      /\ \A n \in 0..N : f[n] \in Seq(R)
  BY KeptUpToSolves
<1> HIDE DEF N, f
<1>3. 0 \in S
  <2>1. 0 \in 0..N /\ f[0] = << >>
    BY <1>1, <1>2 DEF KeptStep
  <2>2. Elements(<< >>) = {} /\ ValuesOnce(<< >>)
    BY DEF Elements, ValuesOnce
  <2>3. KeptSoFar(rs, v, 0) = {}
    BY DEF KeptSoFar
  <2> QED BY <2>1, <2>2, <2>3
<1>4. ASSUME NEW n \in 1..N, n - 1 \in S PROVE n \in S
  <2>1. n \in 0..N /\ n # 0 /\ n - 1 \in 0..N /\ rs[n] \in R
    BY <1>1
  <2>2. /\ f[n - 1] \in Seq(R) /\ Elements(f[n - 1]) = KeptSoFar(rs, v, n - 1)
        /\ ValuesOnce(rs) => ValuesOnce(f[n - 1])
    BY <1>2, <1>4, <2>1
  <2>3. f[n] = IF rs[n].rdata = v THEN f[n - 1] ELSE Append(f[n - 1], rs[n])
    BY <1>2, <2>1 DEF KeptStep
  <2>4. 1..n = (1..(n - 1)) \cup {n}
    BY <1>1
  <2>5. KeptSoFar(rs, v, n) =
            KeptSoFar(rs, v, n - 1) \cup (IF rs[n].rdata = v THEN {} ELSE {rs[n]})
    BY <2>4 DEF KeptSoFar
  <2>6. CASE rs[n].rdata = v
    BY <2>1, <2>2, <2>3, <2>5, <2>6
  <2>7. CASE rs[n].rdata # v
    <3>1. Elements(f[n]) = KeptSoFar(rs, v, n)
      BY <2>1, <2>2, <2>3, <2>5, <2>7, ElementsOfAppend
    <3>2. ASSUME ValuesOnce(rs) PROVE ValuesOnce(f[n])
      <4>1. ASSUME NEW e \in Elements(f[n - 1]) PROVE e.rdata # rs[n].rdata
        <5>1. PICK j \in 1..(n - 1) : e = rs[j]
          BY <2>2 DEF KeptSoFar
        <5>2. j \in 1..N /\ n \in 1..N /\ j # n
          BY <1>1
        <5> QED BY <3>2, <5>1, <5>2 DEF ValuesOnce, N
      <4> QED BY <2>1, <2>2, <2>3, <2>7, <3>2, <4>1, ElementsOfAppend
    <3> QED BY <2>1, <3>1, <3>2
  <2> QED BY <2>6, <2>7
<1>5. N \in S
  <2>1. N \in 0..N
    BY <1>1
  <2> HIDE DEF S
  <2> QED BY <1>1, <1>3, <1>4, <2>1, IntervalInduction
<1>6. KeptSoFar(rs, v, N) = {r \in Elements(rs) : r.rdata # v}
  BY DEF KeptSoFar, Elements, N
<1> QED BY <1>5, <1>6 DEF Kept, f, N

\* What a change makes of a list of its key.
LEMMA ChangedElements ==
    ASSUME NEW rs \in Seq(Record), NEW ch \in Change
    PROVE  /\ ChangedList(rs, ch) \in Seq(Record)
           /\ Elements(ChangedList(rs, ch)) =
                 {r \in Elements(rs) : r.rdata # ch.rdata} \cup
                     (IF ch.kind = "delete" THEN {} ELSE {RecordOf(ch)})
           /\ ValuesOnce(rs) => ValuesOnce(ChangedList(rs, ch))
<1> DEFINE kept == Kept(rs, ch.rdata)
<1>1. kept \in Seq(Record) /\ RecordOf(ch) \in Record /\ RecordOf(ch).rdata = ch.rdata
  BY KeptType DEF RecordOf, Record, Change
<1>2. /\ Elements(kept) = {r \in Elements(rs) : r.rdata # ch.rdata}
      /\ ValuesOnce(rs) => ValuesOnce(kept)
  BY KeptElements
<1>3. ChangedList(rs, ch) = IF ch.kind = "delete" THEN kept ELSE Append(kept, RecordOf(ch))
  BY DEF ChangedList
<1> HIDE DEF kept
<1>4. /\ Append(kept, RecordOf(ch)) \in Seq(Record)
      /\ Elements(Append(kept, RecordOf(ch))) = Elements(kept) \cup {RecordOf(ch)}
      /\ ValuesOnce(rs) => ValuesOnce(Append(kept, RecordOf(ch)))
  BY <1>1, <1>2, ElementsOfAppend
<1> QED BY <1>1, <1>2, <1>3, <1>4

\* A change keeps the values of a store distinct.
LEMMA DistinctKept ==
    ASSUME NEW st \in Stores, NEW ch \in Change, Distinct(st)
    PROVE  Distinct(ApplyChange(st, ch))
<1>1. ASSUME NEW k \in Names \X ManagedTypes PROVE ValuesOnce(ApplyChange(st, ch)[k])
  <2>1. st[k] \in Seq(Record) /\ ValuesOnce(st[k])
    BY DEF Stores, Distinct
  <2>2. ApplyChange(st, ch)[k] \in {st[k], ChangedList(st[k], ch)}
    BY DEF ApplyChange, Stores
  <2> QED BY <2>1, <2>2, ChangedElements
<1> QED BY <1>1 DEF Distinct
=============================================================================
