--------------------------- MODULE TransferProofs ---------------------------
(***************************************************************************)
(* Proofs about zone transfers beside the update path, for every set of    *)
(* workers, clients, zones, names and values, and whatever fails.          *)
(***************************************************************************)
EXTENDS TransferProperties, PromiseProofs

-----------------------------------------------------------------------------
(***************************************************************************)
(* The contents of a zone as rows.                                         *)
(***************************************************************************)

\* No key has a value twice in a set of rows.
OneEach(s) == \A a, b \in s : a.key = b.key /\ a.rdata = b.rdata => a = b

\* The record of a row.
Bare(r) == [rdata |-> r.rdata, ttl |-> r.ttl]

\* Rows are told apart by their fields.
LEMMA SameRow ==
    ASSUME NEW a \in Row, NEW b \in Row,
           a.key = b.key, a.rdata = b.rdata, a.ttl = b.ttl
    PROVE  a = b
BY DEF Row

\* A row is in a content when its record is in the list of its key.
LEMMA RowIn ==
    ASSUME NEW st \in Stores, NEW r \in Row
    PROVE  r \in RowsOf(st) <=> Bare(r) \in Elements(st[r.key])
BY DEF RowsOf, Elements, Bare

\* An empty store has no rows.
LEMMA NoRows == EmptyStore \in Stores /\ RowsOf(EmptyStore) = {}
<1>1. EmptyStore \in Stores
  BY DEF EmptyStore, Stores
<1>2. ASSUME NEW r \in RowsOf(EmptyStore) PROVE FALSE
  <2>1. r \in Row /\ r.key \in Names \X ManagedTypes
    BY DEF RowsOf, Row, Keys
  <2>2. EmptyStore[r.key] = << >>
    BY <2>1 DEF EmptyStore
  <2> QED BY <2>2 DEF RowsOf
<1> QED BY <1>1, <1>2

\* A store that holds no value twice gives rows that do not either.
LEMMA RowsOnce ==
    ASSUME NEW st \in Stores, Distinct(st)
    PROVE  OneEach(RowsOf(st))
<1> SUFFICES ASSUME NEW a \in RowsOf(st), NEW b \in RowsOf(st),
                    a.key = b.key, a.rdata = b.rdata
             PROVE  a = b
  BY DEF OneEach
<1>1. a \in Row /\ b \in Row /\ a.key \in Names \X ManagedTypes
  BY DEF RowsOf, Row, Keys
<1>2. ValuesOnce(st[a.key])
  BY <1>1 DEF Distinct
<1>3. PICK i \in 1..Len(st[a.key]) : st[a.key][i] = Bare(a)
  BY DEF RowsOf, Bare
<1>4. PICK j \in 1..Len(st[a.key]) : st[a.key][j] = Bare(b)
  BY DEF RowsOf, Bare
<1>5. st[a.key][i].rdata = st[a.key][j].rdata
  BY <1>3, <1>4 DEF Bare
<1>6. i = j
  BY <1>2, <1>5 DEF ValuesOnce
<1>7. a.ttl = b.ttl
  BY <1>3, <1>4, <1>6 DEF Bare
<1> QED BY <1>1, <1>7, SameRow

\* The change that ApplyFull makes of a row is one of its key.
LEMMA UpsertType ==
    ASSUME NEW r \in Row
    PROVE  /\ UpsertOf(r) \in Change
           /\ KeyOf(UpsertOf(r)) = r.key
           /\ RecordOf(UpsertOf(r)) = Bare(r)
           /\ UpsertOf(r).rdata = r.rdata /\ UpsertOf(r).kind = "upsert"
<1>1. r.key \in Names \X ManagedTypes /\ r.rdata \in RDatas /\ r.ttl \in TTLs
  BY DEF Row, Keys
<1>2. r.key[1] \in Names /\ r.key[2] \in ManagedTypes /\ r.key = <<r.key[1], r.key[2]>>
  BY <1>1
<1>3. r.key[1] \in Spellings /\ Canon[r.key[1]] = r.key[1]
  BY <1>2, CanonAssumption DEF Names
<1>4. r.key[2] \in RTypes
  BY <1>2 DEF ManagedTypes
<1> QED BY <1>1, <1>2, <1>3, <1>4 DEF UpsertOf, Change, KeyOf, RecordOf, Bare

\* What one row that is applied makes of a content: it takes the place of the
\* row of its key and value.
LEMMA RowApplied ==
    ASSUME NEW st \in Stores, NEW r \in Row
    PROVE  /\ ApplyChange(st, UpsertOf(r)) \in Stores
           /\ RowsOf(ApplyChange(st, UpsertOf(r))) =
                 {x \in RowsOf(st) : ~ (x.key = r.key /\ x.rdata = r.rdata)} \cup {r}
<1> DEFINE ch == UpsertOf(r)
           after == ApplyChange(st, ch)
<1>1. /\ ch \in Change /\ KeyOf(ch) = r.key /\ RecordOf(ch) = Bare(r)
      /\ ch.rdata = r.rdata /\ ch.kind = "upsert"
  BY UpsertType
<1>2. r.key \in Names \X ManagedTypes /\ Bare(r) \in Record /\ Bare(r).rdata = r.rdata
  BY DEF Row, Keys, Bare, Record
<1> HIDE DEF ch
<1>3. after \in Stores
  BY <1>1, ApplyChangeType
<1>4. st[r.key] \in Seq(Record)
  BY <1>2 DEF Stores
<1>5. Elements(ChangedList(st[r.key], ch)) =
         {e \in Elements(st[r.key]) : e.rdata # r.rdata} \cup {Bare(r)}
  BY <1>1, <1>4, ChangedElements
<1>6. \A k \in Names \X ManagedTypes :
         after[k] = IF k = r.key THEN ChangedList(st[r.key], ch) ELSE st[k]
  BY <1>1, <1>2 DEF ApplyChange, Stores
<1> HIDE DEF after
<1>7. ASSUME NEW x \in Row
      PROVE  x \in RowsOf(after) <=>
                 (x \in RowsOf(st) /\ ~ (x.key = r.key /\ x.rdata = r.rdata)) \/ x = r
  <2>1. x.key \in Names \X ManagedTypes /\ Bare(x).rdata = x.rdata /\ Bare(x).ttl = x.ttl
    BY DEF Row, Keys, Bare
  <2>2. x \in RowsOf(after) <=> Bare(x) \in Elements(after[x.key])
    BY <1>3, RowIn
  <2>3. x \in RowsOf(st) <=> Bare(x) \in Elements(st[x.key])
    BY RowIn
  <2>4. CASE x.key # r.key
    BY <1>6, <2>1, <2>2, <2>3, <2>4
  <2>5. CASE x.key = r.key
    <3>1. x \in RowsOf(after) <=>
             (Bare(x) \in Elements(st[r.key]) /\ x.rdata # r.rdata) \/ Bare(x) = Bare(r)
      BY <1>2, <1>5, <1>6, <2>1, <2>2, <2>5
    <3>2. Bare(x) = Bare(r) <=> x = r
      BY <2>5, SameRow DEF Bare
    <3> QED BY <2>3, <2>5, <3>1, <3>2
  <2> QED BY <2>4, <2>5
<1>8. RowsOf(after) \subseteq Row /\ RowsOf(st) \subseteq Row
  BY DEF RowsOf
<1>9. RowsOf(after) = {x \in RowsOf(st) : ~ (x.key = r.key /\ x.rdata = r.rdata)} \cup {r}
  BY <1>7, <1>8
<1> QED BY <1>3, <1>9 DEF after, ch

\* The row that ApplyFull applies next is one of those left.
LEMMA FirstIsLeft ==
    ASSUME NEW s, s \subseteq Row, s # {}
    PROVE  FirstOf(s) \in s
<1> DEFINE At(r) == Position[<<r.key, r.rdata>>]
           X == {At(r) : r \in s}
<1>1. \A r \in s : At(r) \in Nat
  BY TransferAssumption DEF Row
<1>2. X \subseteq Nat /\ X # {}
  BY <1>1
<1>3. PICK n \in X : \A m \in X : n <= m
  <2> HIDE DEF X
  <2> QED BY <1>2, LeastNatural
<1>4. PICK r \in s : n = At(r)
  BY <1>3
<1>5. \A o \in s : At(r) <= At(o)
  BY <1>3, <1>4
<1> QED BY <1>5 DEF FirstOf

\* A whole content is loaded row by row: what has been applied is what is not
\* left to apply.
LEMMA OneRowLoaded ==
    ASSUME NEW st \in Stores, NEW whole, whole \subseteq Row, OneEach(whole),
           NEW left, left \subseteq whole, left # {}, RowsOf(st) = whole \ left
    PROVE  /\ FirstOf(left) \in left
           /\ ApplyChange(st, UpsertOf(FirstOf(left))) \in Stores
           /\ RowsOf(ApplyChange(st, UpsertOf(FirstOf(left)))) =
                 whole \ (left \ {FirstOf(left)})
<1> DEFINE r == FirstOf(left)
<1>1. r \in left /\ r \in Row
  BY FirstIsLeft
<1> HIDE DEF r
<1>2. /\ ApplyChange(st, UpsertOf(r)) \in Stores
      /\ RowsOf(ApplyChange(st, UpsertOf(r))) =
            {x \in whole \ left : ~ (x.key = r.key /\ x.rdata = r.rdata)} \cup {r}
  BY <1>1, RowApplied
<1>3. \A x \in whole \ left : ~ (x.key = r.key /\ x.rdata = r.rdata)
  BY <1>1 DEF OneEach
<1>4. (whole \ left) \cup {r} = whole \ (left \ {r})
  BY <1>1
<1> QED BY <1>1, <1>2, <1>3, <1>4 DEF r

-----------------------------------------------------------------------------
(***************************************************************************)
(* The types.                                                              *)
(***************************************************************************)

\* One entry of the history more in the changes after a serial.
LaterStep(log, from, f, n) ==
    IF n = 0 THEN << >>
    ELSE IF log[n].serial > from THEN Append(f[n - 1], log[n].change)
    ELSE f[n - 1]

\* A delta is a list of changes of the history, and it is empty if none was
\* recorded with a later serial.
LEMMA ChangesAfterType ==
    ASSUME NEW z, history[z] \in Seq(Entry), NEW from \in Nat, NEW T,
           \A i \in 1..Len(history[z]) : history[z][i].change \in T
    PROVE  /\ ChangesAfter(z, from) \in Seq(T)
           /\ (\A i \in 1..Len(history[z]) : history[z][i].serial = from) =>
                 ChangesAfter(z, from) = << >>
<1> DEFINE log == history[z]
           N == Len(log)
           step == [p \in (1..N) \X Seq(T) |->
                      IF log[p[1]].serial > from THEN Append(p[2], log[p[1]].change)
                      ELSE p[2]]
           Solves(f) == f = [n \in 0..N |-> LaterStep(log, from, f, n)]
           later == CHOOSE f : Solves(f)
<1>1. N \in Nat /\ \A n \in 1..N : log[n].change \in T
  OBVIOUS
<1>2. step \in [(1..N) \X Seq(T) -> Seq(T)]
  BY <1>1
<1>3. << >> \in Seq(T)
  OBVIOUS
<1>4. PICK g \in [0..N -> Seq(T)] : \A n \in 0..N : g[n] = Fold(<< >>, step, g, n)
  <2>1. step \in StepsOn(N, Seq(T))
    BY <1>2 DEF StepsOn
  <2>2. HasSolution(N, Seq(T), << >>, step)
    <3> HIDE DEF N, step
    <3> QED BY <1>1, <1>3, <2>1, FoldExists
  <2> QED BY <2>2 DEF HasSolution
<1>5. ASSUME NEW n \in 0..N PROVE Fold(<< >>, step, g, n) = LaterStep(log, from, g, n)
  <2>1. CASE n = 0
    BY <2>1 DEF Fold, LaterStep
  <2>2. CASE n # 0
    <3>1. n \in 1..N /\ n - 1 \in 0..N
      BY <2>2, <1>1
    <3>2. <<n, g[n - 1]>> \in (1..N) \X Seq(T)
      BY <3>1, <1>4
    <3> QED BY <2>2, <3>2 DEF Fold, LaterStep
  <2> QED BY <2>1, <2>2
<1>6. Solves(g)
  <2> HIDE DEF N, step, log
  <2> QED BY <1>4, <1>5
<1>7. Solves(later)
  <2> HIDE DEF Solves
  <2> QED BY <1>6
<1>8. ChangesAfter(z, from) = later[N]
  BY DEF ChangesAfter, LaterStep
<1> DEFINE S == {n \in 0..N : /\ later[n] \in Seq(T)
                              /\ (\A i \in 1..N : log[i].serial = from) => later[n] = << >>}
<1>9. \A n \in 0..N : later[n] = LaterStep(log, from, later, n)
  <2> HIDE DEF later, log, N
  <2> QED BY <1>7
<1> HIDE DEF later, log, N
<1>10. 0 \in S
  <2>1. 0 \in 0..N /\ later[0] = << >>
    BY <1>1, <1>9 DEF LaterStep
  <2> QED BY <1>3, <2>1
<1>11. ASSUME NEW n \in 1..N, n - 1 \in S PROVE n \in S
  <2>1. n \in 0..N /\ n # 0 /\ n - 1 \in 0..N /\ log[n].change \in T
    BY <1>1
  <2>2. later[n - 1] \in Seq(T)
    BY <1>11
  <2>3. later[n] = IF log[n].serial > from THEN Append(later[n - 1], log[n].change)
                   ELSE later[n - 1]
    BY <1>9, <2>1 DEF LaterStep
  <2>4. Append(later[n - 1], log[n].change) \in Seq(T)
    BY <2>1, <2>2
  <2>5. ASSUME \A i \in 1..N : log[i].serial = from PROVE later[n] = << >>
    <3>1. ~ (log[n].serial > from)
      BY <2>5
    <3> QED BY <1>11, <2>3, <2>5, <3>1
  <2> QED BY <2>1, <2>2, <2>3, <2>4, <2>5
<1>12. N \in S
  <2>1. N \in 0..N
    BY <1>1
  <2> HIDE DEF S
  <2> QED BY <1>1, <1>10, <1>11, <2>1, IntervalInduction
<1> QED BY <1>8, <1>12 DEF N, log

\* The changes of a history are changes.
LEMMA HistoryChanges ==
    ASSUME NEW log \in Seq(Entry)
    PROVE  \A i \in 1..Len(log) : log[i].change \in Change
<1>1. \A e \in Entry : e.change \in Change
  BY DEF Entry
<1> QED BY <1>1

\* The operations of a delta make a store of a store.
LEMMA AfterOpsType ==
    ASSUME NEW st \in Stores, NEW cs \in Seq(Change)
    PROVE  AfterOps(st, cs) \in Stores
<1> DEFINE N == Len(cs)
           step == [p \in (1..N) \X Stores |-> ApplyChange(p[2], cs[p[1]])]
           Turn(f, n) == IF n = 0 THEN st ELSE ApplyChange(f[n - 1], cs[n])
           Solves(f) == f = [n \in 0..N |-> Turn(f, n)]
           after == CHOOSE f : Solves(f)
<1>1. N \in Nat /\ \A n \in 1..N : cs[n] \in Change
  OBVIOUS
<1>2. step \in [(1..N) \X Stores -> Stores]
  BY <1>1, ApplyChangeType
<1>3. PICK g \in [0..N -> Stores] : \A n \in 0..N : g[n] = Fold(st, step, g, n)
  <2>1. step \in StepsOn(N, Stores)
    BY <1>2 DEF StepsOn
  <2>2. HasSolution(N, Stores, st, step)
    <3> HIDE DEF N, step
    <3> QED BY <1>1, <2>1, FoldExists
  <2> QED BY <2>2 DEF HasSolution
<1>4. ASSUME NEW n \in 0..N PROVE Fold(st, step, g, n) = Turn(g, n)
  <2>1. CASE n = 0
    BY <2>1 DEF Fold
  <2>2. CASE n # 0
    <3>1. n \in 1..N /\ n - 1 \in 0..N
      BY <2>2, <1>1
    <3>2. <<n, g[n - 1]>> \in (1..N) \X Stores
      BY <3>1, <1>3
    <3> QED BY <2>2, <3>2 DEF Fold
  <2> QED BY <2>1, <2>2
<1>5. Solves(g)
  <2> HIDE DEF N, step, Turn
  <2> QED BY <1>3, <1>4
<1>6. Solves(after)
  <2> HIDE DEF Solves
  <2> QED BY <1>5
<1>7. AfterOps(st, cs) = after[N]
  BY DEF AfterOps
<1> DEFINE S == {n \in 0..N : after[n] \in Stores}
<1>8. \A n \in 0..N : after[n] = Turn(after, n)
  <2> HIDE DEF after, N, Turn
  <2> QED BY <1>6
<1> HIDE DEF after, N
<1>9. 0 \in S
  BY <1>1, <1>8
<1>10. ASSUME NEW n \in 1..N, n - 1 \in S PROVE n \in S
  <2>1. n \in 0..N /\ n # 0 /\ after[n - 1] \in Stores /\ cs[n] \in Change
    BY <1>1, <1>10
  <2> QED BY <1>8, <2>1, ApplyChangeType
<1>11. N \in S
  <2>1. N \in 0..N
    BY <1>1
  <2> HIDE DEF S
  <2> QED BY <1>1, <1>9, <1>10, <2>1, IntervalInduction
<1> QED BY <1>7, <1>11

\* A delta of no operations changes nothing.
LEMMA NothingApplied == ASSUME NEW st PROVE AfterOps(st, << >>) = st
<1> DEFINE Solves(f) == f = [n \in 0..0 |-> IF n = 0 THEN st ELSE
                                            ApplyChange(f[n - 1], << >>[n])]
<1>1. Solves([n \in 0..0 |-> st])
  OBVIOUS
<1>2. AfterOps(st, << >>) = (CHOOSE f : Solves(f))[0]
  BY DEF AfterOps
<1>3. Solves(CHOOSE f : Solves(f))
  <2> HIDE DEF Solves
  <2> QED BY <1>1
<1> QED BY <1>2, <1>3
\* What is on offer to a worker is a set of contents.
LEMMA OfferedType ==
    ASSUME Offering
    PROVE  offered \in [Workers -> SUBSET SUBSET Row] =>
               offered' \in [Workers -> SUBSET SUBSET Row]
<1>1. \A st : RowsOf(st) \in SUBSET Row
  BY DEF RowsOf
<1>2. ASSUME NEW w \in Workers PROVE FirstOffer(w) \in SUBSET SUBSET Row
  BY <1>1 DEF FirstOffer, Uncommitted
<1>3. ASSUME NEW w \in Workers, offered[w] \in SUBSET SUBSET Row
      PROVE  offered[w] \cup {RowsOf(records'[job[w]])} \in SUBSET SUBSET Row
  BY <1>1, <1>3
<1> QED BY <1>2, <1>3 DEF Offering

\* A step of a worker as the update path sees it: it may write the transfer
\* states and nothing else.
Beside == UNCHANGED updateRest /\ xfer' \in [Zones -> TransferStates]

\* The update path keeps its types beside the transfers.
LEMMA BesideType ==
    ASSUME TypeInv, DistinctInv, Beside
    PROVE  TypeInv' /\ DistinctInv'
<1>1. UNCHANGED <<mode, stops, records, serial, version, history, events, lines, unended,
                  replayed, lock, pc, call, staged, request, outcome>>
  BY DEF Beside, updateRest, zoneVars, journalVars, processVars, callVars
<1>2. Control'
  BY <1>1, ControlKept DEF TypeInv, Control
<1>3. TypeOK'
  BY <1>1 DEF TypeInv, TypeOK, Beside
<1>4. DistinctInv'
  BY <1>1, DistinctUnchanged
<1> QED BY <1>2, <1>3, <1>4 DEF TypeInv

\* A worker goes from one place to another.
LEMMA MoveWorker ==
    ASSUME place \in [Workers -> WorkPlaces], NEW w \in Workers, NEW from,
           NEW to \in WorkPlaces, Move(w, from, to)
    PROVE  /\ place' \in [Workers -> WorkPlaces]
           /\ place[w] = from /\ place'[w] = to
           /\ \A v \in Workers : v # w => place'[v] = place[v]
BY DEF Move

\* The steps of a worker that take it from idle.
LEMMA BeginsType ==
    ASSUME TypeInv, TransferTypeOK, NEW w \in Workers, NEW z \in Zones, WorkerBegins(w, z), Offering
    PROVE  Beside /\ TransferTypeOK'
<1> USE DEF TransferTypeOK, copyVars
<1>0. xfer \in [Zones -> TransferStates] /\ serial[z] \in Nat /\ offered' \in [Workers -> SUBSET SUBSET Row]
  BY OfferedType DEF TypeInv, TypeOK
<1>1. ASSUME NEW place1 \in WorkPlaces, Begin(w, z, place1)
      PROVE  /\ place' \in [Workers -> WorkPlaces]
             /\ begun' \in 0..MaxTransfers
             /\ job' \in [Workers -> Zones \cup {None}]
             /\ \A v \in Workers : place'[v] # "idle" => job'[v] \in Zones
  <2>1. begun' = begun + 1 /\ begun < MaxTransfers /\ job' = [job EXCEPT ![w] = z]
        /\ Move(w, "idle", place1)
    BY <1>1 DEF Begin
  <2> QED BY <1>1, <2>1, MoveWorker, TransferAssumption
<1>2. CASE StartTransfer(w, z)
  <2>1. "triggered" \in WorkPlaces /\ Begin(w, z, "triggered")
    BY <1>2 DEF StartTransfer, WorkPlaces
  <2>2. xfer' \in [Zones -> TransferStates]
    BY <1>0, <1>2 DEF StartTransfer, TransferStates
  <2> QED BY <1>0, <1>1, <1>2, <2>1, <2>2 DEF StartTransfer, Beside, packetVars
<1>3. CASE AskFull(w, z)
  <2>1. "numbered" \in WorkPlaces /\ Begin(w, z, "numbered")
    BY <1>3 DEF AskFull, WorkPlaces
  <2> QED BY <1>0, <1>1, <1>3, <2>1 DEF AskFull, Beside
<1>4. ASSUME NEW from \in FromSerials, AskDelta(w, z, from)
      PROVE  Beside /\ TransferTypeOK'
  <2>1. PICK place1 \in WorkPlaces : Begin(w, z, place1)
    BY <1>4 DEF AskDelta, WorkPlaces
  <2>2. from \in Nat
    BY TransferAssumption
  <2> QED BY <1>0, <1>1, <1>4, <2>1, <2>2 DEF AskDelta, Beside
<1> QED BY <1>2, <1>3, <1>4 DEF WorkerBegins
\* The end of a transfer keeps the types.
LEMMA LeaveType ==
    ASSUME TypeInv, TransferTypeOK, NEW w \in Workers, NEW from \in WorkPlaces \ {"idle"},
           NEW state \in TransferStates, Finish(w, from, "idle", state), Leave(w),
           offered' \in [Workers -> SUBSET SUBSET Row]
    PROVE  Beside /\ TransferTypeOK'
<1> USE DEF TransferTypeOK, copyVars
<1>1. "idle" \in WorkPlaces /\ Move(w, from, "idle") /\ xfer' = [xfer EXCEPT ![job[w]] = state]
      /\ UNCHANGED <<updateRest, copy, copySerial, begun>>
  BY DEF Finish, WorkPlaces
<1>2. place' \in [Workers -> WorkPlaces] /\ place'[w] = "idle"
      /\ \A v \in Workers : v # w => place'[v] = place[v]
  BY <1>1, MoveWorker
<1>3. xfer' \in [Zones -> TransferStates]
  BY <1>1 DEF TypeInv, TypeOK
<1>4. << >> \in Seq(Change) /\ {} \in SUBSET Row
  OBVIOUS
<1> QED BY <1>1, <1>2, <1>3, <1>4 DEF Leave, Beside

\* A step of a worker on its way keeps the types if what it writes has them.
LEMMA OnwardType ==
    ASSUME TypeInv, TransferTypeOK, NEW w \in Workers, NEW from \in WorkPlaces \ {"idle"},
           NEW to \in WorkPlaces, Move(w, from, to), UNCHANGED <<updateRest, job, wanted, begun>>,
           xfer' \in [Zones -> TransferStates],
           copy' \in [Zones -> Stores], copySerial' \in [Zones -> Nat],
           reached' \in [Workers -> Nat], rows' \in [Workers -> SUBSET Row],
           todo' \in [Workers -> SUBSET Row], ops' \in [Workers -> Seq(Change)],
           offered' \in [Workers -> SUBSET SUBSET Row]
    PROVE  Beside /\ TransferTypeOK'
<1>1. place' \in [Workers -> WorkPlaces] /\ place[w] # "idle"
      /\ \A v \in Workers : v # w => place'[v] = place[v]
  BY MoveWorker DEF TransferTypeOK
<1> QED BY <1>1 DEF TransferTypeOK, Beside

\* The steps of a worker once it has begun keep the types.
LEMMA WorkerType ==
    ASSUME TypeInv, TransferTypeOK, NEW w \in Workers, WorkerStep(w), Offering
    PROVE  Beside /\ TransferTypeOK'
<1> USE DEF packetVars, copyVars, TransferTypeOK, Stay
<1>0. /\ offered' \in [Workers -> SUBSET SUBSET Row]
      /\ xfer \in [Zones -> TransferStates] /\ serial \in [Zones -> Nat]
      /\ history \in [Zones -> Seq(Entry)]
      /\ {"complete", "failed"} \subseteq TransferStates
  BY OfferedType DEF TypeInv, TypeOK, TransferStates
<1>1. job[w] \in Zones \/ place[w] = "idle"
  OBVIOUS
<1>2. CASE EndTriggered(w) \/ Fail(w) \/ EndApply(w) \/ EndChange(w)
  BY <1>0, <1>2, LeaveType DEF EndTriggered, Fail, EndApply, EndChange, WorkPlaces
<1>3. CASE ReturnSnapshot(w) \/ ReturnDelta(w)
  <2>1. PICK from \in WorkPlaces \ {"idle"}, to \in WorkPlaces : Finish(w, from, to, "complete")
    BY <1>3 DEF ReturnSnapshot, ReturnDelta, WorkPlaces
  <2>2. Move(w, from, to) /\ xfer' \in [Zones -> TransferStates]
        /\ UNCHANGED <<updateRest, copy, copySerial, begun>>
    BY <1>0, <2>1 DEF Finish
  <2> QED BY <1>0, <1>3, <2>2, OnwardType DEF ReturnSnapshot, ReturnDelta
<1>4. CASE TakeSnapshot(w) \/ SetRange(w)
  <2>1. PICK from \in WorkPlaces \ {"idle"}, to \in WorkPlaces : Move(w, from, to)
    BY <1>4 DEF TakeSnapshot, SetRange, WorkPlaces
  <2>2. serial[job[w]] \in Nat /\ RowsOf(records[job[w]]) \in SUBSET Row
    BY <1>0, <1>1, <2>1 DEF RowsOf, Move
  <2>3. UNCHANGED <<xfer, updateRest, copy, copySerial, job, wanted, begun>>
    BY <1>4 DEF TakeSnapshot, SetRange
  <2>4. /\ reached' = [reached EXCEPT ![w] = serial[job[w]]]
        /\ rows' \in {rows, [rows EXCEPT ![w] = RowsOf(records[job[w]])]}
        /\ UNCHANGED <<todo, ops>>
    BY <1>4 DEF TakeSnapshot, SetRange, Taken
  <2>5. rows' \in [Workers -> SUBSET Row]
    BY <2>2, <2>4
  <2>6. reached' \in [Workers -> Nat]
    BY <2>2, <2>4
  <2> QED BY <1>0, <2>1, <2>3, <2>4, <2>5, <2>6, OnwardType
<1>5. CASE BeginLoad(w) \/ LoadRow(w)
  <2>1. PICK from \in WorkPlaces \ {"idle"}, to \in WorkPlaces : Move(w, from, to)
    BY <1>5 DEF BeginLoad, LoadRow, WorkPlaces
  <2>2. job[w] \in Zones /\ copy[job[w]] \in Stores
    BY <1>1, <2>1 DEF Move
  <2>3. copy' \in [Zones -> Stores]
    <3>1. CASE BeginLoad(w)
      BY <2>2, <3>1, NoRows DEF BeginLoad, Cleared
    <3>2. CASE LoadRow(w)
      <4>1. todo[w] # {} /\ todo[w] \subseteq Row
        BY <3>2 DEF LoadRow
      <4>2. FirstOf(todo[w]) \in Row
        BY <4>1, FirstIsLeft
      <4> QED BY <2>2, <3>2, <4>2, RowApplied DEF LoadRow
    <3> QED BY <1>5, <3>1, <3>2
  <2>4. todo' \in [Workers -> SUBSET Row]
    <3>1. rows[w] \in SUBSET Row /\ \A r : todo[w] \ {r} \in SUBSET Row
      OBVIOUS
    <3>2. PICK left \in SUBSET Row : todo' = [todo EXCEPT ![w] = left]
      BY <1>5, <3>1 DEF BeginLoad, LoadRow
    <3> QED BY <3>2
  <2>5. UNCHANGED <<xfer, updateRest, copySerial, job, wanted, reached, rows, ops, begun>>
    BY <1>5 DEF BeginLoad, LoadRow
  <2> QED BY <1>0, <2>1, <2>3, <2>4, <2>5, OnwardType
<1>6. CASE EndLoad(w) \/ RefuseDelta(w)
  <2>1. PICK from \in WorkPlaces \ {"idle"}, to \in WorkPlaces : Move(w, from, to)
    BY <1>6 DEF EndLoad, RefuseDelta, WorkPlaces
  <2>2. copySerial' \in [Zones -> Nat]
    BY <1>6 DEF EndLoad, RefuseDelta
  <2>3. UNCHANGED <<xfer, updateRest, copy, job, wanted, reached, rows, todo, ops, begun>>
    BY <1>6 DEF EndLoad, RefuseDelta
  <2> QED BY <1>0, <2>1, <2>2, <2>3, OnwardType
<1>7. CASE CutHistory(w)
  <2>1. PICK from \in WorkPlaces \ {"idle"}, to \in WorkPlaces : Move(w, from, to)
    BY <1>7 DEF CutHistory, WorkPlaces
  <2>2. history[job[w]] \in Seq(Entry) /\ wanted[w] \in Nat
    BY <1>0, <1>1, <2>1 DEF Move
  <2>3. ops' \in [Workers -> Seq(Change)]
    BY <1>7, <2>2, HistoryChanges, ChangesAfterType DEF CutHistory
  <2>4. UNCHANGED <<xfer, updateRest, copy, copySerial, job, wanted, reached, rows, todo, begun>>
    BY <1>7 DEF CutHistory
  <2> QED BY <1>0, <2>1, <2>3, <2>4, OnwardType
<1>8. CASE ApplyDelta(w)
  <2>1. PICK from \in WorkPlaces \ {"idle"}, to \in WorkPlaces : Move(w, from, to)
    BY <1>8 DEF ApplyDelta, WorkPlaces
  <2>2. job[w] \in Zones /\ copy[job[w]] \in Stores /\ ops[w] \in Seq(Change)
    BY <1>1, <2>1 DEF Move
  <2>3. copy' \in [Zones -> Stores] /\ copySerial' \in [Zones -> Nat]
    BY <1>8, <2>2, AfterOpsType DEF ApplyDelta
  <2>4. UNCHANGED <<xfer, updateRest, job, wanted, reached, rows, todo, ops, begun>>
    BY <1>8 DEF ApplyDelta
  <2> QED BY <1>0, <2>1, <2>3, <2>4, OnwardType
<1> QED BY <1>2, <1>3, <1>4, <1>5, <1>6, <1>7, <1>8 DEF WorkerStep
-----------------------------------------------------------------------------
(***************************************************************************)
(* No update moves a serial, so no incremental transfer moves a record.    *)
(***************************************************************************)

\* Every serial of the program is the one the zones were seeded with.
SerialsFixed ==
    /\ \A z \in Zones :
          /\ serial[z] = SeedSerial
          /\ \A i \in 1..Len(history[z]) : history[z][i].serial = SeedSerial
    /\ \A c \in Clients : pc[c] \in Inside => staged[c].serialBefore = SeedSerial

\* A step that leaves alone what SerialsFixed speaks of.
LEMMA SerialsUnchanged ==
    ASSUME SerialsFixed, UNCHANGED <<serial, history>>,
           \A c \in Clients : pc'[c] \in Inside => pc[c] \in Inside /\ staged'[c] = staged[c]
    PROVE  SerialsFixed'
BY DEF SerialsFixed

\* One entry of the seeded serial more in one history.
LEMMA HistoryGrows ==
    ASSUME TypeInv, SerialsFixed, NEW z \in Zones, NEW e \in Entry, e.serial = SeedSerial,
           history' = [history EXCEPT ![z] = Append(history[z], e)],
           UNCHANGED serial,
           \A c \in Clients : pc'[c] \in Inside => pc[c] \in Inside /\ staged'[c] = staged[c]
    PROVE  SerialsFixed'
<1>1. history \in [Zones -> Seq(Entry)]
  BY DEF TypeInv, TypeOK
<1>2. ASSUME NEW i \in 1..Len(Append(history[z], e))
      PROVE  Append(history[z], e)[i].serial = SeedSerial
  <2>1. history[z] \in Seq(Entry)
    BY <1>1
  <2>2. CASE i \in 1..Len(history[z])
    BY <2>1, <2>2 DEF SerialsFixed
  <2>3. CASE i = Len(history[z]) + 1
    BY <2>1, <2>3
  <2> QED BY <1>2, <2>1, <2>2, <2>3
<1>3. history'[z] = Append(history[z], e) /\ \A y \in Zones \ {z} : history'[y] = history[y]
  BY <1>1
<1> QED BY <1>2, <1>3 DEF SerialsFixed

\* A call of Apply moves no serial.
LEMMA SerialsApply ==
    ASSUME TypeInv, SerialsFixed, NEW c \in Clients, ApplyStep(c)
    PROVE  SerialsFixed'
<1> USE DEF zoneVars, callVars
<1>0. pc \in [Clients -> Places] /\ staged \in [Clients -> StagedChange \cup {None}]
      /\ serial \in [Zones -> Nat]
  BY DEF TypeInv, TypeOK
<1>1. CASE Stage(c)
  <2>1. /\ pc[c] = "entered" /\ Accepted(Asked(c))
        /\ pc' = [pc EXCEPT ![c] = "staged"] /\ UNCHANGED <<serial, history>>
        /\ staged'[c].serialBefore = serial[ZoneAt(c)]
        /\ \A d \in Clients \ {c} : staged'[d] = staged[d]
    BY <1>0, <1>1 DEF Stage, Step
  <2>2. ZoneAt(c) \in Zones
    BY <2>1 DEF Accepted, ZoneAt
  <2> QED BY <1>0, <2>1, <2>2 DEF SerialsFixed
<1>2. CASE Rollback(c)
  <2>1. /\ pc[c] = "undo" /\ pc' = [pc EXCEPT ![c] = "idle"]
        /\ staged' = [staged EXCEPT ![c] = None]
        /\ serial' = [serial EXCEPT ![ZoneAt(c)] = staged[c].serialBefore]
        /\ UNCHANGED history
    BY <1>2 DEF Rollback, Return, Step
  <2>2. pc[c] \in Inside
    BY <2>1 DEF Inside, Places
  <2>3. serial' = serial
    BY <1>0, <2>1, <2>2, EntryType DEF SerialsFixed
  <2>4. \A d \in Clients : pc'[d] \in Inside => pc[d] \in Inside /\ staged'[d] = staged[d]
    BY <1>0, <2>1 DEF Inside
  <2> QED BY <2>1, <2>3, <2>4, SerialsUnchanged
<1>3. CASE CommitZone(c)
  <2>1. /\ pc[c] = "journaled" /\ pc' = [pc EXCEPT ![c] = "resigning"]
        /\ UNCHANGED <<serial, staged>>
        /\ history' = [history EXCEPT ![ZoneAt(c)] = Append(history[ZoneAt(c)], EntryOf(c))]
    BY <1>3 DEF CommitZone, Step
  <2>2. pc[c] \in Inside
    BY <2>1 DEF Inside, Places
  <2>3. EntryOf(c) \in Entry /\ ZoneAt(c) \in Zones
    BY <2>2, EntryType
  <2>4. EntryOf(c).serial = SeedSerial
    BY <2>3 DEF EntryOf, SerialsFixed
  <2>5. \A d \in Clients : pc'[d] \in Inside => pc[d] \in Inside /\ staged'[d] = staged[d]
    BY <1>0, <2>1, <2>2
  <2> QED BY <2>1, <2>3, <2>4, <2>5, HistoryGrows
<1>4. CASE AppendJournal(c) \/ Resigned(c) \/ ResignFailed(c) \/ NotifyInCommit(c)
  <2>1. UNCHANGED <<serial, history, staged>>
    BY <1>4 DEF AppendJournal, AppendWritten, AppendWithoutFile, AppendRefused, AppendUnsynced,
                AppendTorn, Resigned, ResignFailed, NotifyInCommit
  <2>2. pc[c] \in Inside
    BY <1>4 DEF AppendJournal, AppendWritten, AppendWithoutFile, AppendRefused, AppendUnsynced,
                AppendTorn, Resigned, ResignFailed, NotifyInCommit, Step, Inside, Places
  <2>3. \E to \in Places : pc' = [pc EXCEPT ![c] = to]
    BY <1>4 DEF AppendJournal, AppendWritten, AppendWithoutFile, AppendRefused, AppendUnsynced,
                AppendTorn, Resigned, ResignFailed, NotifyInCommit, Step, Places
  <2> QED BY <1>0, <2>1, <2>2, <2>3, SerialsUnchanged
<1>5. CASE Reject(c) \/ NotifyAndReturn(c)
  <2>1. /\ UNCHANGED <<serial, history>> /\ pc' = [pc EXCEPT ![c] = "idle"]
        /\ staged' = [staged EXCEPT ![c] = None]
    BY <1>5 DEF Reject, NotifyAndReturn, Return, Step
  <2>2. \A d \in Clients : pc'[d] \in Inside => pc[d] \in Inside /\ staged'[d] = staged[d]
    BY <1>0, <2>1 DEF Inside
  <2> QED BY <2>1, <2>2, SerialsUnchanged
<1> QED BY <1>1, <1>2, <1>3, <1>4, <1>5 DEF ApplyStep

\* Replay records every entry with the serial the zone has.
LEMMA SerialsReplay ==
    ASSUME TypeInv, SerialsFixed, ReplayEntry
    PROVE  SerialsFixed'
<1> DEFINE e == Read(lines[replayed + 1])
           kept == [e EXCEPT !.serial = serial[e.zone]]
<1>1. /\ mode = "replaying" /\ replayed < Len(lines)
      /\ history' = [history EXCEPT ![e.zone] = Append(history[e.zone], kept)]
      /\ UNCHANGED <<serial, pc, staged>>
  BY DEF ReplayEntry, NextToReplay
<1>2. lines \in Logs /\ replayed + 1 \in 1..Len(lines)
  BY <1>1 DEF TypeInv, TypeOK, Logs
<1>3. e \in Entry
  <2>1. lines[replayed + 1] \in Entry
    BY <1>1, <1>2, ElementOfSeq DEF TypeInv, Control, Logs
  <2> QED BY <2>1, ReadType
<1> HIDE DEF e
<1>4. e.zone \in Zones /\ serial[e.zone] = SeedSerial /\ SeedSerial \in Nat
  BY <1>3, UpdateAssumption DEF Entry, SerialsFixed
<1>5. kept \in Entry /\ kept.serial = SeedSerial
  BY <1>3, <1>4 DEF Entry
<1> HIDE DEF kept
<1> QED BY <1>1, <1>4, <1>5, HistoryGrows

\* Every step of the update path keeps the serials.
LEMMA SerialsStep ==
    ASSUME TypeInv, SerialsFixed, Next
    PROVE  SerialsFixed'
<1>1. ASSUME NEW c \in Clients, NEW r \in Requests, Call(c, r) PROVE SerialsFixed'
  <2>1. UNCHANGED <<serial, history, staged>> /\ pc' = [pc EXCEPT ![c] = "entered"]
    BY <1>1 DEF Call, Step, zoneVars
  <2>2. \A d \in Clients : pc'[d] \in Inside => pc[d] \in Inside
    BY <2>1 DEF TypeInv, TypeOK, Inside
  <2> QED BY <2>1, <2>2, SerialsUnchanged
<1>2. CASE ReplayEntry
  BY <1>2, SerialsReplay
<1>3. CASE UNCHANGED <<serial, history, pc, staged>>
  BY <1>3, SerialsUnchanged
<1>4. CASE FreshMemory
  BY <1>4 DEF FreshMemory, SerialsFixed, Inside
<1> QED BY <1>1, <1>2, <1>3, <1>4, SerialsApply
        DEF Next, Boot, Start, ReplayFails, Serve, Stop, Crash, Shutdown, CloseJournal, Exit,
            zoneVars
-----------------------------------------------------------------------------
(***************************************************************************)
(* What the workers have in hand.                                          *)
(***************************************************************************)

\* A worker: the snapshot it has is one on offer with no value twice, what it
\* has loaded is what is not left to load, the serial it brings is the seeded
\* one, and its delta from that serial is empty.
Holding(w) ==
    /\ place[w] \in FullPlaces => RowsOf(records[job[w]]) \in offered[w]
    /\ place[w] \in {"copied", "have"} => rows[w] \in offered[w]
    /\ place[w] \in {"copied", "have", "loading"} => OneEach(rows[w])
    /\ place[w] = "loading" =>
          todo[w] \subseteq rows[w] /\ RowsOf(copy[job[w]]) = rows[w] \ todo[w]
    /\ place[w] \in {"copied", "have", "loading", "ranged", "delta"} => reached[w] = SeedSerial
    /\ place[w] = "idle" => ops[w] = << >>
    /\ place[w] \in {"cut", "ranged", "delta", "changed"} /\ wanted[w] = SeedSerial =>
          ops[w] = << >>
    /\ place[w] = "changed" => wanted[w] = SeedSerial

\* One worker fills a secondary.
OneLoader ==
    \A v, w \in Workers :
        place[v] = "loading" /\ place[w] = "loading" /\ job[v] = job[w] => v = w

WorkInv ==
    /\ \A w \in Workers : Holding(w)
    /\ \A z \in Zones : copySerial[z] = SeedSerial
    /\ OneLoader
    /\ InProgressIsOwned

\* The inductive invariant of the whole system.
SystemInv == TypeInv /\ DistinctInv /\ SerialsFixed /\ TransferTypeOK /\ WorkInv

\* A worker that stays where it is, with what it has, while others step.
LEMMA HoldingKept ==
    ASSUME Offering, NEW v \in Workers, Holding(v),
           place'[v] = place[v], job'[v] = job[v], wanted'[v] = wanted[v],
           reached'[v] = reached[v], rows'[v] = rows[v], todo'[v] = todo[v],
           ops'[v] = ops[v],
           place[v] = "loading" => copy'[job[v]] = copy[job[v]]
    PROVE  Holding(v)'
<1>1. ASSUME place[v] \in FullPlaces
      PROVE  offered'[v] = offered[v] \cup {RowsOf(records'[job[v]])}
  BY <1>1 DEF Offering, FullPlaces
<1>2. ASSUME place[v] \in FullPlaces
      PROVE  RowsOf(records'[job'[v]]) \in offered'[v]
  BY <1>1, <1>2
<1>3. ASSUME place[v] \in {"copied", "have"} PROVE rows'[v] \in offered'[v]
  BY <1>1, <1>3 DEF FullPlaces, Holding
<1>4. ASSUME place[v] = "loading"
      PROVE  todo'[v] \subseteq rows'[v] /\ RowsOf(copy'[job'[v]]) = rows'[v] \ todo'[v]
  BY <1>4 DEF Holding
<1>5. place[v] \in {"copied", "have", "loading"} => OneEach(rows'[v])
  BY DEF Holding
<1> QED BY <1>2, <1>3, <1>4, <1>5 DEF Holding

\* The same of every worker but one.
LEMMA OthersKept ==
    ASSUME Offering, TransferTypeOK, NEW w \in Workers, \A v \in Workers : Holding(v),
           \A v \in Workers \ {w} :
              /\ place'[v] = place[v] /\ job'[v] = job[v] /\ wanted'[v] = wanted[v]
              /\ reached'[v] = reached[v] /\ rows'[v] = rows[v] /\ todo'[v] = todo[v]
              /\ ops'[v] = ops[v]
              /\ place[v] = "loading" => copy'[job[v]] = copy[job[v]]
    PROVE  \A v \in Workers \ {w} : Holding(v)'
BY HoldingKept

\* The states an update writes are never a claim.
LEMMA UpdateClaims ==
    ASSUME TypeInv, UpdateStep, NEW z \in Zones, xfer'[z] = "in-progress"
    PROVE  xfer[z] = "in-progress"
<1>1. CASE UNCHANGED xfer
  BY <1>1
<1>2. ASSUME NEW c \in Clients, NEW sent, Notify(c, sent) PROVE xfer[z] = "in-progress"
  BY <1>2 DEF Notify, TypeInv, TypeOK
<1>3. (\E c \in Clients : \E sent \in {TRUE, FALSE} : Notify(c, sent)) \/ UNCHANGED xfer
  BY DEF UpdateStep, Call, ApplyStep, Reject, Stage, AppendJournal, AppendWritten,
         AppendWithoutFile, AppendRefused, AppendUnsynced, AppendTorn, Rollback, CommitZone,
         Resigned, ResignFailed, NotifyInCommit, NotifyAndReturn, Boot, Start, ReplayEntry,
         ReplayFails, Serve, Shutdown, CloseJournal, senderVars, NotifyOutcomes, vars
<1> QED BY <1>1, <1>2, <1>3

\* An update disturbs no transfer.
LEMMA WorkUpdate ==
    ASSUME SystemInv, UpdateStep, Offering
    PROVE  WorkInv'
<1>1. UNCHANGED <<copy, copySerial, place, job, wanted, reached, rows, todo, ops, begun>>
  BY DEF UpdateStep, copyVars, workVars, packetVars
<1>2. \A v \in Workers : Holding(v)'
  BY <1>1, HoldingKept DEF SystemInv, WorkInv
<1>3. InProgressIsOwned'
  BY <1>1, UpdateClaims DEF SystemInv, WorkInv, InProgressIsOwned
<1> QED BY <1>1, <1>2, <1>3 DEF SystemInv, WorkInv, OneLoader

\* The next process has no worker and empty secondaries.
LEMMA WorkEnds ==
    ASSUME SystemInv, EndProcess, Offering
    PROVE  WorkInv' /\ TransferTypeOK'
<1>1. /\ copy' = [z \in Zones |-> EmptyStore] /\ copySerial' = [z \in Zones |-> SeedSerial]
      /\ place' = [w \in Workers |-> "idle"] /\ job' = [w \in Workers |-> None]
      /\ wanted' = [w \in Workers |-> 0] /\ reached' = [w \in Workers |-> 0]
      /\ rows' = [w \in Workers |-> {}] /\ todo' = [w \in Workers |-> {}]
      /\ ops' = [w \in Workers |-> << >>] /\ begun' = begun
      /\ xfer' = [z \in Zones |-> "idle"]
  BY DEF EndProcess, FreshSecondaries, Crash, Exit, FreshMemory
<1>2. \A w \in Workers : Holding(w)'
  BY <1>1 DEF Holding, FullPlaces
<1>3. OneLoader' /\ InProgressIsOwned' /\ \A z \in Zones : copySerial'[z] = SeedSerial
  BY <1>1 DEF OneLoader, InProgressIsOwned
<1>4. EmptyStore \in Stores /\ SeedSerial \in Nat /\ "idle" \in WorkPlaces
  BY NoRows, UpdateAssumption DEF WorkPlaces
<1>5. offered' \in [Workers -> SUBSET SUBSET Row] /\ begun' \in 0..MaxTransfers
  <2>1. offered \in [Workers -> SUBSET SUBSET Row] /\ begun \in 0..MaxTransfers
    BY DEF SystemInv, TransferTypeOK
  <2>2. offered' \in [Workers -> SUBSET SUBSET Row]
    BY <2>1, OfferedType
  <2> QED BY <1>1, <2>1, <2>2
<1>6. ops' \in [Workers -> Seq(Change)]
  BY <1>1
<1>7. /\ copy' \in [Zones -> Stores] /\ copySerial' \in [Zones -> Nat]
      /\ place' \in [Workers -> WorkPlaces] /\ job' \in [Workers -> Zones \cup {None}]
      /\ wanted' \in [Workers -> Nat] /\ reached' \in [Workers -> Nat]
      /\ rows' \in [Workers -> SUBSET Row] /\ todo' \in [Workers -> SUBSET Row]
      /\ \A w \in Workers : place'[w] = "idle"
  BY <1>1, <1>4
<1> QED BY <1>2, <1>3, <1>5, <1>6, <1>7 DEF WorkInv, TransferTypeOK
\* Whoever claimed a state that is still claimed goes on with it.
LEMMA ClaimsKept ==
    ASSUME InProgressIsOwned, NEW w \in Workers, place[w] # "triggered",
           place' \in [Workers -> WorkPlaces],
           \A v \in Workers \ {w} : place'[v] = place[v] /\ job'[v] = job[v],
           \A z \in Zones : xfer'[z] = "in-progress" => xfer[z] = "in-progress"
    PROVE  InProgressIsOwned'
BY DEF InProgressIsOwned

\* A worker begins.
LEMMA WorkBegins ==
    ASSUME SystemInv, TransferTypeOK', NEW w \in Workers, NEW z \in Zones,
           WorkerBegins(w, z), Offering
    PROVE  WorkInv'
<1> USE DEF copyVars, packetVars
<1>0. /\ UNCHANGED <<copy, copySerial, records, rows, ops, reached, todo>>
      /\ place[w] = "idle" /\ job'[w] = z
      /\ place'[w] \in {"triggered", "numbered", "cut", "asking"}
      /\ \A v \in Workers \ {w} :
            place'[v] = place[v] /\ job'[v] = job[v] /\ wanted'[v] = wanted[v]
  BY DEF WorkerBegins, StartTransfer, AskFull, AskDelta, Begin, Move, updateRest, zoneVars,
         SystemInv, TransferTypeOK
<1>1. \A v \in Workers \ {w} : Holding(v)'
  BY <1>0, OthersKept DEF SystemInv, WorkInv
<1>2. place'[w] = "numbered" => RowsOf(records'[job'[w]]) \in offered'[w]
  BY <1>0 DEF Offering, FirstOffer, FullPlaces
<1>3. ops'[w] = << >>
  BY <1>0 DEF SystemInv, WorkInv, Holding
<1>4. Holding(w)'
  BY <1>0, <1>2, <1>3 DEF Holding, FullPlaces
<1>5. OneLoader'
  BY <1>0 DEF SystemInv, WorkInv, OneLoader
<1>6. InProgressIsOwned'
  <2>1. CASE StartTransfer(w, z)
    <3>1. place'[w] = "triggered" /\ \A y \in Zones \ {z} : xfer'[y] = xfer[y]
      BY <2>1 DEF StartTransfer, Begin, Move, SystemInv, TransferTypeOK, TypeInv, TypeOK
    <3> QED BY <1>0, <3>1 DEF SystemInv, WorkInv, InProgressIsOwned
  <2>2. CASE ~ StartTransfer(w, z)
    <3>1. UNCHANGED xfer
      BY <2>2 DEF WorkerBegins, AskFull, AskDelta
    <3> QED BY <1>0, <3>1, ClaimsKept DEF SystemInv, WorkInv, TransferTypeOK
  <2> QED BY <2>1, <2>2
<1> QED BY <1>0, <1>1, <1>4, <1>5, <1>6 DEF SystemInv, WorkInv

\* A step of one worker is no step of another, writes no zone and claims nothing.
LEMMA OneWorker ==
    ASSUME TypeInv, TransferTypeOK, NEW w \in Workers, WorkerStep(w)
    PROVE  /\ place[w] # "idle" /\ job[w] \in Zones
           /\ UNCHANGED records
           /\ \A v \in Workers \ {w} :
                 /\ place'[v] = place[v] /\ job'[v] = job[v] /\ wanted'[v] = wanted[v]
                 /\ reached'[v] = reached[v] /\ rows'[v] = rows[v] /\ todo'[v] = todo[v]
                 /\ ops'[v] = ops[v]
           /\ \A z \in Zones : xfer'[z] = "in-progress" => xfer[z] = "in-progress"
<1> DEFINE Still == \A v \in Workers \ {w} :
               /\ place'[v] = place[v] /\ job'[v] = job[v] /\ wanted'[v] = wanted[v]
               /\ reached'[v] = reached[v] /\ rows'[v] = rows[v] /\ todo'[v] = todo[v]
               /\ ops'[v] = ops[v]
           Unclaimed == \A z \in Zones : xfer'[z] = "in-progress" => xfer[z] = "in-progress"
<1> USE DEF packetVars, copyVars, Stay, updateRest, zoneVars
<1>0. xfer \in [Zones -> TransferStates]
  BY DEF TypeInv, TypeOK
<1>1. CASE EndTriggered(w) \/ Fail(w) \/ EndApply(w) \/ EndChange(w)
  BY <1>0, <1>1 DEF EndTriggered, Fail, EndApply, EndChange, Finish, Leave, Move, TransferTypeOK
<1>2. CASE ReturnSnapshot(w) \/ ReturnDelta(w)
  BY <1>0, <1>2 DEF ReturnSnapshot, ReturnDelta, Finish, Move, TransferTypeOK
<1>3. CASE TakeSnapshot(w) \/ SetRange(w) \/ CutHistory(w)
  BY <1>3 DEF TakeSnapshot, SetRange, CutHistory, Move, TransferTypeOK
<1>4. CASE BeginLoad(w) \/ LoadRow(w) \/ EndLoad(w)
  BY <1>4 DEF BeginLoad, LoadRow, EndLoad, Move, TransferTypeOK
<1>5. CASE ApplyDelta(w) \/ RefuseDelta(w)
  BY <1>5 DEF ApplyDelta, RefuseDelta, Move, TransferTypeOK
<1> QED BY <1>1, <1>2, <1>3, <1>4, <1>5 DEF WorkerStep

\* What a worker has after a step of its own, and what the step makes of the
\* secondary.
LEMMA OwnStep ==
    ASSUME SystemInv, NEW w \in Workers, WorkerStep(w), Offering
    PROVE  /\ Holding(w)'
           /\ \A z \in Zones : copySerial'[z] = SeedSerial
           /\ \A z \in Zones : z # job[w] \/ place[w] = "delta" => copy'[z] = copy[z]
<1> USE DEF packetVars, copyVars, Stay, updateRest, zoneVars
<1>0. /\ TypeInv /\ TransferTypeOK /\ SerialsFixed /\ Holding(w)
      /\ \A z \in Zones : copySerial[z] = SeedSerial
  BY DEF SystemInv, WorkInv
<1>1. place[w] # "idle" /\ job[w] \in Zones /\ UNCHANGED records
  BY <1>0, OneWorker
<1>2. place'[w] \in FullPlaces \cup DeltaPlaces => offered'[w] = offered[w] \cup {RowsOf(records[job[w]])}
  BY <1>1 DEF Offering
<1>3. serial[job[w]] = SeedSerial
  BY <1>0, <1>1 DEF SerialsFixed
<1>4. CASE EndTriggered(w) \/ Fail(w) \/ EndApply(w) \/ EndChange(w)
  <2>1. place'[w] = "idle" /\ ops'[w] = << >> /\ UNCHANGED <<copy, copySerial>>
    BY <1>0, <1>4 DEF EndTriggered, Fail, EndApply, EndChange, Finish, Leave, Move, TransferTypeOK
  <2>h. Holding(w)'
    BY <1>0, <2>1 DEF Holding, FullPlaces
  <2> QED BY <1>0, <2>1, <2>h
<1>5. CASE ReturnSnapshot(w)
  <2>1. /\ place[w] = "copied" /\ place'[w] = "have"
        /\ UNCHANGED <<copy, copySerial, job, wanted, reached, rows, todo, ops>>
    BY <1>0, <1>5 DEF ReturnSnapshot, Finish, Move, TransferTypeOK
  <2>2. offered'[w] = offered[w] \cup {RowsOf(records[job[w]])}
    BY <1>2, <2>1 DEF FullPlaces
  <2>h. Holding(w)'
    BY <1>0, <1>1, <2>1, <2>2 DEF Holding, FullPlaces
  <2> QED BY <1>0, <1>1, <2>1, <2>2, <2>h
<1>6. CASE TakeSnapshot(w)
  <2>1. /\ place[w] = "numbered" /\ place'[w] \in {"failing", "copied"}
        /\ UNCHANGED <<copy, copySerial, job, wanted, todo, ops>>
        /\ rows'[w] = RowsOf(records[job[w]]) /\ reached'[w] = serial[job[w]]
    BY <1>0, <1>6 DEF TakeSnapshot, Taken, Move, TransferTypeOK
  <2>2. place'[w] = "copied" => offered'[w] = offered[w] \cup {RowsOf(records[job[w]])}
    BY <1>2, <2>1 DEF FullPlaces
  <2>3. OneEach(rows'[w])
    <3>1. records[job[w]] \in Stores /\ Distinct(records[job[w]])
      BY <1>1 DEF SystemInv, TypeInv, TypeOK, DistinctInv, ValuesDistinct
    <3> QED BY <2>1, <3>1, RowsOnce
  <2>h. Holding(w)'
    BY <1>0, <1>1, <1>3, <2>1, <2>2, <2>3 DEF Holding, FullPlaces
  <2> QED BY <1>0, <1>1, <1>3, <2>1, <2>2, <2>3, <2>h
<1>7. CASE BeginLoad(w)
  <2>1. /\ place[w] = "have" /\ place'[w] = "loading"
        /\ copy' = [copy EXCEPT ![job[w]] = EmptyStore]
        /\ todo'[w] = rows[w]
        /\ UNCHANGED <<copySerial, job, wanted, reached, rows, ops>>
    BY <1>0, <1>7 DEF BeginLoad, Cleared, Move, TransferTypeOK
  <2>2. copy'[job[w]] = EmptyStore /\ \A z \in Zones : z # job[w] => copy'[z] = copy[z]
    BY <1>0, <1>1, <2>1 DEF TransferTypeOK
  <2>h. Holding(w)'
    BY <1>0, <1>7, <2>1, <2>2, NoRows DEF Holding, FullPlaces
  <2> QED BY <1>0, <1>7, <2>1, <2>2, NoRows, <2>h
<1>8. CASE LoadRow(w)
  <2> DEFINE r == FirstOf(todo[w])
  <2>1. /\ place[w] = "loading" /\ place'[w] = "loading" /\ todo[w] # {}
        /\ copy' = [copy EXCEPT ![job[w]] = ApplyChange(copy[job[w]], UpsertOf(r))]
        /\ todo'[w] = todo[w] \ {r}
        /\ UNCHANGED <<copySerial, job, wanted, reached, rows, ops>>
    BY <1>0, <1>8 DEF LoadRow, Move, TransferTypeOK
  <2>2. /\ copy[job[w]] \in Stores /\ rows[w] \subseteq Row /\ OneEach(rows[w])
        /\ todo[w] \subseteq rows[w] /\ RowsOf(copy[job[w]]) = rows[w] \ todo[w]
    BY <1>0, <1>1, <2>1 DEF TransferTypeOK, Holding
  <2>3. RowsOf(ApplyChange(copy[job[w]], UpsertOf(r))) = rows[w] \ (todo[w] \ {r})
    BY <2>1, <2>2, OneRowLoaded
  <2> HIDE DEF r
  <2>4. /\ copy'[job[w]] = ApplyChange(copy[job[w]], UpsertOf(r))
        /\ \A z \in Zones : z # job[w] => copy'[z] = copy[z]
    BY <1>0, <1>1, <2>1 DEF TransferTypeOK
  <2>h. Holding(w)'
    BY <1>0, <1>8, <2>1, <2>2, <2>3, <2>4 DEF Holding, FullPlaces
  <2> QED BY <1>0, <1>8, <2>1, <2>2, <2>3, <2>4, <2>h
<1>9. CASE EndLoad(w)
  <2>1. /\ place[w] = "loading" /\ place'[w] = "applied"
        /\ copySerial' = [copySerial EXCEPT ![job[w]] = reached[w]]
        /\ UNCHANGED <<copy, job, wanted, reached, rows, todo, ops>>
    BY <1>0, <1>9 DEF EndLoad, Move, TransferTypeOK
  <2>2. \A z \in Zones : copySerial'[z] = SeedSerial
    BY <1>0, <2>1 DEF TransferTypeOK, Holding
  <2>h. Holding(w)'
    BY <1>0, <2>1, <2>2 DEF Holding, FullPlaces
  <2> QED BY <1>0, <2>1, <2>2, <2>h
<1>10. CASE CutHistory(w)
  <2>1. /\ place[w] = "asking" /\ place'[w] \in {"failing", "cut"}
        /\ ops'[w] = ChangesAfter(job[w], wanted[w])
        /\ UNCHANGED <<copy, copySerial, job, wanted, reached, rows, todo>>
    BY <1>0, <1>10 DEF CutHistory, Move, TransferTypeOK
  <2>2. history[job[w]] \in Seq(Entry) /\ wanted[w] \in Nat
        /\ \A i \in 1..Len(history[job[w]]) : history[job[w]][i].serial = SeedSerial
    BY <1>0, <1>1 DEF TypeInv, TypeOK, TransferTypeOK, SerialsFixed
  <2>3. wanted[w] = SeedSerial => ops'[w] = << >>
    BY <2>1, <2>2, HistoryChanges, ChangesAfterType
  <2>h. Holding(w)'
    BY <1>0, <2>1, <2>3 DEF Holding, FullPlaces
  <2> QED BY <1>0, <2>1, <2>3, <2>h
<1>11. CASE SetRange(w)
  <2>1. /\ place[w] = "cut" /\ place'[w] = "ranged" /\ reached'[w] = serial[job[w]]
        /\ UNCHANGED <<copy, copySerial, job, wanted, rows, todo, ops>>
    BY <1>0, <1>11 DEF SetRange, Move, TransferTypeOK
  <2>h. Holding(w)'
    BY <1>0, <1>3, <2>1 DEF Holding, FullPlaces
  <2> QED BY <1>0, <1>3, <2>1, <2>h
<1>12. CASE ReturnDelta(w) \/ RefuseDelta(w)
  <2>1. /\ \/ place[w] = "ranged" /\ place'[w] = "delta"
           \/ place[w] = "delta" /\ place'[w] = "failing"
        /\ UNCHANGED <<copy, copySerial, job, wanted, reached, rows, todo, ops>>
    BY <1>0, <1>12 DEF ReturnDelta, RefuseDelta, Finish, Move, TransferTypeOK
  <2>h. Holding(w)'
    BY <1>0, <2>1 DEF Holding, FullPlaces
  <2> QED BY <1>0, <2>1, <2>h
<1>13. CASE ApplyDelta(w)
  <2>1. /\ place[w] = "delta" /\ place'[w] = "changed" /\ wanted[w] = copySerial[job[w]]
        /\ copy' = [copy EXCEPT ![job[w]] = AfterOps(copy[job[w]], ops[w])]
        /\ copySerial' = [copySerial EXCEPT ![job[w]] = reached[w]]
        /\ UNCHANGED <<job, wanted, reached, rows, todo, ops>>
    BY <1>0, <1>13 DEF ApplyDelta, Move, TransferTypeOK
  <2>2. wanted[w] = SeedSerial /\ ops[w] = << >> /\ reached[w] = SeedSerial
    BY <1>0, <1>1, <2>1 DEF Holding
  <2>3. AfterOps(copy[job[w]], ops[w]) = copy[job[w]]
    BY <2>2, NothingApplied
  <2>4. \A z \in Zones : copy'[z] = copy[z] /\ copySerial'[z] = SeedSerial
    BY <1>0, <2>1, <2>2, <2>3 DEF TransferTypeOK
  <2>h. Holding(w)'
    BY <1>0, <2>1, <2>2, <2>4 DEF Holding, FullPlaces
  <2> QED BY <1>0, <2>1, <2>2, <2>4, <2>h
<1> QED BY <1>4, <1>5, <1>6, <1>7, <1>8, <1>9, <1>10, <1>11, <1>12, <1>13 DEF WorkerStep

\* A step of a worker: the others keep what they have, nobody else fills the
\* same secondary, and a claim is still owned.
LEMMA WorkSteps ==
    ASSUME SystemInv, TransferTypeOK', NEW w \in Workers, WorkerStep(w), Offering
    PROVE  WorkInv'
<1>0. /\ TypeInv /\ TransferTypeOK /\ OneLoader /\ InProgressIsOwned
      /\ \A v \in Workers : Holding(v)
  BY DEF SystemInv, WorkInv
<1>1. /\ place[w] # "idle" /\ job[w] \in Zones
      /\ \A v \in Workers \ {w} :
            /\ place'[v] = place[v] /\ job'[v] = job[v] /\ wanted'[v] = wanted[v]
            /\ reached'[v] = reached[v] /\ rows'[v] = rows[v] /\ todo'[v] = todo[v]
            /\ ops'[v] = ops[v]
      /\ \A z \in Zones : xfer'[z] = "in-progress" => xfer[z] = "in-progress"
  BY <1>0, OneWorker
<1>2. /\ Holding(w)' /\ \A z \in Zones : copySerial'[z] = SeedSerial
      /\ \A z \in Zones : z # job[w] => copy'[z] = copy[z]
  BY OwnStep
<1>3. \/ UNCHANGED copy
      \/ place[w] = "loading"
      \/ \A v \in Workers : ~ (place[v] = "loading" /\ job[v] = job[w])
  BY DEF WorkerStep, EndTriggered, Fail, TakeSnapshot, ReturnSnapshot, BeginLoad, LoadRow, EndLoad,
         EndApply, CutHistory, SetRange, ReturnDelta, ApplyDelta, RefuseDelta, EndChange, Finish,
         Leave, Stay, Move, Unlocked, copyVars, packetVars
<1>4. ASSUME NEW v \in Workers \ {w}, place[v] = "loading" PROVE copy'[job[v]] = copy[job[v]]
  <2>1. job[v] \in Zones
    BY <1>0, <1>4 DEF TransferTypeOK
  <2>2. CASE job[v] # job[w]
    BY <1>2, <2>1, <2>2
  <2>3. CASE job[v] = job[w]
    <3>1. place[w] # "loading"
      BY <1>0, <1>4, <2>3 DEF OneLoader
    <3> QED BY <1>3, <1>4, <2>3, <3>1
  <2> QED BY <2>2, <2>3
<1>5. \A v \in Workers \ {w} : Holding(v)'
  BY <1>0, <1>1, <1>4, OthersKept
<1>6. place'[w] = "loading" =>
         \/ place[w] = "loading" /\ job'[w] = job[w]
         \/ job'[w] = job[w] /\ \A v \in Workers : ~ (place[v] = "loading" /\ job[v] = job[w])
  BY <1>0 DEF WorkerStep, EndTriggered, Fail, TakeSnapshot, ReturnSnapshot, BeginLoad, LoadRow, EndLoad,
         EndApply, CutHistory, SetRange, ReturnDelta, ApplyDelta, RefuseDelta, EndChange, Finish,
         Move, Unlocked, TransferTypeOK
<1>7. OneLoader'
  BY <1>0, <1>1, <1>6 DEF OneLoader
<1>8. InProgressIsOwned'
  <2>1. CASE place[w] # "triggered"
    BY <1>0, <1>1, <2>1, ClaimsKept DEF TransferTypeOK
  <2>2. CASE place[w] = "triggered"
    <3>1. EndTriggered(w)
      BY <2>2 DEF WorkerStep, EndTriggered, Fail, TakeSnapshot, ReturnSnapshot, BeginLoad, LoadRow,
         EndLoad, EndApply, CutHistory, SetRange, ReturnDelta, ApplyDelta, RefuseDelta, EndChange,
         Finish, Move
    <3>2. xfer'[job[w]] = "complete"
      BY <1>0, <1>1, <3>1 DEF EndTriggered, Finish, TypeInv, TypeOK
    <3> QED BY <1>0, <1>1, <3>2 DEF InProgressIsOwned
  <2> QED BY <2>1, <2>2
<1> QED BY <1>2, <1>5, <1>7, <1>8 DEF WorkInv

\* The whole system starts with its invariant.
LEMMA SystemInitInv == SystemInit => SystemInv
<1> SUFFICES ASSUME SystemInit PROVE SystemInv
  OBVIOUS
<1>1. TypeInv
  BY InitType DEF SystemInit
<1>2. DistinctInv /\ SerialsFixed
  BY SeedAssumption DEF SystemInit, Init, DistinctInv, ValuesDistinct, StagedDistinct, SerialsFixed,
                        Inside
<1>3. TransferTypeOK
  <2>1. EmptyStore \in Stores /\ SeedSerial \in Nat /\ "idle" \in WorkPlaces
    BY NoRows, UpdateAssumption DEF WorkPlaces
  <2>2. ops \in [Workers -> Seq(Change)] /\ begun \in 0..MaxTransfers
    BY TransferAssumption DEF SystemInit
  <2> QED BY <2>1, <2>2 DEF SystemInit, TransferTypeOK
<1>4. \A w \in Workers : Holding(w)
  BY DEF SystemInit, Holding, FullPlaces
<1>5. OneLoader /\ InProgressIsOwned /\ \A z \in Zones : copySerial[z] = SeedSerial
  BY DEF SystemInit, Init, OneLoader, InProgressIsOwned
<1> QED BY <1>1, <1>2, <1>3, <1>4, <1>5 DEF SystemInv, WorkInv

\* An update step is a step of the update path, and it leaves the types of the
\* transfers.
LEMMA UpdateSide ==
    ASSUME SystemInv, UpdateStep \/ EndProcess, Offering
    PROVE  Next /\ TransferTypeOK'
<1>1. CASE UpdateStep
  <2>1. Next
    BY <1>1 DEF UpdateStep, Next, Stop
  <2>2. UNCHANGED <<copy, copySerial, place, job, wanted, reached, rows, todo, ops, begun>>
    BY <1>1 DEF UpdateStep, copyVars, workVars, packetVars
  <2>3. offered' \in [Workers -> SUBSET SUBSET Row]
    BY OfferedType DEF SystemInv, TransferTypeOK
  <2> QED BY <2>1, <2>2, <2>3 DEF SystemInv, TransferTypeOK
<1>2. CASE EndProcess
  BY <1>2, WorkEnds DEF EndProcess, Next, Stop
<1> QED BY <1>1, <1>2

\* Every step of the system keeps the invariant.
LEMMA SystemStep == SystemInv /\ [SystemNext]_systemVars => SystemInv'
<1> SUFFICES ASSUME SystemInv, [SystemNext]_systemVars PROVE SystemInv'
  OBVIOUS
<1>0. TypeInv /\ DistinctInv /\ SerialsFixed /\ TransferTypeOK
  BY DEF SystemInv
<1>1. ASSUME UpdateStep \/ EndProcess, Offering PROVE SystemInv'
  <2>1. Next /\ TransferTypeOK'
    BY <1>1, UpdateSide
  <2>2. TypeInv' /\ DistinctInv' /\ SerialsFixed'
    BY <1>0, <2>1, StepType, StepDistinct, SerialsStep
  <2> QED BY <1>1, <2>1, <2>2, WorkUpdate, WorkEnds DEF SystemInv
<1>2. ASSUME Beside PROVE TypeInv' /\ DistinctInv' /\ SerialsFixed'
  <2>1. UNCHANGED <<serial, history, pc, staged>>
    BY <1>2 DEF Beside, updateRest, zoneVars
  <2> QED BY <1>0, <1>2, <2>1, BesideType, SerialsUnchanged
<1>3. ASSUME NEW w \in Workers, NEW z \in Zones, WorkerBegins(w, z), Offering PROVE SystemInv'
  <2>1. Beside /\ TransferTypeOK'
    BY <1>0, <1>3, BeginsType
  <2> QED BY <1>2, <1>3, <2>1, WorkBegins DEF SystemInv
<1>4. ASSUME NEW w \in Workers, WorkerStep(w), Offering PROVE SystemInv'
  <2>1. Beside /\ TransferTypeOK'
    BY <1>0, <1>4, WorkerType
  <2> QED BY <1>2, <1>4, <2>1, WorkSteps DEF SystemInv
<1>5. ASSUME UNCHANGED systemVars PROVE SystemInv'
  <2>1. /\ UNCHANGED vars
        /\ UNCHANGED <<copy, copySerial, place, job, wanted, reached, rows, todo, ops, begun, offered>>
        /\ UNCHANGED <<records, xfer>>
    BY <1>5 DEF systemVars, copyVars, workVars, packetVars, vars, zoneVars, senderVars
  <2>2. TypeInv' /\ DistinctInv'
    BY <1>0, <2>1, StepType, StepDistinct
  <2>3. SerialsFixed'
    BY <1>0, <2>1 DEF SerialsFixed, vars, zoneVars
  <2>4. TransferTypeOK'
    BY <1>0, <2>1 DEF TransferTypeOK
  <2>5. WorkInv'
    BY <2>1 DEF SystemInv, WorkInv, Holding, OneLoader, InProgressIsOwned
  <2> QED BY <2>2, <2>3, <2>4, <2>5 DEF SystemInv
<1> QED BY <1>1, <1>3, <1>4, <1>5 DEF SystemNext

\* Every variable of the update path and of the transfers beside it keeps its
\* type, whatever fails and however many workers transfer.
THEOREM TransferTypes == SystemSpec => [](TypeOK /\ TransferTypeOK)
<1>1. SystemInv => TypeOK /\ TransferTypeOK
  BY DEF SystemInv, TypeInv
<1> QED BY <1>1, SystemInitInv, SystemStep, PTL DEF SystemSpec

\* What a worker carries is one whole content its primary has had since the
\* transfer began, and a secondary is filled by one worker with nothing else,
\* though updates are staged and rolled back meanwhile.
THEOREM SnapshotsWhole == SystemSpec => []Carried
<1>1. SystemInv => Carried
  BY DEF SystemInv, WorkInv, Holding, OneLoader, Carried
<1> QED BY <1>1, SystemInitInv, SystemStep, PTL DEF SystemSpec

\* A zone said to be in transfer has a worker that will give its state back,
\* whichever notifications and transfers write the state meanwhile.
THEOREM ClaimsOwned == SystemSpec => []InProgressIsOwned
<1>1. SystemInv => InProgressIsOwned
  BY DEF SystemInv, WorkInv
<1> QED BY <1>1, SystemInitInv, SystemStep, PTL DEF SystemSpec

-----------------------------------------------------------------------------
(***************************************************************************)
(* Transfers implement ZoneCopy.                                           *)
(***************************************************************************)

\* What a secondary shows stays, if the same workers fill it with the same
\* snapshots or nobody writes to it.
LEMMA ShownKept ==
    ASSUME NEW z \in Zones,
           \A v \in Workers :
               (place'[v] = "loading" /\ job'[v] = z) <=> (place[v] = "loading" /\ job[v] = z),
           \A v \in Workers : place[v] = "loading" => rows'[v] = rows[v],
           copy'[z] = copy[z] \/ Loaders(z) # {}
    PROVE  Shown'[z] = Shown[z]
<1>1. Loaders(z)' = Loaders(z)
  BY DEF Loaders
<1>2. \A v \in Loaders(z) : rows'[v] = rows[v]
  BY DEF Loaders
<1>3. Shown[z] = IF Loaders(z) = {} THEN RowsOf(copy[z]) ELSE UNION {rows[w] : w \in Loaders(z)}
  BY DEF Shown
<1>4. Shown'[z] = IF Loaders(z)' = {} THEN RowsOf(copy'[z])
                  ELSE UNION {rows'[w] : w \in Loaders(z)'}
  BY DEF Shown
<1>5. UNION {rows'[w] : w \in Loaders(z)} = UNION {rows[w] : w \in Loaders(z)}
  BY <1>2
<1> QED BY <1>1, <1>3, <1>4, <1>5

\* What the workers aim at and may deliver stays while the primaries do, if no
\* worker begins or ends a full transfer.
LEMMA AimsKept ==
    ASSUME SystemInv, Offering, UNCHANGED records,
           \A v \in Workers :
              \/ place[v] \notin FullPlaces /\ place'[v] \notin FullPlaces
              \/ place[v] \in FullPlaces /\ place'[v] \in FullPlaces /\ job'[v] = job[v]
    PROVE  UNCHANGED <<Primary, Aim, Window>>
<1>1. Primary' = Primary
  BY DEF Primary
<1>2. Aim' = Aim
  BY DEF Aim
<1>3. ASSUME NEW v \in Workers, place[v] \in FullPlaces PROVE offered'[v] = offered[v]
  <2>1. place'[v] \in FullPlaces /\ place[v] # "idle"
    BY <1>3 DEF FullPlaces
  <2>2. offered'[v] = offered[v] \cup {RowsOf(records[job[v]])}
    BY <2>1 DEF Offering
  <2>3. RowsOf(records[job[v]]) \in offered[v]
    BY <1>3 DEF SystemInv, WorkInv, Holding
  <2> QED BY <2>2, <2>3
<1>4. Window' = Window
  BY <1>3 DEF Window
<1> QED BY <1>1, <1>2, <1>4

\* An update changes one primary at most.
LEMMA OneZone ==
    ASSUME TypeInv, UpdateStep
    PROVE  UNCHANGED records \/ \E z \in Zones : \E st : records' = [records EXCEPT ![z] = st]
<1>1. ASSUME NEW c \in Clients, Stage(c) \/ Rollback(c)
      PROVE  \E z \in Zones : \E st : records' = [records EXCEPT ![z] = st]
  <2>1. ZoneAt(c) \in Zones
    <3>1. CASE Stage(c)
      BY <3>1 DEF Stage, Accepted, ZoneAt
    <3>2. CASE Rollback(c)
      <4>1. pc[c] \in Inside
        BY <3>2 DEF Rollback, Return, Step, Inside, Places
      <4> QED BY <4>1, EntryType
    <3> QED BY <1>1, <3>1, <3>2
  <2>2. \E st : records' = [records EXCEPT ![ZoneAt(c)] = st]
    BY <1>1 DEF Stage, Rollback, Restored
  <2> QED BY <2>1, <2>2
<1>2. CASE ReplayEntry
  <2>1. mode = "replaying" /\ replayed < Len(lines) /\ lines \in Logs /\ replayed + 1 \in 1..Len(lines)
    BY <1>2 DEF ReplayEntry, TypeInv, TypeOK, Logs
  <2>2. lines[replayed + 1] \in Entry
    BY <2>1, ElementOfSeq DEF TypeInv, Control, Logs
  <2>3. Read(lines[replayed + 1]).zone \in Zones
    BY <2>2, ReadType DEF Entry
  <2>4. \E st : records' = [records EXCEPT ![Read(lines[replayed + 1]).zone] = st]
    BY <1>2 DEF ReplayEntry, NextToReplay
  <2> QED BY <2>3, <2>4
<1> QED BY <1>1, <1>2
        DEF UpdateStep, Call, ApplyStep, Reject, AppendJournal, AppendWritten, AppendWithoutFile,
            AppendRefused, AppendUnsynced, AppendTorn, CommitZone, Resigned, ResignFailed,
            NotifyInCommit, NotifyAndReturn, Boot, Start, ReplayFails, Serve, Shutdown,
            CloseJournal, zoneVars, vars

\* An update is a new content, or none, and every full transfer under way may
\* deliver it.
LEMMA UpdateCopied ==
    ASSUME SystemInv, UpdateStep, Offering
    PROVE  [Copied!Next]_(Copied!vars)
<1>1. UNCHANGED <<copy, copySerial, place, job, wanted, reached, rows, todo, ops, begun>>
  BY DEF UpdateStep, copyVars, workVars, packetVars
<1>2. Shown' = Shown /\ Aim' = Aim
  BY <1>1 DEF Shown, Loaders, Aim
<1>3. CASE UNCHANGED records
  <2>1. UNCHANGED <<Primary, Aim, Window>>
    BY <1>1, <1>3, AimsKept
  <2> QED BY <1>2, <2>1 DEF Copied!vars
<1>4. ASSUME NEW z \in Zones, NEW st, records' = [records EXCEPT ![z] = st]
      PROVE  Copied!Change(z)
  <2>1. records \in [Zones -> Stores] /\ TransferTypeOK
    BY DEF SystemInv, TypeInv, TypeOK
  <2>2. RowsOf(records'[z]) \in SUBSET Row
    BY DEF RowsOf
  <2>3. \A y \in Zones : y # z => records'[y] = records[y]
    BY <1>4, <2>1
  <2>4. Primary' = [Primary EXCEPT ![z] = RowsOf(records'[z])]
    BY <2>3 DEF Primary
  <2>5. ASSUME NEW v \in Workers
        PROVE  Window'[v] = IF Aim[v] = z THEN Window[v] \cup {Primary'[z]} ELSE Window[v]
    <3>1. CASE place[v] \notin FullPlaces
      BY <1>1, <3>1, TransferAssumption DEF Window, Aim
    <3>2. CASE place[v] \in FullPlaces
      <4>1. job[v] \in Zones /\ Aim[v] = job[v] /\ Window[v] = offered[v] /\ Window'[v] = offered'[v]
        BY <1>1, <2>1, <3>2 DEF TransferTypeOK, FullPlaces, Aim, Window
      <4>2. offered'[v] = offered[v] \cup {RowsOf(records'[job[v]])}
        BY <1>1, <3>2 DEF Offering, FullPlaces
      <4>3. RowsOf(records[job[v]]) \in offered[v]
        BY <3>2 DEF SystemInv, WorkInv, Holding
      <4>4. Primary'[z] = RowsOf(records'[z])
        BY DEF Primary
      <4> QED BY <2>3, <4>1, <4>2, <4>3, <4>4
    <3> QED BY <3>1, <3>2
  <2>6. Window' = [v \in Workers |-> IF Aim[v] = z THEN Window[v] \cup {Primary'[z]} ELSE Window[v]]
    BY <2>5 DEF Window
  <2> QED BY <1>2, <2>2, <2>4, <2>6 DEF Copied!Change
<1> QED BY <1>3, <1>4, OneZone DEF SystemInv, Copied!Next

\* The next process is a restart.
LEMMA EndCopied ==
    ASSUME SystemInv, EndProcess
    PROVE  Copied!Next
<1>1. /\ copy' = [z \in Zones |-> EmptyStore] /\ place' = [w \in Workers |-> "idle"]
  BY DEF EndProcess, FreshSecondaries
<1>2. Primary' \in [Zones -> SUBSET Row]
  BY DEF Primary, RowsOf
<1>3. Shown' = [z \in Zones |-> {}]
  BY <1>1, NoRows DEF Shown, Loaders
<1>4. Aim' = [w \in Workers |-> None] /\ Window' = [w \in Workers |-> {}]
  BY <1>1 DEF Aim, Window, FullPlaces
<1> QED BY <1>2, <1>3, <1>4 DEF Copied!Next, Copied!Restart

\* A worker that begins a full transfer aims at its zone; any other beginning
\* is hidden.
LEMMA BeginCopied ==
    ASSUME SystemInv, NEW w \in Workers, NEW z \in Zones, WorkerBegins(w, z), Offering
    PROVE  [Copied!Next]_(Copied!vars)
<1> USE DEF copyVars, packetVars
<1>0. /\ UNCHANGED <<copy, records, rows>>
      /\ place[w] = "idle" /\ job'[w] = z
      /\ place'[w] \in {"triggered", "numbered", "cut", "asking"}
      /\ \A v \in Workers \ {w} : place'[v] = place[v] /\ job'[v] = job[v]
  BY DEF WorkerBegins, StartTransfer, AskFull, AskDelta, Begin, Move, updateRest, zoneVars,
         SystemInv, TransferTypeOK
<1>1. Shown' = Shown
  <2>1. ASSUME NEW y \in Zones PROVE Shown'[y] = Shown[y]
    <3>1. \A v \in Workers :
             (place'[v] = "loading" /\ job'[v] = y) <=> (place[v] = "loading" /\ job[v] = y)
      BY <1>0
    <3> QED BY <1>0, <3>1, ShownKept
  <2> QED BY <2>1 DEF Shown
<1>2. CASE place'[w] # "numbered"
  <2>1. UNCHANGED <<Primary, Aim, Window>>
    <3>1. \A v \in Workers :
              \/ place[v] \notin FullPlaces /\ place'[v] \notin FullPlaces
              \/ place[v] \in FullPlaces /\ place'[v] \in FullPlaces /\ job'[v] = job[v]
      BY <1>0, <1>2 DEF FullPlaces
    <3> QED BY <1>0, <3>1, AimsKept
  <2> QED BY <1>1, <2>1 DEF Copied!vars
<1>3. CASE place'[w] = "numbered"
  <2>1. Aim[w] = None /\ Primary' = Primary
    BY <1>0 DEF Aim, FullPlaces, Primary
  <2>2. Aim' = [Aim EXCEPT ![w] = z]
    BY <1>0, <1>3 DEF Aim, FullPlaces
  <2>3. offered'[w] = {RowsOf(records[z])}
    BY <1>0, <1>3 DEF Offering, FirstOffer, FullPlaces
  <2>4. ASSUME NEW v \in Workers \ {w} PROVE Window'[v] = Window[v]
    <3>1. CASE place[v] \notin FullPlaces
      BY <1>0, <3>1 DEF Window
    <3>2. CASE place[v] \in FullPlaces
      <4>1. offered'[v] = offered[v] \cup {RowsOf(records[job[v]])}
        BY <1>0, <3>2 DEF Offering, FullPlaces
      <4>2. RowsOf(records[job[v]]) \in offered[v]
        BY <3>2 DEF SystemInv, WorkInv, Holding
      <4> QED BY <1>0, <3>2, <4>1, <4>2 DEF Window
    <3> QED BY <3>1, <3>2
  <2>5. Window'[w] = {Primary[z]}
    BY <1>3, <2>3 DEF Window, FullPlaces, Primary
  <2>6. Window' = [Window EXCEPT ![w] = {Primary[z]}]
    BY <2>4, <2>5 DEF Window
  <2> QED BY <1>1, <2>1, <2>2, <2>6 DEF Copied!Next, Copied!Begin
<1> QED BY <1>2, <1>3

\* A full transfer that is over leaves nothing on offer; the others keep theirs.
LEMMA OverCopied ==
    ASSUME SystemInv, NEW w \in Workers, Offering, UNCHANGED records,
           place[w] \in FullPlaces, place'[w] \notin FullPlaces,
           \A v \in Workers \ {w} : place'[v] = place[v] /\ job'[v] = job[v]
    PROVE  Copied!Over(w) /\ UNCHANGED Primary
<1>1. job[w] \in Zones /\ Aim[w] = job[w] /\ Aim[w] # None
  BY TransferAssumption DEF SystemInv, TransferTypeOK, FullPlaces, Aim
<1>2. Aim' = [Aim EXCEPT ![w] = None]
  BY DEF Aim
<1>3. ASSUME NEW v \in Workers \ {w} PROVE Window'[v] = Window[v]
  <2>1. CASE place[v] \notin FullPlaces
    BY <2>1 DEF Window
  <2>2. CASE place[v] \in FullPlaces
    <3>1. offered'[v] = offered[v] \cup {RowsOf(records[job[v]])}
      BY <2>2 DEF Offering, FullPlaces
    <3>2. RowsOf(records[job[v]]) \in offered[v]
      BY <2>2 DEF SystemInv, WorkInv, Holding
    <3> QED BY <2>2, <3>1, <3>2 DEF Window
  <2> QED BY <2>1, <2>2
<1>4. Window' = [Window EXCEPT ![w] = {}]
  BY <1>3 DEF Window
<1>5. Primary' = Primary
  BY DEF Primary
<1> QED BY <1>1, <1>2, <1>4, <1>5 DEF Copied!Over

\* A snapshot is delivered when ApplyFull begins to fill the secondary.
LEMMA LoadCopied ==
    ASSUME SystemInv, NEW w \in Workers, BeginLoad(w), Offering
    PROVE  Copied!Deliver(w)
<1>0. TypeInv /\ TransferTypeOK /\ Holding(w) /\ WorkerStep(w)
  BY DEF SystemInv, WorkInv, WorkerStep
<1>1. /\ place[w] = "have" /\ place' = [place EXCEPT ![w] = "loading"]
      /\ Loaders(job[w]) = {} /\ UNCHANGED <<job, rows>>
  BY DEF BeginLoad, Move, Unlocked, Loaders
<1>2. /\ place'[w] = "loading" /\ job[w] \in Zones /\ UNCHANGED records
      /\ \A v \in Workers \ {w} : place'[v] = place[v] /\ job'[v] = job[v]
  BY <1>0, <1>1, OneWorker DEF TransferTypeOK
<1>3. Copied!Over(w) /\ UNCHANGED Primary
  BY <1>1, <1>2, OverCopied DEF FullPlaces
<1>4. rows[w] \in Window[w] /\ Aim[w] = job[w]
  BY <1>0, <1>1 DEF Holding, Window, Aim, FullPlaces
<1>5. Shown'[job[w]] = rows[w]
  <2>1. Loaders(job[w])' = {w}
    BY <1>1, <1>2 DEF Loaders
  <2>2. Shown'[job[w]] = UNION {rows'[v] : v \in Loaders(job[w])'}
    <3>1. Loaders(job[w])' # {} /\ job'[w] = job[w]
      BY <1>1, <2>1
    <3>2. ASSUME NEW z \in Zones, Loaders(z)' # {}
          PROVE  Shown'[z] = UNION {rows'[v] : v \in Loaders(z)'}
      BY <3>2 DEF Shown
    <3> HIDE DEF Loaders
    <3> QED BY <1>2, <3>1, <3>2
  <2> QED BY <1>1, <2>1, <2>2
<1>6. ASSUME NEW z \in Zones, z # job[w] PROVE Shown'[z] = Shown[z]
  <2>1. copy'[z] = copy[z]
    BY <1>0, <1>6, OwnStep
  <2>2. \A v \in Workers :
           (place'[v] = "loading" /\ job'[v] = z) <=> (place[v] = "loading" /\ job[v] = z)
    BY <1>1, <1>2, <1>6
  <2> QED BY <1>1, <2>1, <2>2, ShownKept
<1>7. Shown' = [Shown EXCEPT ![job[w]] = rows[w]]
  BY <1>5, <1>6 DEF Shown
<1> QED BY <1>3, <1>4, <1>7 DEF Copied!Deliver

\* What a reader sees when the filling is done is the snapshot.
LEMMA LoadedCopied ==
    ASSUME SystemInv, NEW w \in Workers, EndLoad(w), Offering
    PROVE  UNCHANGED Copied!vars
<1>0. TypeInv /\ TransferTypeOK /\ Holding(w) /\ WorkerStep(w) /\ OneLoader
  BY DEF SystemInv, WorkInv, WorkerStep
<1>1. /\ place[w] = "loading" /\ place' = [place EXCEPT ![w] = "applied"] /\ todo[w] = {}
      /\ UNCHANGED <<copy, job, rows>>
  BY DEF EndLoad, Move, packetVars
<1>2. /\ place'[w] = "applied" /\ job[w] \in Zones /\ UNCHANGED records
      /\ \A v \in Workers \ {w} : place'[v] = place[v] /\ job'[v] = job[v]
  BY <1>0, <1>1, OneWorker DEF TransferTypeOK
<1>3. UNCHANGED <<Primary, Aim, Window>>
  <2>1. \A v \in Workers :
            \/ place[v] \notin FullPlaces /\ place'[v] \notin FullPlaces
            \/ place[v] \in FullPlaces /\ place'[v] \in FullPlaces /\ job'[v] = job[v]
    BY <1>1, <1>2 DEF FullPlaces
  <2> QED BY <1>2, <2>1, AimsKept
<1>4. Shown'[job[w]] = Shown[job[w]]
  <2>1. Loaders(job[w]) = {w} /\ Loaders(job[w])' = {}
    BY <1>0, <1>1, <1>2 DEF Loaders, OneLoader
  <2>2. Shown[job[w]] = UNION {rows[v] : v \in Loaders(job[w])}
    BY <1>2, <2>1 DEF Shown
  <2>3. Shown'[job[w]] = RowsOf(copy'[job[w]])
    BY <1>1, <1>2, <2>1 DEF Shown
  <2>4. RowsOf(copy[job[w]]) = rows[w]
    BY <1>0, <1>1 DEF Holding
  <2> QED BY <1>1, <2>1, <2>2, <2>3, <2>4
<1>5. ASSUME NEW z \in Zones, z # job[w] PROVE Shown'[z] = Shown[z]
  <2>1. \A v \in Workers :
           (place'[v] = "loading" /\ job'[v] = z) <=> (place[v] = "loading" /\ job[v] = z)
    BY <1>1, <1>2, <1>5
  <2> QED BY <1>1, <2>1, ShownKept
<1>6. Shown' = Shown
  BY <1>4, <1>5 DEF Shown
<1> QED BY <1>3, <1>6 DEF Copied!vars

\* Every other step of a worker is hidden, or gives its transfer up.
LEMMA WorkerCopied ==
    ASSUME SystemInv, NEW w \in Workers, WorkerStep(w), Offering
    PROVE  [Copied!Next]_(Copied!vars)
<1>0. TypeInv /\ TransferTypeOK /\ Holding(w)
  BY DEF SystemInv, WorkInv
<1>1. /\ place[w] # "idle" /\ job[w] \in Zones /\ UNCHANGED records
      /\ \A v \in Workers \ {w} : place'[v] = place[v] /\ job'[v] = job[v] /\ rows'[v] = rows[v]
  BY <1>0, OneWorker
<1>2. CASE BeginLoad(w)
  BY <1>2, LoadCopied DEF Copied!Next
<1>3. CASE EndLoad(w)
  BY <1>3, LoadedCopied
<1>4. CASE ~ BeginLoad(w) /\ ~ EndLoad(w)
  <2>1. \/ /\ place[w] = "loading" /\ place'[w] = "loading" /\ UNCHANGED <<job, rows>>
        \/ /\ place[w] # "loading" /\ place'[w] # "loading"
           /\ UNCHANGED copy \/ place[w] = "delta"
    BY <1>0, <1>4 DEF WorkerStep, EndTriggered, Fail, TakeSnapshot, ReturnSnapshot, LoadRow,
         EndApply, CutHistory, SetRange, ReturnDelta, ApplyDelta, RefuseDelta, EndChange, Finish,
         Move, TransferTypeOK, copyVars
  <2>2. \/ place[w] \in FullPlaces /\ place'[w] \in FullPlaces /\ job'[w] = job[w]
        \/ place[w] \notin FullPlaces /\ place'[w] \notin FullPlaces
        \/ place[w] = "numbered" /\ place'[w] = "failing"
    BY <1>0, <1>4 DEF WorkerStep, EndTriggered, Fail, TakeSnapshot, ReturnSnapshot, LoadRow,
         EndApply, CutHistory, SetRange, ReturnDelta, ApplyDelta, RefuseDelta, EndChange, Finish,
         Move, TransferTypeOK, FullPlaces, Stay, packetVars
  <2>3. ASSUME NEW z \in Zones PROVE Shown'[z] = Shown[z]
    <3>1. \A v \in Workers :
             (place'[v] = "loading" /\ job'[v] = z) <=> (place[v] = "loading" /\ job[v] = z)
      BY <1>1, <2>1
    <3>2. \A v \in Workers : place[v] = "loading" => rows'[v] = rows[v]
      BY <1>1, <2>1
    <3>3. copy'[z] = copy[z] \/ Loaders(z) # {}
      <4>1. \A y \in Zones : y # job[w] \/ place[w] = "delta" => copy'[y] = copy[y]
        BY OwnStep
      <4> QED BY <2>1, <4>1 DEF Loaders
    <3> QED BY <3>1, <3>2, <3>3, ShownKept
  <2>4. Shown' = Shown
    BY <2>3 DEF Shown
  <2>5. CASE place[w] = "numbered" /\ place'[w] = "failing"
    <3>1. Copied!Over(w) /\ UNCHANGED Primary
      BY <1>1, <2>5, OverCopied DEF FullPlaces
    <3> QED BY <2>4, <3>1 DEF Copied!Next, Copied!GiveUp
  <2>6. CASE ~ (place[w] = "numbered" /\ place'[w] = "failing")
    <3>1. \A v \in Workers :
              \/ place[v] \notin FullPlaces /\ place'[v] \notin FullPlaces
              \/ place[v] \in FullPlaces /\ place'[v] \in FullPlaces /\ job'[v] = job[v]
      BY <1>1, <2>2, <2>6
    <3>2. UNCHANGED <<Primary, Aim, Window>>
      BY <1>1, <3>1, AimsKept
    <3> QED BY <2>4, <3>2 DEF Copied!vars
  <2> QED BY <2>5, <2>6
<1> QED BY <1>2, <1>3, <1>4

\* Every step of the system is a step of ZoneCopy or hidden from it.
LEMMA SystemCopied == SystemInv /\ [SystemNext]_systemVars => [Copied!Next]_(Copied!vars)
<1> SUFFICES ASSUME SystemInv, [SystemNext]_systemVars PROVE [Copied!Next]_(Copied!vars)
  OBVIOUS
<1>1. CASE UNCHANGED systemVars
  <2>1. UNCHANGED <<records, copy, place, job, rows, offered>>
    BY <1>1 DEF systemVars, vars, zoneVars, copyVars, workVars, packetVars
  <2> QED BY <2>1 DEF Copied!vars, Primary, Shown, Loaders, Aim, Window
<1>2. CASE SystemNext
  BY <1>2, UpdateCopied, EndCopied, BeginCopied, WorkerCopied DEF SystemNext
<1> QED BY <1>1, <1>2

\* Transfers do what ZoneCopy promises for every number of workers and zones and
\* whatever fails: a secondary goes at one instant from one whole content of its
\* primary to another one it has had since that transfer began.
THEOREM TransfersAreCopies == SystemSpec => ImplementsZoneCopy
<1>1. SystemInit => Copied!Init
  <2> SUFFICES ASSUME SystemInit PROVE Copied!Init
    OBVIOUS
  <2>1. Primary \in [Zones -> SUBSET Row]
    BY DEF Primary, RowsOf
  <2>2. Shown = [z \in Zones |-> {}]
    BY NoRows DEF SystemInit, Shown, Loaders
  <2>3. Aim = [w \in Workers |-> None] /\ Window = [w \in Workers |-> {}]
    BY DEF SystemInit, Aim, Window, FullPlaces
  <2> QED BY <2>1, <2>2, <2>3 DEF Copied!Init
<1> QED BY <1>1, SystemInitInv, SystemStep, SystemCopied, PTL
        DEF SystemSpec, ImplementsZoneCopy, Copied!Spec

-----------------------------------------------------------------------------
(***************************************************************************)
(* What a delta names is in the journal, when the file does not tear and   *)
(* no handler outlives it.                                                 *)
(***************************************************************************)

\* The changes a log has for a zone, whatever JSON makes of their texts.
Logged(log, z) ==
    {ch \in Change : \E n \in 1..Len(log) :
        log[n] # Torn /\ log[n].zone = z /\ Read(log[n]).change = Decoded(ch)}

\* Every change of a history is in the file, and so is the one of a call that
\* has written its line.
HistoryLogged ==
    /\ unended = FALSE
    /\ mode = "closed" => \A c \in Clients : pc[c] = "idle"
    /\ \A z \in Zones : \A i \in 1..Len(history[z]) : history[z][i].change \in Logged(lines, z)
    /\ \A c \in Clients : pc[c] = "journaled" => Asked(c).change \in Logged(lines, ZoneAt(c))

OpsLogged ==
    \A w \in Workers : \A i \in 1..Len(ops[w]) : ops[w][i] \in Logged(lines, job[w])

LoggedInv == HistoryLogged /\ OpsLogged

\* One more line is there, and takes none away.
LEMMA LoggedGrows ==
    ASSUME NEW log \in Logs, NEW e \in Entry
    PROVE  /\ \A z : Logged(log, z) \subseteq Logged(Append(log, e), z)
           /\ e.change \in Logged(Append(log, e), e.zone)
<1> DEFINE longer == Append(log, e)
<1>1. /\ Len(log) \in Nat /\ Len(longer) = Len(log) + 1 /\ longer[Len(log) + 1] = e
      /\ \A n \in 1..Len(log) : longer[n] = log[n]
  BY DEF Logs
<1>2. e # Torn /\ e.change \in Change /\ Read(e).change = Decoded(e.change)
  BY UpdateAssumption, ReadType DEF Entry
<1> HIDE DEF longer
<1>3. /\ Len(log) + 1 \in 1..Len(longer)
      /\ \A n \in 1..Len(log) : n \in 1..Len(longer)
  BY <1>1
<1>4. \A z : Logged(log, z) \subseteq Logged(longer, z)
  BY <1>1, <1>3 DEF Logged
<1>5. e.change \in Logged(longer, e.zone)
  BY <1>1, <1>2, <1>3 DEF Logged
<1> QED BY <1>4, <1>5 DEF longer

\* A step of the update path only adds lines, and leaves the file ended.
LEMMA LinesGrow ==
    ASSUME Whole, TypeInv, HistoryLogged, Next
    PROVE  /\ unended' = FALSE
           /\ \A z : Logged(lines, z) \subseteq Logged(lines', z)
<1>1. ASSUME NEW c \in Clients, pc[c] \in Inside, WholeLine(EntryOf(c))
      PROVE  /\ unended' = FALSE
             /\ \A z : Logged(lines, z) \subseteq Logged(lines', z)
  <2>1. lines' = Append(lines, EntryOf(c)) /\ unended' = FALSE
    BY <1>1 DEF WholeLine, HistoryLogged
  <2>2. lines \in Logs /\ EntryOf(c) \in Entry
    BY <1>1, EntryType DEF TypeInv, TypeOK, Logs
  <2> QED BY <2>1, <2>2, LoggedGrows
<1>2. CASE UNCHANGED journalVars
  BY <1>2 DEF journalVars, HistoryLogged
<1> QED BY <1>1, <1>2, WholeLinesOnly DEF Whole, Inside, Places

\* A step that adds nothing to a history, and brings no call to its line.
LEMMA HistoryKept ==
    ASSUME HistoryLogged, unended' = FALSE,
           \A z : Logged(lines, z) \subseteq Logged(lines', z),
           mode' = "closed" => \A c \in Clients : pc'[c] = "idle",
           history' = history,
           \A c \in Clients : pc'[c] = "journaled" =>
              pc[c] = "journaled" /\ Asked(c)' = Asked(c)
    PROVE  HistoryLogged'
<1>1. \A z \in Zones : \A i \in 1..Len(history'[z]) : history'[z][i].change \in Logged(lines', z)
  BY DEF HistoryLogged
<1>2. ASSUME NEW c \in Clients, pc'[c] = "journaled"
      PROVE  Asked(c)'.change \in Logged(lines', ZoneAt(c)')
  <2>1. Asked(c)' = Asked(c) /\ ZoneAt(c)' = ZoneAt(c) /\ pc[c] = "journaled"
    BY <1>2 DEF ZoneAt
  <2>2. Asked(c).change \in Logged(lines, ZoneAt(c))
    BY <2>1 DEF HistoryLogged
  <2> QED BY <2>1, <2>2
<1> QED BY <1>1, <1>2 DEF HistoryLogged

\* A history that grows by one entry stays logged if the entry's change is.
LEMMA HistoryGrown ==
    ASSUME TypeInv, HistoryLogged, unended' = FALSE,
           \A z : Logged(lines, z) \subseteq Logged(lines', z),
           mode' = "closed" => \A c \in Clients : pc'[c] = "idle",
           NEW z0 \in Zones, NEW e \in Entry, e.change \in Logged(lines, z0),
           history' = [history EXCEPT ![z0] = Append(@, e)],
           \A c \in Clients : pc'[c] = "journaled" =>
              pc[c] = "journaled" /\ Asked(c)' = Asked(c)
    PROVE  HistoryLogged'
<1>1. ASSUME NEW z \in Zones, NEW i \in 1..Len(history'[z])
      PROVE  history'[z][i].change \in Logged(lines', z)
  <2>1. history \in [Zones -> Seq(Entry)]
    BY DEF TypeInv, TypeOK
  <2>2. CASE z # z0
    <3>1. history'[z] = history[z]
      BY <2>1, <2>2
    <3> QED BY <1>1, <3>1 DEF HistoryLogged
  <2>3. CASE z = z0
    <3> DEFINE log == history[z0]
    <3>1. history'[z] = Append(log, e) /\ log \in Seq(Entry)
      BY <2>1, <2>3
  <3>2. (i \in 1..Len(log) /\ history'[z][i] = log[i]) \/ history'[z][i] = e
      <4> HIDE DEF log
      <4>1. Len(log) \in Nat
        BY <3>1
      <4>2. i \in 1..Len(log) \/ i = Len(log) + 1
        BY <1>1, <3>1, <4>1
      <4> QED BY <3>1, <4>1, <4>2
    <3> QED BY <2>3, <3>2 DEF HistoryLogged
  <2> QED BY <2>2, <2>3
<1>2. ASSUME NEW c \in Clients, pc'[c] = "journaled"
      PROVE  Asked(c)'.change \in Logged(lines', ZoneAt(c)')
  <2>1. Asked(c)' = Asked(c) /\ ZoneAt(c)' = ZoneAt(c) /\ pc[c] = "journaled"
    BY <1>2 DEF ZoneAt
  <2>2. Asked(c).change \in Logged(lines, ZoneAt(c))
    BY <2>1 DEF HistoryLogged
  <2> QED BY <2>1, <2>2
<1> QED BY <1>1, <1>2 DEF HistoryLogged

\* A call of Apply logs before it commits.
LEMMA LoggedApply ==
    ASSUME Whole, Durable, TypeInv, HistoryLogged, NEW c \in Clients, ApplyStep(c), Next
    PROVE  HistoryLogged'
<1> USE DEF zoneVars, journalVars, callVars, processVars
<1>0. /\ unended' = FALSE /\ \A z : Logged(lines, z) \subseteq Logged(lines', z)
      /\ pc \in [Clients -> Places] /\ call \in [Clients -> Ids \cup {0}]
  BY LinesGrow DEF TypeInv, TypeOK
<1>1. pc[c] # "idle" /\ mode # "closed" /\ mode' = mode
  <2>1. pc[c] # "idle" /\ mode' = mode
    BY DEF ApplyStep, AppendJournal, Reject, Stage, AppendWritten, AppendWithoutFile,
           AppendRefused, AppendUnsynced, AppendTorn, Rollback, CommitZone, Resigned,
           ResignFailed, NotifyInCommit, NotifyAndReturn, Return, Step
  <2> QED BY <2>1 DEF HistoryLogged
<1>2. CASE AppendWritten(c)
  <2>1. /\ pc[c] \in Inside /\ pc' = [pc EXCEPT ![c] = "journaled"] /\ WholeLine(EntryOf(c))
        /\ UNCHANGED <<history, request, call>>
    BY <1>2 DEF AppendWritten, Step, Inside, Places
  <2>2. lines' = Append(lines, EntryOf(c))
    BY <2>1 DEF WholeLine, HistoryLogged
  <2>3. EntryOf(c) \in Entry /\ lines \in Logs
    BY <2>1, EntryType DEF TypeInv, TypeOK, Logs
  <2>4. Asked(c).change \in Logged(lines', ZoneAt(c))
    <3>1. EntryOf(c).change \in Logged(lines', EntryOf(c).zone)
      BY <2>2, <2>3, LoggedGrows
    <3> QED BY <3>1 DEF EntryOf
  <2>5. ASSUME NEW d \in Clients, pc'[d] = "journaled"
        PROVE  Asked(d)'.change \in Logged(lines', ZoneAt(d)')
    <3>1. Asked(d)' = Asked(d) /\ ZoneAt(d)' = ZoneAt(d)
      BY <2>1 DEF Asked, ZoneAt
    <3>2. CASE d = c
      BY <2>4, <3>1, <3>2
    <3>3. CASE d # c
      <4>1. pc[d] = "journaled"
        BY <1>0, <2>1, <2>5, <3>3
      <4>2. Asked(d).change \in Logged(lines, ZoneAt(d))
        BY <4>1 DEF HistoryLogged
      <4> QED BY <1>0, <3>1, <4>2
    <3> QED BY <3>2, <3>3
  <2>6. \A z \in Zones : \A i \in 1..Len(history'[z]) : history'[z][i].change \in Logged(lines', z)
    BY <1>0, <2>1 DEF HistoryLogged
  <2> QED BY <1>0, <1>1, <2>5, <2>6 DEF HistoryLogged
<1>3. CASE CommitZone(c)
  <2>1. /\ pc[c] = "journaled" /\ pc' = [pc EXCEPT ![c] = "resigning"]
        /\ history' = [history EXCEPT ![ZoneAt(c)] = Append(@, EntryOf(c))]
        /\ UNCHANGED <<request, call>>
    BY <1>3 DEF CommitZone, Step
  <2>2. EntryOf(c) \in Entry /\ ZoneAt(c) \in Zones
    BY <2>1, EntryType DEF Inside, Places
  <2>3. EntryOf(c).change \in Logged(lines, ZoneAt(c))
    BY <2>1 DEF HistoryLogged, EntryOf
  <2>4. \A d \in Clients : pc'[d] = "journaled" => pc[d] = "journaled" /\ Asked(d)' = Asked(d)
    BY <1>0, <2>1 DEF Asked
  <2> QED BY <1>0, <1>1, <2>1, <2>2, <2>3, <2>4, HistoryGrown
<1>4. CASE ~ AppendWritten(c) /\ ~ CommitZone(c)
  <2>1. ~ AppendWithoutFile(c)
    BY <1>1 DEF AppendWithoutFile, FileOpen
  <2>2. CASE \E from, answer : Return(c, from, answer) /\ UNCHANGED <<history, request>>
    <3>1. pc' = [pc EXCEPT ![c] = "idle"] /\ call' = [call EXCEPT ![c] = 0]
          /\ UNCHANGED <<history, request>>
      BY <2>2 DEF Return, Step
    <3>2. \A d \in Clients : pc'[d] = "journaled" => pc[d] = "journaled" /\ Asked(d)' = Asked(d)
      BY <1>0, <3>1 DEF Asked
    <3> QED BY <1>0, <1>1, <3>1, <3>2, HistoryKept
  <2>3. CASE (\E from, to \in Places : to # "journaled" /\ Step(c, from, to))
                /\ UNCHANGED <<history, request, call>>
    <3>1. PICK to \in Places : to # "journaled" /\ pc' = [pc EXCEPT ![c] = to]
      BY <2>3 DEF Step
    <3>2. \A d \in Clients : pc'[d] = "journaled" => pc[d] = "journaled" /\ Asked(d)' = Asked(d)
      BY <1>0, <2>3, <3>1 DEF Asked
    <3> QED BY <1>0, <1>1, <2>3, <3>2, HistoryKept
  <2> QED BY <1>4, <2>1, <2>2, <2>3
          DEF ApplyStep, AppendJournal, Reject, Stage, AppendRefused, AppendUnsynced, AppendTorn,
              Rollback, Resigned, ResignFailed, NotifyInCommit, NotifyAndReturn, Places
<1> QED BY <1>2, <1>3, <1>4

\* So does every step of the update path.
LEMMA LoggedNext ==
    ASSUME Whole, Durable, TypeInv, HistoryLogged, Next
    PROVE  HistoryLogged'
<1> USE DEF zoneVars, journalVars, callVars, processVars
<1>0. /\ unended' = FALSE /\ \A z : Logged(lines, z) \subseteq Logged(lines', z)
      /\ pc \in [Clients -> Places] /\ call \in [Clients -> Ids \cup {0}]
      /\ request \in [Ids -> Requests \cup {None}]
  BY LinesGrow DEF TypeInv, TypeOK
<1>1. ASSUME NEW c \in Clients, NEW r \in Requests, Call(c, r) PROVE HistoryLogged'
  <2>1. PICK id \in Ids : request[id] = None /\ request' = [request EXCEPT ![id] = r]
                          /\ call' = [call EXCEPT ![c] = id]
    BY <1>1 DEF Call
  <2>2. pc' = [pc EXCEPT ![c] = "entered"] /\ mode = "serving" /\ UNCHANGED <<mode, history>>
    BY <1>1 DEF Call, Step
  <2>3. ASSUME NEW d \in Clients, pc'[d] = "journaled"
        PROVE  pc[d] = "journaled" /\ Asked(d)' = Asked(d)
    <3>1. d # c /\ pc[d] = "journaled" /\ call'[d] = call[d]
      BY <1>0, <2>1, <2>2, <2>3
    <3>2. call[d] \in Ids /\ request[call[d]] # None
      BY <3>1, UpdateAssumption DEF TypeInv, Control, Asked
    <3>3. request'[call[d]] = request[call[d]]
      BY <1>0, <2>1, <3>2
    <3> QED BY <3>1, <3>3 DEF Asked
  <2> QED BY <1>0, <2>2, <2>3, HistoryKept
<1>2. CASE ReplayEntry
  <2> DEFINE n == replayed + 1
             read == Read(lines[n])
             e == [read EXCEPT !.serial = serial[read.zone]]
  <2>1. /\ mode = "replaying" /\ n \in 1..Len(lines)
        /\ history' = [history EXCEPT ![read.zone] = Append(@, e)]
        /\ UNCHANGED <<mode, pc, request, call>>
    BY <1>2 DEF ReplayEntry, NextToReplay, TypeInv, TypeOK
  <2>2. lines[n] # Torn /\ lines \in Logs
    BY <2>1 DEF TypeInv, TypeOK, Control, Logs
  <2>3. lines[n] \in Entry
    <3>1. lines[n] \in Entry \cup {Torn}
      BY <2>1, <2>2 DEF Logs
    <3> QED BY <2>2, <3>1
  <2>4. /\ read \in Entry /\ read.zone = lines[n].zone
        /\ read.change = Decoded(lines[n].change) /\ lines[n].change \in Change
    BY <2>3, ReadType DEF Entry
  <2>5. read.change \in Change /\ Decoded(read.change) = read.change
    BY <2>4, DecodedType
  <2>6. read.change \in Logged(lines, read.zone)
    BY <2>1, <2>2, <2>4, <2>5 DEF Logged
  <2> HIDE DEF n, read
  <2>7. e \in Entry /\ read.zone \in Zones /\ e.change = read.change
    <3>1. read.zone \in Zones
      BY <2>4 DEF Entry
    <3>2. serial[read.zone] \in Nat
      BY <3>1 DEF TypeInv, TypeOK
    <3> QED BY <2>4, <3>1, <3>2 DEF Entry
  <2>8. e.change \in Logged(lines, read.zone)
    BY <2>7, <2>6
  <2>9. \A d \in Clients : pc'[d] = "journaled" => pc[d] = "journaled" /\ Asked(d)' = Asked(d)
    BY <2>1 DEF Asked
  <2> HIDE DEF e
  <2> QED BY <1>0, <2>1, <2>7, <2>8, <2>9, HistoryGrown
<1>3. CASE FreshMemory /\ mode' = "down"
  <2>1. /\ \A z \in Zones : history'[z] = << >>
        /\ \A c \in Clients : pc'[c] = "idle"
    BY <1>3 DEF FreshMemory
  <2> QED BY <1>0, <1>3, <2>1 DEF HistoryLogged
<1>4. CASE UNCHANGED <<history, pc, request, call>> /\ (mode' = "closed" => \A c \in Clients : pc[c] = "idle")
  <2>1. \A d \in Clients : pc'[d] = "journaled" => pc[d] = "journaled" /\ Asked(d)' = Asked(d)
    BY <1>4 DEF Asked
  <2> QED BY <1>0, <1>4, <2>1, HistoryKept
<1>5. CASE Boot \/ Stop
  BY <1>2, <1>3, <1>4, <1>5
     DEF Boot, Stop, Start, ReplayFails, Serve, Crash, Shutdown, CloseJournal, Exit, Drained, Whole
<1> QED BY <1>1, <1>5, LoggedApply DEF Next

\* Whether or not it is at work, a worker beside the update path leaves what is
\* logged as it was.
LEMMA LoggedBeside ==
    ASSUME HistoryLogged, UNCHANGED updateRest
    PROVE  HistoryLogged' /\ lines' = lines
<1>1. UNCHANGED <<lines, unended, history, mode, pc, call, request>>
  BY DEF updateRest, zoneVars, journalVars, processVars, callVars
<1>2. \A c \in Clients : Asked(c)' = Asked(c) /\ ZoneAt(c)' = ZoneAt(c)
  BY <1>1 DEF Asked, ZoneAt
<1>3. \A c \in Clients : pc'[c] = "journaled" =>
          Asked(c)'.change \in Logged(lines', ZoneAt(c)')
  BY <1>1, <1>2 DEF HistoryLogged
<1> QED BY <1>1, <1>3 DEF HistoryLogged

\* The delta of a worker that keeps it stays logged while lines are added.
LEMMA OpsKept ==
    ASSUME OpsLogged, NEW v \in Workers, (ops'[v] = ops[v] /\ job'[v] = job[v]) \/ ops'[v] = << >>,
           \A z : Logged(lines, z) \subseteq Logged(lines', z)
    PROVE  \A i \in 1..Len(ops'[v]) : ops'[v][i] \in Logged(lines', job'[v])
BY DEF OpsLogged

\* What a worker cuts off the history is logged.
LEMMA CutLogged ==
    ASSUME SystemInv, LoggedInv, NEW w \in Workers, CutHistory(w), lines' = lines
    PROVE  OpsLogged'
<1>1. /\ place[w] # "idle" /\ UNCHANGED job
      /\ ops' = [ops EXCEPT ![w] = ChangesAfter(job[w], wanted[w])]
  BY DEF CutHistory, Move
<1>2. job[w] \in Zones /\ wanted[w] \in Nat /\ ops \in [Workers -> Seq(Change)]
  BY <1>1 DEF SystemInv, TransferTypeOK
<1> DEFINE z == job[w]
           T == Logged(lines, z)
<1>3. history[z] \in Seq(Entry)
  BY <1>2 DEF SystemInv, TypeInv, TypeOK
<1>4. \A i \in 1..Len(history[z]) : history[z][i].change \in T
  BY <1>2 DEF LoggedInv, HistoryLogged
<1>5. ChangesAfter(z, wanted[w]) \in Seq(T)
  <2> HIDE DEF z, T
  <2> QED BY <1>2, <1>3, <1>4, ChangesAfterType
<1>6. ASSUME NEW v \in Workers, NEW i \in 1..Len(ops'[v])
      PROVE  ops'[v][i] \in Logged(lines', job'[v])
  <2>1. CASE v = w
    <3>1. ops'[v] = ChangesAfter(z, wanted[w])
      BY <1>1, <1>2, <2>1
    <3>2. ops'[v][i] \in T
      <4> HIDE DEF T
      <4> QED BY <1>5, <1>6, <3>1, ElementOfSeq
    <3> QED BY <1>1, <2>1, <3>2
  <2>2. CASE v # w
    <3>1. ops'[v] = ops[v] /\ job'[v] = job[v]
      BY <1>1, <1>2, <2>2
    <3> QED BY <1>6, <3>1 DEF LoggedInv, OpsLogged
  <2> QED BY <2>1, <2>2
<1> QED BY <1>6 DEF OpsLogged

\* Every step of the system keeps histories and deltas logged.
LEMMA LoggedStep ==
    Whole /\ Durable /\ SystemInv /\ LoggedInv /\ [SystemNext]_systemVars => LoggedInv'
<1> SUFFICES ASSUME Whole, Durable, SystemInv, LoggedInv, [SystemNext]_systemVars
             PROVE  LoggedInv'
  OBVIOUS
<1> USE DEF packetVars
<1>0. /\ TypeInv /\ HistoryLogged /\ OpsLogged
      /\ ops \in [Workers -> Seq(Change)] /\ job \in [Workers -> Zones \cup {None}]
  BY DEF SystemInv, LoggedInv, TransferTypeOK
<1>1. ASSUME UpdateStep \/ EndProcess, Offering PROVE LoggedInv'
  <2>1. Next
    BY <1>1, UpdateSide
  <2>2. HistoryLogged'
    BY <1>0, <2>1, LoggedNext
  <2>3. \A z : Logged(lines, z) \subseteq Logged(lines', z)
    BY <1>0, <2>1, LinesGrow
  <2>4. \A v \in Workers : (ops'[v] = ops[v] /\ job'[v] = job[v]) \/ ops'[v] = << >>
    BY <1>1 DEF UpdateStep, workVars, EndProcess, FreshSecondaries
  <2> QED BY <1>0, <2>2, <2>3, <2>4, OpsKept DEF LoggedInv, OpsLogged
<1>2. ASSUME UNCHANGED updateRest,
             \A v \in Workers : (ops'[v] = ops[v] /\ job'[v] = job[v]) \/ ops'[v] = << >>
      PROVE  LoggedInv'
  <2>1. HistoryLogged' /\ lines' = lines
    BY <1>0, <1>2, LoggedBeside
  <2> QED BY <1>0, <1>2, <2>1, OpsKept DEF LoggedInv, OpsLogged
<1>3. ASSUME NEW w \in Workers, NEW z \in Zones, WorkerBegins(w, z) PROVE LoggedInv'
  <2>1. /\ place[w] = "idle" /\ job' = [job EXCEPT ![w] = z]
        /\ UNCHANGED <<updateRest, ops>>
    BY <1>3 DEF WorkerBegins, StartTransfer, AskFull, AskDelta, Begin, Move
  <2>2. ops[w] = << >>
    BY <2>1 DEF SystemInv, WorkInv, Holding
  <2>3. \A v \in Workers : (ops'[v] = ops[v] /\ job'[v] = job[v]) \/ ops'[v] = << >>
    BY <1>0, <2>1, <2>2
  <2> QED BY <1>2, <2>1, <2>3
<1>4. ASSUME NEW w \in Workers, WorkerStep(w) PROVE LoggedInv'
  <2>1. CASE CutHistory(w)
    <3>1. UNCHANGED updateRest
      BY <2>1 DEF CutHistory
    <3>2. HistoryLogged' /\ lines' = lines
      BY <1>0, <3>1, LoggedBeside
    <3> QED BY <2>1, <3>2, CutLogged DEF LoggedInv
  <2>2. CASE UNCHANGED <<updateRest, ops, job>>
    BY <1>2, <2>2
  <2>3. CASE UNCHANGED updateRest /\ Leave(w)
    <3>1. ops' = [ops EXCEPT ![w] = << >>] /\ job' = [job EXCEPT ![w] = None]
      BY <2>3 DEF Leave
    <3>2. \A v \in Workers : (ops'[v] = ops[v] /\ job'[v] = job[v]) \/ ops'[v] = << >>
      BY <1>0, <3>1
    <3> QED BY <1>2, <2>3, <3>2
  <2>4. CASE EndTriggered(w) \/ Fail(w) \/ EndApply(w) \/ EndChange(w)
    BY <2>3, <2>4 DEF EndTriggered, Fail, EndApply, EndChange, Finish
  <2>5. CASE TakeSnapshot(w) \/ ReturnSnapshot(w) \/ BeginLoad(w) \/ LoadRow(w) \/ EndLoad(w)
    BY <2>2, <2>5 DEF TakeSnapshot, ReturnSnapshot, BeginLoad, LoadRow, EndLoad, Finish, Stay
  <2>6. CASE SetRange(w) \/ ReturnDelta(w) \/ ApplyDelta(w) \/ RefuseDelta(w)
    BY <2>2, <2>6 DEF SetRange, ReturnDelta, ApplyDelta, RefuseDelta, Finish, Stay
  <2> QED BY <1>4, <2>1, <2>4, <2>5, <2>6 DEF WorkerStep
<1>5. CASE UNCHANGED systemVars
  <2>1. UNCHANGED <<updateRest, ops, job>>
    BY <1>5 DEF systemVars, vars, workVars, updateRest, zoneVars, journalVars, processVars,
                callVars, senderVars
  <2> QED BY <1>2, <2>1
<1> QED BY <1>1, <1>3, <1>4, <1>5 DEF SystemNext

\* Every change that an incremental transfer sends was written to the journal
\* before, however updates, transfers and crashes interleave, as long as the
\* file does not tear and the handlers end before it is closed.
THEOREM DeltasDurable == Whole => (SystemSpec => []DeltaIsDurable)
<1> SUFFICES ASSUME Whole PROVE SystemSpec => []DeltaIsDurable
  OBVIOUS
<1>1. SystemInit => LoggedInv
  <2> SUFFICES ASSUME SystemInit PROVE LoggedInv
    OBVIOUS
  <2>1. /\ unended = FALSE /\ mode = "down" /\ \A z \in Zones : history[z] = << >>
        /\ \A c \in Clients : pc[c] = "idle"
    BY DEF SystemInit, Init
  <2>2. \A w \in Workers : ops[w] = << >>
    BY DEF SystemInit
  <2> QED BY <2>1, <2>2 DEF LoggedInv, HistoryLogged, OpsLogged
<1>2. (Durable => LoggedInv) => DeltaIsDurable
  BY DEF LoggedInv, OpsLogged, DeltaIsDurable, Logged
<1>3. SystemInv /\ (Durable => LoggedInv) /\ [SystemNext]_systemVars => (Durable => LoggedInv')
  BY LoggedStep
<1>4. SystemInv /\ (Durable => LoggedInv) /\ [SystemNext]_systemVars => (Durable => LoggedInv)'
  BY <1>3
<1> QED BY <1>1, <1>2, <1>4, SystemInitInv, SystemStep, PTL DEF SystemSpec

-----------------------------------------------------------------------------
(***************************************************************************)
(* Transfers beside the update path take nothing from what it promises: a  *)
(* step of a worker writes no variable of it but the transfer states, so   *)
(* every invariant of the update path is one of the whole system.          *)
(***************************************************************************)

\* A step of the system is one of the update path, or leaves all of it alone
\* but the transfer states.
LEMMA SystemSides ==
    ASSUME SystemInv, [SystemNext]_systemVars
    PROVE  [Next]_vars \/ UNCHANGED updateRest
<1>1. CASE UpdateStep \/ EndProcess
  BY <1>1 DEF UpdateStep, EndProcess, Next, Stop
<1>2. ASSUME NEW w \in Workers, NEW z \in Zones, WorkerBegins(w, z)
      PROVE  UNCHANGED updateRest
  BY <1>2 DEF WorkerBegins, StartTransfer, AskFull, AskDelta
<1>3. ASSUME NEW w \in Workers, WorkerStep(w)
      PROVE  UNCHANGED updateRest
  BY <1>3 DEF WorkerStep, EndTriggered, Fail, TakeSnapshot, ReturnSnapshot, BeginLoad,
     LoadRow, EndLoad, EndApply, CutHistory, SetRange, ReturnDelta, ApplyDelta, RefuseDelta,
     EndChange, Finish
<1>4. CASE UNCHANGED systemVars
  BY <1>4 DEF systemVars
<1> QED BY <1>1, <1>2, <1>3, <1>4 DEF SystemNext

\* What the invariants of the update path are made of, as a worker leaves it.
LEMMA PathUnchanged ==
    ASSUME UNCHANGED updateRest
    PROVE  /\ UNCHANGED <<mode, records, history, events, lines, unended, replayed, pc, call,
                          staged, request, outcome>>
           /\ OnDisk' = OnDisk /\ AsTaken' = AsTaken
           /\ \A z : Durably(z)' = Durably(z) /\ InMemory(z)' = InMemory(z)
           /\ \A id : Journaled(id)' <=> Journaled(id)
           /\ \A c : Asked(c)' = Asked(c) /\ ZoneAt(c)' = ZoneAt(c)
<1>1. UNCHANGED <<mode, records, history, events, lines, unended, replayed, pc, call,
                  staged, request, outcome>>
  BY DEF updateRest, zoneVars, journalVars, processVars, callVars
<1>2. OnDisk' = OnDisk /\ AsTaken' = AsTaken
  BY <1>1 DEF OnDisk, AsTaken
<1> QED BY <1>1, <1>2 DEF Durably, InMemory, Journaled, Asked, ZoneAt

LEMMA CallsBeside ==
    ASSUME UNCHANGED updateRest
    PROVE  /\ CallsOpen => CallsOpen'
           /\ Announced => Announced'
           /\ NobodyLost => NobodyLost'
BY PathUnchanged DEF CallsOpen, Announced, NobodyLost, ShutdownAnswersCallers

LEMMA SyncedBeside == ASSUME UNCHANGED updateRest, Synced PROVE Synced'
<1>1. \A c \in Clients : InMemory(ZoneAt(c))' = InMemory(ZoneAt(c))
  BY PathUnchanged DEF InMemory
<1> QED BY <1>1, PathUnchanged DEF Synced

LEMMA TracedBeside == ASSUME UNCHANGED updateRest, Traced PROVE Traced'
<1>1. \A c \in Clients : Journaled(call[c])' <=> Journaled(call[c])
  BY PathUnchanged DEF Journaled
<1> QED BY <1>1, PathUnchanged DEF Traced, LinesOnce, Acknowledged

LEMMA FiledBeside ==
    ASSUME UNCHANGED updateRest
    PROVE  /\ FileWhole => FileWhole'
           /\ Filed => Filed'
           /\ EventsJournaled => EventsJournaled'
<1>1. \A c \in Clients : Journaled(call[c])' <=> Journaled(call[c])
  BY PathUnchanged DEF Journaled
<1>2. \A i \in 1..Len(events) : Journaled(events[i].id)' <=> Journaled(events[i].id)
  BY PathUnchanged DEF Journaled
<1>3. FileWhole => FileWhole'
  BY PathUnchanged DEF FileWhole
<1>4. Filed => Filed'
  BY <1>1, PathUnchanged DEF Filed, LinesOnce, Acknowledged
<1> QED BY <1>2, <1>3, <1>4, PathUnchanged DEF EventsJournaled

LEMMA ExplainBeside == ASSUME UNCHANGED updateRest, ExplainInv PROVE ExplainInv'
<1>1. Undone' = Undone /\ ReplayedIds' = ReplayedIds /\ (ReplayedIntact' <=> ReplayedIntact)
  BY PathUnchanged DEF Undone, FailedIds, ReplayedIds, ReplayedIntact
<1>2. Known'
  BY PathUnchanged DEF Known, Named, ExplainInv
<1>3. Apart => Apart'
  BY <1>1, PathUnchanged DEF Apart
<1>4. Explained => Explained'
  BY <1>1, PathUnchanged DEF Explained
<1> QED BY <1>1, <1>2, <1>3, <1>4 DEF ExplainInv

\* Calls, announcements and the history, in the whole system.
PathInv == CallsOpen /\ Announced /\ ExplainInv

LEMMA PathStep == SystemInv /\ PathInv /\ [SystemNext]_systemVars => PathInv'
<1> SUFFICES ASSUME SystemInv, PathInv, [SystemNext]_systemVars PROVE PathInv'
  OBVIOUS
<1>1. TypeInv
  BY DEF SystemInv
<1>2. CASE [Next]_vars
  BY <1>1, <1>2, OpenStep, AnnouncedStep, ExplainStep DEF PathInv
<1>3. CASE UNCHANGED updateRest
  BY <1>3, CallsBeside, ExplainBeside DEF PathInv
<1> QED BY <1>2, <1>3, SystemSides

\* The start of the system is one of the update path.
LEMMA PathInit == SystemInit => Init /\ PathInv
BY OpenInit, AnnouncedInit, ExplainInit DEF SystemInit, PathInv

\* Whatever fails, and however transfers run beside the updates: the history
\* explains each zone, no update is announced and then refused, and no zone
\* holds a value twice.
THEOREM UpdatesBesideTransfers ==
    SystemSpec => [](HistoryExplainsZone /\ AnnouncedNotFailed /\ ValuesDistinct)
<1>1. SystemInv /\ PathInv => HistoryExplainsZone /\ AnnouncedNotFailed /\ ValuesDistinct
  BY ExplainedHistory, AnnouncedAnswered DEF SystemInv, PathInv, DistinctInv
<1> QED BY <1>1, PathInit, PathStep, SystemInitInv, SystemStep, PTL DEF SystemSpec

\* An orderly stop answers every caller while transfers are under way too.
THEOREM OrderlyStopBesideTransfers ==
    Orderly => (SystemSpec => []ShutdownAnswersCallers)
<1> SUFFICES ASSUME Orderly PROVE SystemSpec => []ShutdownAnswersCallers
  OBVIOUS
<1>1. SystemInit => NobodyLost
  BY DEF SystemInit, Init, NobodyLost, ShutdownAnswersCallers
<1>2. SystemInv /\ PathInv /\ NobodyLost /\ [SystemNext]_systemVars => NobodyLost'
  <2> SUFFICES ASSUME SystemInv, PathInv, NobodyLost, [SystemNext]_systemVars
               PROVE  NobodyLost'
    OBVIOUS
  <2>1. CASE [Next]_vars
    BY <2>1, NobodyLostStep DEF SystemInv, PathInv
  <2>2. CASE UNCHANGED updateRest
    BY <2>2, CallsBeside
  <2> QED BY <2>1, <2>2, SystemSides
<1>3. NobodyLost => ShutdownAnswersCallers
  BY DEF NobodyLost
<1> QED BY <1>1, <1>2, <1>3, PathInit, PathStep, SystemInitInv, SystemStep, PTL DEF SystemSpec

LEMMA DurableBeside == ASSUME UNCHANGED updateRest, TypeInv', DurableInv PROVE DurableInv'
BY SyncedBeside, TracedBeside, CallsBeside DEF DurableInv

LEMMA DurableSystemStep ==
    Dependable => (SystemInv /\ DurableInv /\ [SystemNext]_systemVars => DurableInv')
<1> SUFFICES ASSUME Dependable, SystemInv, DurableInv, [SystemNext]_systemVars
             PROVE  DurableInv'
  OBVIOUS
<1>1. CASE [Next]_vars
  BY <1>1, DurableStep
<1>2. CASE UNCHANGED updateRest
  <2>1. TypeInv'
    BY SystemStep DEF SystemInv
  <2> QED BY <1>2, <2>1, DurableBeside
<1> QED BY <1>1, <1>2, SystemSides

\* With a dependable journal the zones are what a restart would rebuild whenever
\* no update is under way, though workers copy them meanwhile ...
THEOREM JournalBesideTransfers == Dependable => (SystemSpec => []ZoneMatchesJournal)
<1> SUFFICES ASSUME Dependable PROVE SystemSpec => []ZoneMatchesJournal
  OBVIOUS
<1>1. SystemInit => DurableInv
  BY DurableInit DEF SystemInit
<1>2. DurableInv => ZoneMatchesJournal
  BY SyncedMatches DEF DurableInv
<1> QED BY <1>1, <1>2, DurableSystemStep, SystemInitInv, SystemStep, PTL DEF SystemSpec

\* ... and the whole system keeps the promise of DurableZones: a transfer is no
\* step of it.
THEOREM PromiseBesideTransfers == Dependable => (SystemSpec => ImplementsDurableZones)
<1> SUFFICES ASSUME Dependable PROVE SystemSpec => ImplementsDurableZones
  OBVIOUS
<1>1. SystemInit => DurableInv /\ Promise!Init
  BY DurableInit, PromiseInit DEF SystemInit
<1>2. SystemInv /\ DurableInv /\ [SystemNext]_systemVars => [Promise!Next]_(Promise!vars)
  <2> SUFFICES ASSUME SystemInv, DurableInv, [SystemNext]_systemVars
               PROVE  [Promise!Next]_(Promise!vars)
    OBVIOUS
  <2>1. CASE [Next]_vars
    BY <2>1, PromiseStep
  <2>2. CASE UNCHANGED updateRest
    <3>1. UNCHANGED <<lines, request, outcome>>
      BY <2>2, PathUnchanged
    <3>2. UNCHANGED <<Content, Effective>>
      BY <3>1, NothingWritten
    <3> QED BY <3>1, <3>2 DEF Promise!vars, Content, Effective
  <2> QED BY <2>1, <2>2, SystemSides
<1> QED BY <1>1, <1>2, DurableSystemStep, SystemInitInv, SystemStep, PTL
        DEF SystemSpec, ImplementsDurableZones, Promise!Spec

\* When writes are whole and no handler outlives the file, what was acknowledged
\* or announced is in the file, though transfers and notifications write the same
\* states.
THEOREM AcknowledgedBesideTransfers ==
    Whole => (SystemSpec => [](AckedIsJournaled /\ NotifyAfterPersist))
<1> SUFFICES ASSUME Whole PROVE SystemSpec => [](AckedIsJournaled /\ NotifyAfterPersist)
  OBVIOUS
<1>1. CASE Durable
  <2> DEFINE I == FiledInv /\ EventsJournaled
  <2>1. SystemInit => I
    BY FiledInit DEF SystemInit, Init, EventsJournaled
  <2>2. SystemInv /\ I /\ [SystemNext]_systemVars => I'
    <3> SUFFICES ASSUME SystemInv, I, [SystemNext]_systemVars PROVE I'
      OBVIOUS
    <3>1. CASE [Next]_vars
      BY <1>1, <3>1, FiledStep, EventsJournaledStep
    <3>2. CASE UNCHANGED updateRest
      <4>1. TypeInv'
        BY SystemStep DEF SystemInv
      <4> QED BY <3>2, <4>1, FiledBeside DEF FiledInv
    <3> QED BY <3>1, <3>2, SystemSides
  <2>3. I => AckedIsJournaled /\ NotifyAfterPersist
    BY DEF AckedIsJournaled, NotifyAfterPersist, EventsJournaled, FiledInv, Filed, LinesOnce,
           Journaled
  <2> HIDE DEF I
  <2> QED BY <2>1, <2>2, <2>3, SystemInitInv, SystemStep, PTL DEF SystemSpec
<1>2. CASE ~ Durable
  <2>1. AckedIsJournaled /\ NotifyAfterPersist
    BY <1>2 DEF AckedIsJournaled, NotifyAfterPersist
  <2> QED BY <2>1, PTL
<1> QED BY <1>1, <1>2

\* And a start never fails, on the same condition as without transfers.
THEOREM StartsBesideTransfers == Rereadable => (SystemSpec => []Restartable)
<1> SUFFICES ASSUME Rereadable PROVE SystemSpec => []Restartable
  OBVIOUS
<1>1. SystemInit => LegibleInv
  BY LegibleInit DEF SystemInit
<1>2. SystemInv /\ LegibleInv /\ [SystemNext]_systemVars => LegibleInv'
  <2> SUFFICES ASSUME SystemInv, LegibleInv, [SystemNext]_systemVars PROVE LegibleInv'
    OBVIOUS
  <2>1. CASE [Next]_vars
    BY <2>1, LegibleStep DEF SystemInv
  <2>2. CASE UNCHANGED updateRest
    BY <2>2, PathUnchanged DEF LegibleInv, Restartable
  <2> QED BY <2>1, <2>2, SystemSides
<1>3. LegibleInv => Restartable
  BY DEF LegibleInv
<1> QED BY <1>1, <1>2, <1>3, SystemInitInv, SystemStep, PTL DEF SystemSpec

-----------------------------------------------------------------------------
(***************************************************************************)
(* What a secondary holds has lines behind it, when no write of the        *)
(* journal fails: a snapshot may be ahead of the file by the update that   *)
(* is being written, and nothing then takes that update back but the end   *)
(* of the process, which empties the secondaries.  The next start reads    *)
(* other texts, perhaps, but no secondary holds anything by then.          *)
(***************************************************************************)

\* The journal refuses no write.
Accepting == Dependable /\ "refuse" \notin Faults

\* What the lines of a log have made of a zone, one after the other.
DurableRows(log, z) == {RowsOf(ReplayUpTo(z, log, {})[n]) : n \in 0..Len(log)}

\* What a transfer may bring: what those lines have made of the primary, or what
\* it is.
Deliverable(log, primaries, z) == DurableRows(log, z) \cup {RowsOf(primaries[z])}

NothingUndone == \A c \in Clients : pc[c] # "undo"

\* Every snapshot, and every secondary that has been filled, is deliverable.
Delivering ==
    /\ \A w \in Workers : place[w] \in {"copied", "have", "loading"} =>
          rows[w] \in Deliverable(AsTaken, records, job[w])
    /\ \A z \in Zones : \/ Loaders(z) # {}
                        \/ RowsOf(copy[z]) = {}
                        \/ RowsOf(copy[z]) \in Deliverable(AsTaken, records, z)

Starting == mode \in {"down", "replaying"}

\* Nothing is delivered before the server listens.
Undelivered ==
    Starting =>
        /\ \A w \in Workers : place[w] = "idle"
        /\ \A z \in Zones : RowsOf(copy[z]) = {}

DeliveryInv == NothingUndone /\ Undelivered /\ Delivering

\* No update is rolled back.
LEMMA UndoneStep ==
    ASSUME Accepting, TypeInv, NothingUndone, [Next]_vars
    PROVE  NothingUndone'
<1> USE DEF TypeInv, TypeOK, NothingUndone
<1>1. CASE UNCHANGED vars
  BY <1>1 DEF vars
<1>2. CASE \E c \in Clients, r \in Requests : Call(c, r)
  BY <1>2 DEF Call, Step
<1>3. ASSUME NEW c \in Clients, ApplyStep(c) PROVE NothingUndone'
  BY <1>3 DEF ApplyStep, Reject, Stage, AppendJournal, AppendWritten, AppendWithoutFile,
     AppendRefused, AppendUnsynced, AppendTorn, Rollback, CommitZone, Resigned, ResignFailed,
     NotifyInCommit, NotifyAndReturn, Return, Step, Accepting, Dependable
<1>4. CASE Boot \/ Stop
  BY <1>4 DEF Boot, Start, ReplayEntry, ReplayFails, Serve, Stop, Crash, Shutdown,
     CloseJournal, Exit, FreshMemory
<1> QED BY <1>1, <1>2, <1>3, <1>4 DEF Next

\* While the process runs, the entries it has replayed stay as they are.
LEMMA ReplayedKept ==
    ASSUME UpdateStep, ~ Starting
    PROVE  replayed' = replayed
BY DEF UpdateStep, Starting, Call, ApplyStep, Reject, Stage, AppendJournal, AppendWritten,
       AppendWithoutFile, AppendRefused, AppendUnsynced, AppendTorn, Rollback, CommitZone,
       Resigned, ResignFailed, NotifyInCommit, NotifyAndReturn, Boot, Start, ReplayEntry,
       ReplayFails, Serve, Shutdown, CloseJournal, processVars

\* What its lines have made of a zone they have made of it for good.
LEMMA DurableRowsGrow ==
    ASSUME Dependable, DurableInv, UpdateStep, ~ Starting, NEW z \in Zones
    PROVE  DurableRows(AsTaken, z) \subseteq DurableRows(AsTaken', z)
<1>0. [Next]_vars /\ replayed' = replayed
  BY ReplayedKept DEF UpdateStep, Next, Stop
<1>1. CASE UNCHANGED lines
  <2>1. AsTaken' = AsTaken
    BY <1>0, <1>1 DEF AsTaken
  <2> QED BY <2>1
<1>2. ASSUME NEW c \in Clients, pc[c] = "staged", WholeLine(EntryOf(c))
      PROVE  DurableRows(AsTaken, z) \subseteq DurableRows(AsTaken', z)
  <2>1. /\ lines \in Logs /\ EntryOf(c) \in Entry \cup {Torn}
        /\ replayed \in 0..Len(lines)
    BY <1>2, EntryType DEF DurableInv, TypeInv, TypeOK, Logs, Inside, Places
  <2>2. lines' = Append(lines, EntryOf(c))
    BY <1>2 DEF WholeLine, DurableInv, Synced
  <2>3. AsTaken' = Append(AsTaken, EntryOf(c))
    BY <1>0, <2>1, <2>2, AsReadAppend DEF AsTaken
  <2>4. AsTaken \in Logs
    BY <2>1, AsReadType DEF AsTaken
  <2>5. \A n \in 0..Len(AsTaken) :
           /\ n \in 0..Len(AsTaken')
           /\ ReplayUpTo(z, AsTaken', {})[n] = ReplayUpTo(z, AsTaken, {})[n]
    <3> HIDE DEF AsTaken
    <3> QED BY <2>1, <2>3, <2>4, ReplayPrefix DEF Logs
  <2> QED BY <2>5 DEF DurableRows
<1> QED BY <1>0, <1>1, <1>2, LinesStep

\* A zone whose update is not under way is what all its lines have made of it.
LEMMA RestsOnLines ==
    ASSUME DurableInv, NEW z \in Zones, ~ Starting, mode # "fatal",
           \A c \in Clients : pc[c] \notin {"staged", "undo"}
    PROVE  RowsOf(records[z]) \in DurableRows(AsTaken, z)
<1>1. mode \in {"serving", "draining", "closed"}
  BY DEF DurableInv, TypeInv, TypeOK, Modes, Starting
<1>2. records[z] = ReplayUpTo(z, AsTaken, {})[Len(AsTaken)]
  BY <1>1 DEF DurableInv, Synced, InMemory, ReplayOf
<1>3. AsTaken \in Logs
  BY AsReadType DEF DurableInv, TypeInv, TypeOK, Logs, AsTaken
<1>4. Len(AsTaken) \in 0..Len(AsTaken)
  <2> HIDE DEF AsTaken
  <2> QED BY <1>3 DEF Logs
<1> QED BY <1>2, <1>4 DEF DurableRows

\* So is one that an update changes, before it does.
LEMMA ChangedFromDurable ==
    ASSUME DurableInv, NothingUndone, UpdateStep, ~ Starting, NEW z \in Zones,
           records'[z] # records[z]
    PROVE  RowsOf(records[z]) \in DurableRows(AsTaken, z)
<1>1. ASSUME NEW c \in Clients, Stage(c) PROVE RowsOf(records[z]) \in DurableRows(AsTaken, z)
  <2>1. lock = None /\ pc[c] = "entered"
    BY <1>1 DEF Stage, MutexFree, Step
  <2>2. \A d \in Clients : pc[d] \notin {"staged", "undo"}
    BY <2>1, UpdateAssumption DEF DurableInv, TypeInv, Control, Inside, Places
  <2>3. mode # "fatal"
    BY <2>1 DEF DurableInv, TypeInv, Control
  <2> QED BY <2>2, <2>3, RestsOnLines
<1>2. ASSUME NEW c \in Clients, Rollback(c) PROVE FALSE
  BY <1>2 DEF Rollback, Return, Step, NothingUndone
<1>3. UNCHANGED records \/ \E c \in Clients : Stage(c) \/ Rollback(c)
  BY DEF UpdateStep, Starting, Call, ApplyStep, Reject, AppendJournal, AppendWritten,
         AppendWithoutFile, AppendRefused, AppendUnsynced, AppendTorn, CommitZone, Resigned,
         ResignFailed, NotifyInCommit, NotifyAndReturn, Boot, Start, ReplayEntry, ReplayFails,
         Serve, Shutdown, CloseJournal, zoneVars, vars
<1> QED BY <1>1, <1>2, <1>3

\* What was deliverable stays so, unless the process ends.
LEMMA DeliverableGrows ==
    ASSUME Dependable, DurableInv, NothingUndone, UpdateStep, ~ Starting, NEW z \in Zones
    PROVE  Deliverable(AsTaken, records, z) \subseteq Deliverable(AsTaken', records', z)
<1>1. DurableRows(AsTaken, z) \subseteq DurableRows(AsTaken', z)
  BY DurableRowsGrow
<1>2. RowsOf(records[z]) \in DurableRows(AsTaken, z) \/ records'[z] = records[z]
  BY ChangedFromDurable
<1> QED BY <1>1, <1>2 DEF Deliverable

\* A step that writes no secondary, and brings no snapshot, delivers nothing new.
LEMMA DeliveringKept ==
    ASSUME Delivering, TransferTypeOK, NEW w \in Workers,
           \A z \in Zones : Deliverable(AsTaken, records, z) \subseteq Deliverable(AsTaken', records', z),
           \A v \in Workers \ {w} :
              place'[v] = place[v] /\ job'[v] = job[v] /\ rows'[v] = rows[v],
           place'[w] \in {"copied", "have", "loading"} =>
              job'[w] \in Zones /\ rows'[w] \in Deliverable(AsTaken', records', job'[w]),
           \A z \in Zones :
              \/ copy'[z] = copy[z] /\ ~ (place[w] = "loading" /\ job[w] = z)
              \/ place'[w] = "loading" /\ job'[w] = z
              \/ RowsOf(copy'[z]) \in Deliverable(AsTaken', records', z)
    PROVE  Delivering'
<1>1. ASSUME NEW v \in Workers, place'[v] \in {"copied", "have", "loading"}
      PROVE  rows'[v] \in Deliverable(AsTaken', records', job'[v])
  <2>1. CASE v = w
    BY <1>1, <2>1
  <2>2. CASE v # w
    <3>1. job[v] \in Zones /\ job'[v] = job[v] /\ rows'[v] = rows[v] /\ place'[v] = place[v]
      BY <1>1, <2>2 DEF TransferTypeOK
    <3>2. rows[v] \in Deliverable(AsTaken, records, job[v])
      BY <1>1, <3>1 DEF Delivering
    <3> QED BY <3>1, <3>2
  <2> QED BY <2>1, <2>2
<1>2. ASSUME NEW z \in Zones
      PROVE  \/ Loaders(z)' # {}
             \/ RowsOf(copy'[z]) = {}
             \/ RowsOf(copy'[z]) \in Deliverable(AsTaken', records', z)
  <2>1. CASE copy'[z] = copy[z] /\ ~ (place[w] = "loading" /\ job[w] = z)
    <3>1. Loaders(z) \subseteq Loaders(z)'
      BY <2>1 DEF Loaders
    <3> QED BY <2>1, <3>1 DEF Delivering
  <2>2. CASE place'[w] = "loading" /\ job'[w] = z
    BY <2>2 DEF Loaders
  <2> QED BY <2>1, <2>2
<1> QED BY <1>1, <1>2 DEF Delivering

\* A worker brings what its primary holds, and leaves it on the secondary.
LEMMA DeliveringWorks ==
    ASSUME SystemInv, Delivering, NEW w \in Workers, WorkerStep(w), Offering
    PROVE  Delivering'
<1> USE DEF packetVars, copyVars, Stay
<1>0. TypeInv /\ TransferTypeOK /\ Holding(w) /\ OneLoader
  BY DEF SystemInv, WorkInv
<1>1. /\ place[w] # "idle" /\ job[w] \in Zones
      /\ \A v \in Workers \ {w} :
            place'[v] = place[v] /\ job'[v] = job[v] /\ rows'[v] = rows[v]
  BY <1>0, OneWorker
<1>2. UNCHANGED <<AsTaken, records>>
  <2>1. UNCHANGED updateRest
    BY DEF WorkerStep, EndTriggered, Fail, TakeSnapshot, ReturnSnapshot, BeginLoad,
       LoadRow, EndLoad, EndApply, CutHistory, SetRange, ReturnDelta, ApplyDelta, RefuseDelta,
       EndChange, Finish
  <2> QED BY <2>1, PathUnchanged
<1>3. \A z \in Zones : Deliverable(AsTaken', records', z) = Deliverable(AsTaken, records, z)
  BY <1>2 DEF Deliverable
<1>4. /\ \A z \in Zones : z # job[w] \/ place[w] = "delta" => copy'[z] = copy[z]
      /\ \A z \in Zones : Deliverable(AsTaken, records, z) \subseteq Deliverable(AsTaken', records', z)
  BY <1>3, OwnStep
<1>5. CASE TakeSnapshot(w)
  <2>1. /\ place[w] = "numbered" /\ UNCHANGED <<copy, job>>
        /\ rows'[w] = RowsOf(records[job[w]])
    BY <1>0, <1>5 DEF TakeSnapshot, Taken, Move, TransferTypeOK
  <2>2. rows'[w] \in Deliverable(AsTaken', records', job'[w])
    BY <1>1, <1>3, <2>1 DEF Deliverable
  <2> QED BY <1>0, <1>1, <1>4, <2>1, <2>2, DeliveringKept
<1>6. CASE ReturnSnapshot(w) \/ BeginLoad(w) \/ LoadRow(w)
  <2>1. /\ place[w] \in {"copied", "have", "loading"} /\ UNCHANGED <<job, rows>>
        /\ \/ place'[w] = "have" /\ copy' = copy /\ place[w] # "loading"
           \/ place'[w] = "loading"
    BY <1>0, <1>6 DEF ReturnSnapshot, BeginLoad, LoadRow, Finish, Move, TransferTypeOK
  <2>2. rows'[w] \in Deliverable(AsTaken', records', job'[w])
    BY <1>1, <1>3, <2>1 DEF Delivering
  <2>3. \A z \in Zones : \/ copy'[z] = copy[z] /\ ~ (place[w] = "loading" /\ job[w] = z)
                         \/ place'[w] = "loading" /\ job'[w] = z
    BY <1>4, <2>1
  <2> QED BY <1>0, <1>1, <1>4, <2>1, <2>2, <2>3, DeliveringKept
<1>7. CASE EndLoad(w)
  <2>1. /\ place[w] = "loading" /\ place'[w] = "applied" /\ todo[w] = {}
        /\ UNCHANGED <<copy, job>>
    BY <1>0, <1>7 DEF EndLoad, Move, TransferTypeOK
  <2>2. RowsOf(copy[job[w]]) = rows[w]
    BY <1>0, <2>1 DEF Holding
  <2>3. RowsOf(copy'[job[w]]) \in Deliverable(AsTaken', records', job[w])
    BY <1>1, <1>3, <2>1, <2>2 DEF Delivering
  <2>4. \A z \in Zones : \/ copy'[z] = copy[z] /\ ~ (place[w] = "loading" /\ job[w] = z)
                         \/ RowsOf(copy'[z]) \in Deliverable(AsTaken', records', z)
    BY <2>1, <2>3
  <2> QED BY <1>0, <1>1, <1>4, <2>1, <2>4, DeliveringKept
<1>8. CASE copy' = copy /\ place[w] # "loading"
              /\ place'[w] \notin {"copied", "have", "loading"}
  BY <1>0, <1>1, <1>4, <1>8, DeliveringKept
<1>9. CASE EndTriggered(w) \/ Fail(w) \/ EndApply(w) \/ EndChange(w)
  <2>1. copy' = copy /\ place[w] # "loading" /\ place'[w] = "idle"
    BY <1>0, <1>9 DEF EndTriggered, Fail, EndApply, EndChange, Finish, Leave, Move,
       TransferTypeOK
  <2> QED BY <1>8, <2>1
<1>10. CASE CutHistory(w) \/ SetRange(w) \/ ReturnDelta(w) \/ RefuseDelta(w)
  <2>1. /\ copy' = copy /\ place[w] # "loading"
        /\ place'[w] \in {"failing", "cut", "ranged", "delta"}
    BY <1>0, <1>10 DEF CutHistory, SetRange, ReturnDelta, RefuseDelta, Finish, Move,
       TransferTypeOK
  <2> QED BY <1>8, <2>1
<1>11. CASE ApplyDelta(w)
  <2>1. place[w] = "delta" /\ place'[w] = "changed"
        /\ copy' = [copy EXCEPT ![job[w]] = AfterOps(@, ops[w])]
    BY <1>0, <1>11 DEF ApplyDelta, Move, TransferTypeOK
  <2>2. copy' = copy
    <3>1. copy \in [Zones -> Stores] /\ \A z \in Zones : copy'[z] = copy[z]
      BY <1>0, <1>4, <2>1 DEF TransferTypeOK
    <3> QED BY <2>1, <3>1
  <2> QED BY <1>8, <2>1, <2>2
<1> QED BY <1>5, <1>6, <1>7, <1>9, <1>10, <1>11 DEF WorkerStep

\* A transfer begins while the server listens, and the end of the process takes
\* the secondaries with it.
LEMMA UndeliveredStep ==
    ASSUME SystemInv, Undelivered, [SystemNext]_systemVars
    PROVE  Undelivered'
<1>1. ASSUME UpdateStep PROVE Undelivered'
  <2>1. UNCHANGED <<copy, place>>
    BY <1>1 DEF UpdateStep, copyVars, workVars
  <2>2. Starting' => Starting
    BY <1>1 DEF UpdateStep, Starting, Call, ApplyStep, Reject, Stage, AppendJournal,
       AppendWritten, AppendWithoutFile, AppendRefused, AppendUnsynced, AppendTorn, Rollback,
       CommitZone, Resigned, ResignFailed, NotifyInCommit, NotifyAndReturn, Boot, Start,
       ReplayEntry, ReplayFails, Serve, Shutdown, CloseJournal, processVars
  <2> QED BY <2>1, <2>2 DEF Undelivered
<1>2. ASSUME EndProcess PROVE Undelivered'
  <2>1. /\ \A z \in Zones : copy'[z] = EmptyStore
        /\ \A w \in Workers : place'[w] = "idle"
    BY <1>2 DEF EndProcess, FreshSecondaries
  <2> QED BY <2>1, NoRows DEF Undelivered
<1>3. ASSUME NEW w \in Workers, NEW z \in Zones, WorkerBegins(w, z) PROVE Undelivered'
  <2>1. mode = "serving" /\ UNCHANGED updateRest
    BY <1>3 DEF WorkerBegins, StartTransfer, AskFull, AskDelta, Begin
  <2> QED BY <2>1, PathUnchanged DEF Undelivered, Starting
<1>4. ASSUME NEW w \in Workers, WorkerStep(w), Offering PROVE Undelivered'
  <2>1. place[w] # "idle"
    BY <1>4, OneWorker DEF SystemInv
  <2>2. UNCHANGED updateRest
    BY <1>4 DEF WorkerStep, EndTriggered, Fail, TakeSnapshot, ReturnSnapshot, BeginLoad,
       LoadRow, EndLoad, EndApply, CutHistory, SetRange, ReturnDelta, ApplyDelta, RefuseDelta,
       EndChange, Finish
  <2> QED BY <2>1, <2>2, PathUnchanged DEF Undelivered, Starting
<1>5. ASSUME UNCHANGED systemVars PROVE Undelivered'
  BY <1>5 DEF systemVars, vars, processVars, copyVars, workVars, Undelivered, Starting
<1> QED BY <1>1, <1>2, <1>3, <1>4, <1>5 DEF SystemNext

\* Every step of the system keeps what is delivered deliverable.
LEMMA DeliveryStep ==
    Accepting => (SystemInv /\ DurableInv /\ DeliveryInv /\ [SystemNext]_systemVars
                     => DeliveryInv')
<1> SUFFICES ASSUME Accepting, SystemInv, DurableInv, DeliveryInv, [SystemNext]_systemVars
             PROVE  DeliveryInv'
  OBVIOUS
<1>0. /\ Dependable /\ TypeInv /\ TransferTypeOK
      /\ NothingUndone /\ Undelivered /\ Delivering
  BY DEF Accepting, SystemInv, DeliveryInv
<1>1. NothingUndone'
  <2>1. CASE [Next]_vars
    BY <1>0, <2>1, UndoneStep
  <2>2. CASE UNCHANGED updateRest
    BY <1>0, <2>2, PathUnchanged DEF NothingUndone
  <2> QED BY <2>1, <2>2, SystemSides
<1>2. Undelivered'
  BY <1>0, UndeliveredStep
<1>3. ASSUME UpdateStep, ~ Starting PROVE Delivering'
  <2>1. UNCHANGED <<copy, place, job, rows>>
    BY <1>3 DEF UpdateStep, copyVars, workVars, packetVars
  <2>2. \A z \in Zones : Deliverable(AsTaken, records, z) \subseteq Deliverable(AsTaken', records', z)
    BY <1>0, <1>3, DeliverableGrows
  <2>3. ASSUME NEW w \in Workers, place[w] \in {"copied", "have", "loading"}
        PROVE  rows'[w] \in Deliverable(AsTaken', records', job'[w])
    <3>1. job[w] \in Zones /\ rows[w] \in Deliverable(AsTaken, records, job[w])
      BY <1>0, <2>3 DEF TransferTypeOK, Delivering
    <3> QED BY <2>1, <2>2, <3>1
  <2>4. \A z \in Zones : Loaders(z)' = Loaders(z)
    BY <2>1 DEF Loaders
  <2> QED BY <1>0, <2>1, <2>2, <2>3, <2>4 DEF Delivering
<1>4. ASSUME UpdateStep, Starting PROVE Delivering'
  <2>1. UNCHANGED <<copy, place>>
    BY <1>4 DEF UpdateStep, copyVars, workVars
  <2> QED BY <1>0, <1>4, <2>1 DEF Undelivered, Delivering
<1>5. ASSUME EndProcess PROVE Delivering'
  <2>1. /\ \A z \in Zones : copy'[z] = EmptyStore
        /\ \A w \in Workers : place'[w] = "idle"
    BY <1>5 DEF EndProcess, FreshSecondaries
  <2> QED BY <2>1, NoRows DEF Delivering
<1>6. ASSUME NEW w \in Workers, NEW z \in Zones, WorkerBegins(w, z) PROVE Delivering'
  <2>1. /\ UNCHANGED <<updateRest, copy, rows>>
        /\ place[w] = "idle"
        /\ place'[w] \notin {"copied", "have", "loading"}
        /\ \A v \in Workers \ {w} : place'[v] = place[v] /\ job'[v] = job[v]
    BY <1>0, <1>6 DEF WorkerBegins, StartTransfer, AskFull, AskDelta, Begin, Move, copyVars,
       packetVars, TransferTypeOK
  <2>2. UNCHANGED <<AsTaken, records>>
    BY <2>1, PathUnchanged
  <2>3. \A y \in Zones : Deliverable(AsTaken, records, y) \subseteq Deliverable(AsTaken', records', y)
    BY <2>2 DEF Deliverable
  <2> QED BY <1>0, <2>1, <2>3, DeliveringKept
<1>7. ASSUME NEW w \in Workers, WorkerStep(w), Offering PROVE Delivering'
  BY <1>0, <1>7, DeliveringWorks
<1>8. ASSUME UNCHANGED systemVars PROVE Delivering'
  <2>1. UNCHANGED <<AsTaken, records, copy, place, job, rows>>
    BY <1>8 DEF systemVars, vars, zoneVars, journalVars, processVars, copyVars, workVars,
                packetVars, AsTaken
  <2>2. /\ \A z : Deliverable(AsTaken', records', z) = Deliverable(AsTaken, records, z)
        /\ \A z \in Zones : Loaders(z)' = Loaders(z)
    BY <2>1 DEF Deliverable, Loaders
  <2> QED BY <1>0, <2>1, <2>2 DEF Delivering
<1> QED BY <1>1, <1>2, <1>3, <1>4, <1>5, <1>6, <1>7, <1>8 DEF SystemNext, DeliveryInv

\* When the journal is dependable and refuses no write, a secondary that is at
\* rest while no update is under way is empty or holds what the lines of the
\* journal have made of its primary, however updates, transfers, stops and
\* crashes interleave.
THEOREM SecondariesJournaled == Accepting => (SystemSpec => []SecondaryIsJournaled)
<1> SUFFICES ASSUME Accepting PROVE SystemSpec => []SecondaryIsJournaled
  OBVIOUS
<1>1. SystemInit => DurableInv /\ DeliveryInv
  <2>1. SystemInit => DurableInv
    BY DurableInit DEF SystemInit
  <2>2. SystemInit => DeliveryInv
    BY NoRows DEF SystemInit, Init, DeliveryInv, NothingUndone, Undelivered, Delivering
  <2> QED BY <2>1, <2>2
<1>2. SystemInv /\ DurableInv /\ [SystemNext]_systemVars => DurableInv'
  BY DurableSystemStep DEF Accepting
<1>3. SystemInv /\ DurableInv /\ DeliveryInv => SecondaryIsJournaled
  <2> SUFFICES ASSUME SystemInv, DurableInv, DeliveryInv, Quiet, NEW z \in Zones,
                      Loaders(z) = {}, RowsOf(copy[z]) # {}
               PROVE  \E n \in 0..Len(lines) :
                         RowsOf(copy[z]) = RowsOf(ReplayUpTo(z, AsTaken, {})[n])
    BY DEF SecondaryIsJournaled
  <2>1. RowsOf(records[z]) \in DurableRows(AsTaken, z)
    <3>1. \A c \in Clients : pc[c] \notin {"staged", "undo"}
      BY UpdateAssumption DEF DurableInv, TypeInv, Control, Quiet, Inside, Places
    <3> QED BY <3>1, RestsOnLines DEF Quiet, Starting
  <2>2. Len(AsTaken) = Len(lines)
    BY AsReadType DEF DurableInv, TypeInv, TypeOK, Logs, AsTaken
  <2>3. RowsOf(copy[z]) \in DurableRows(AsTaken, z) \cup {RowsOf(records[z])}
    BY DEF DeliveryInv, Delivering, Deliverable
  <2> QED BY <2>1, <2>2, <2>3 DEF DurableRows
<1> QED BY <1>1, <1>2, <1>3, DeliveryStep, SystemInitInv, SystemStep, PTL DEF SystemSpec
=============================================================================
