--------------------------- MODULE SigningProofs ---------------------------
(***************************************************************************)
(* Proofs about the signatures of a zone for every set of names, values,   *)
(* keys, reloads, queries and changes, and any number of updates, reloads, *)
(* rollovers and restarts.                                                 *)
(***************************************************************************)
EXTENDS SigningProperties, RecordFacts

Past == Len(KeyOrder) + 1

\* The walk over KeyOrder stops at the next index wanted, or at the end.
LEMMA NextIndexStops ==
    ASSUME NEW wanted, NEW from \in 1..Past
    PROVE  /\ NextIndex(wanted, from) \in from..Past
           /\ NextIndex(wanted, from) \in wanted \/ NextIndex(wanted, from) = Past
           /\ \A j \in from..(NextIndex(wanted, from) - 1) : j \notin wanted
<1> DEFINE X == {i \in from..Past : i \in wanted \/ i = Past}
           Stops(i) == /\ i \in wanted \/ i = Past
                       /\ \A j \in from..(i - 1) : j \notin wanted
<1>1. Past \in Nat
  BY SigningAssumption DEF Past
<1>2. PICK n \in X : \A m \in X : n <= m
  <2>1. X \subseteq Nat /\ Past \in X
    BY <1>1
  <2> HIDE DEF X
  <2> QED BY <2>1, LeastNatural
<1>3. n \in from..Past /\ Stops(n)
  <2>1. ASSUME NEW j \in from..(n - 1) PROVE j \notin wanted
    <3>1. j \in from..Past /\ ~ (n <= j)
      BY <1>1, <1>2
    <3> QED BY <1>2, <3>1
  <2> QED BY <1>2, <2>1
<1>4. NextIndex(wanted, from) = CHOOSE i \in from..Past : Stops(i)
  BY DEF NextIndex, Past
<1>5. NextIndex(wanted, from) \in from..Past /\ Stops(NextIndex(wanted, from))
  <2> HIDE DEF Stops
  <2> QED BY <1>3, <1>4
<1> QED BY <1>5

-----------------------------------------------------------------------------
(***************************************************************************)
(* Types.                                                                  *)
(***************************************************************************)

\* Who may be where, and what a goroutine holds when it is there.
Placed ==
    /\ pc[Updater] \in {"idle", "staged", "signing"}
    /\ \A r \in Reloaders : pc[r] \in {"idle", "reading", "signing", "done"}
    /\ pc[Updater] # "idle" => change \in Changes
    /\ \A p \in Resigners : held[p] # None => pc[p] = "signing" /\ at[p] \in Indices
    /\ \A q \in Queriers : result[q] # "none" => asked[q] \in RRKeys

TypeInv == TypeOK /\ Placed

\* What the constants give the proofs.
LEMMA Basics ==
    /\ Len(KeyOrder) \in Nat
    /\ Past \in Nat
    /\ \A i \in Indices : KeyOrder[i] \in RRKeys
    /\ \A k \in RRKeys : \E i \in Indices : KeyOrder[i] = k
    /\ Indices \subseteq 1..Past
    /\ Updater \in Resigners /\ Reloaders \subseteq Resigners /\ Updater \notin Reloaders
    /\ Names \subseteq Spellings
    /\ RRKeys \subseteq Spellings \X ManagedTypes
    /\ Seed \in Stores /\ EmptyStore \in Stores
<1>1. KeyOrder \in Seq(RRKeys)
  BY SigningAssumption
<1>2. Len(KeyOrder) \in Nat /\ \A i \in 1..Len(KeyOrder) : KeyOrder[i] \in RRKeys
  BY <1>1
<1>3. Names \subseteq Spellings
  BY CanonAssumption DEF Names
<1>4. EmptyStore \in Stores
  BY DEF EmptyStore, Stores
<1> QED BY <1>2, <1>3, <1>4, SigningAssumption DEF Indices, Past, Resigners, RRKeys

\* What is signed of a list of records is a list of records.
LEMMA PayloadType ==
    ASSUME NEW rs \in Seq(Record)
    PROVE  Payload(rs) \in Seq(Record)
<1>1. Len(rs) \in Nat /\ \A i \in 1..Len(rs) : rs[i] \in Record
  OBVIOUS
<1>2. \A r \in Record : [r EXCEPT !.rdata = FoldCase[@]] \in Record
  BY SigningAssumption DEF Record
<1> QED BY <1>1, <1>2 DEF Payload

\* The walk starts and goes on within the list.
LEMMA WalkType ==
    /\ \A wanted : NextIndex(wanted, 1) \in 1..Past
    /\ \A i \in Indices : \A wanted : NextIndex(wanted, i + 1) \in 1..Past
<1>1. Past \in Nat /\ Past >= 1
  BY SigningAssumption DEF Past
<1>2. ASSUME NEW wanted PROVE NextIndex(wanted, 1) \in 1..Past
  BY <1>1, NextIndexStops
<1>3. ASSUME NEW i \in Indices, NEW wanted PROVE NextIndex(wanted, i + 1) \in 1..Past
  <2>1. i + 1 \in 1..Past /\ i \in Nat
    BY Basics DEF Indices, Past
  <2>2. NextIndex(wanted, i + 1) \in (i + 1)..Past
    BY <2>1, NextIndexStops
  <2> QED BY <2>1, <2>2, <1>1
<1> QED BY <1>2, <1>3

\* What the walk passes over is not wanted.
LEMMA SkippedOver ==
    ASSUME NEW wanted, NEW from \in 1..Past
    PROVE  \A j \in Indices : from <= j /\ j < NextIndex(wanted, from) => j \notin wanted
<1> DEFINE i == NextIndex(wanted, from)
<1>1. i \in from..Past /\ \A j \in from..(i - 1) : j \notin wanted
  BY NextIndexStops
<1>2. Past \in Nat /\ Indices \subseteq Nat /\ from \in Nat
  BY Basics DEF Indices
<1> HIDE DEF i
<1>3. i \in Nat
  BY <1>1, <1>2
<1>4. ASSUME NEW j \in Indices, from <= j, j < i PROVE j \in from..(i - 1)
  <2>1. j \in Nat
    BY <1>2
  <2> QED BY <1>2, <1>3, <1>4, <2>1
<1>5. \A j \in Indices : from <= j /\ j < i => j \notin wanted
  BY <1>1, <1>4
<1> QED BY <1>5 DEF i

\* A change of an update, applied to a store.
LEMMA ChangeType ==
    ASSUME NEW ch \in Changes, NEW st \in Stores
    PROVE  /\ ApplyChange(st, ch) \in Stores
           /\ AppliedName(ch) \in Spellings
           /\ KeyOf(ch) \in RRKeys
<1>1. ch \in Change /\ Validated(ch)
  BY SigningAssumption
<1>2. Canon \in [Spellings -> Spellings]
  BY CanonAssumption
<1> QED BY <1>1, <1>2, ApplyChangeType
        DEF AppliedName, Change, KeyOf, Validated, RRKeys, Names

\* The n-th store of a replay, given those before.
ReplayStep(log, f, n) == IF n = 0 THEN Seed ELSE ApplyChange(f[n - 1], log[n])

\* ReplayUpTo is the recursion it is written as, and its values are stores.
LEMMA ReplaySolves ==
    ASSUME NEW log \in Seq(Changes)
    PROVE  /\ \A n \in 0..Len(log) :
                 ReplayUpTo(log)[n] = ReplayStep(log, ReplayUpTo(log), n)
           /\ \A n \in 0..Len(log) : ReplayUpTo(log)[n] \in Stores
<1> DEFINE N == Len(log)
           Solves(f) == f = [n \in 0..N |-> ReplayStep(log, f, n)]
           step == [p \in (1..N) \X Stores |-> ApplyChange(p[2], log[p[1]])]
<1>0. N \in Nat /\ (\A n \in 1..N : log[n] \in Changes) /\ Seed \in Stores
  BY Basics
<1>1. step \in [(1..N) \X Stores -> Stores]
  <2>1. \A p \in (1..N) \X Stores : ApplyChange(p[2], log[p[1]]) \in Stores
    BY <1>0, ChangeType
  <2> QED BY <2>1
<1>2. PICK g \in [0..N -> Stores] : \A n \in 0..N : g[n] = Fold(Seed, step, g, n)
  <2>1. step \in StepsOn(N, Stores)
    BY <1>1 DEF StepsOn
  <2>2. HasSolution(N, Stores, Seed, step)
    <3> HIDE DEF N, step
    <3> QED BY <1>0, <2>1, FoldExists
  <2> QED BY <2>2 DEF HasSolution
<1>3. ASSUME NEW n \in 0..N PROVE Fold(Seed, step, g, n) = ReplayStep(log, g, n)
  <2>1. CASE n = 0
    BY <2>1 DEF Fold, ReplayStep
  <2>2. CASE n # 0
    <3>1. n \in 1..N /\ n - 1 \in 0..N
      BY <2>2, <1>0
    <3>2. <<n, g[n - 1]>> \in (1..N) \X Stores
      BY <3>1, <1>2
    <3> QED BY <2>2, <3>2 DEF Fold, ReplayStep
  <2> QED BY <2>1, <2>2
<1>4. Solves(g)
  <2> HIDE DEF N, step
  <2> QED BY <1>2, <1>3
<1>5. ReplayUpTo(log) = CHOOSE f : Solves(f)
  BY DEF ReplayUpTo, ReplayStep
<1>6. Solves(ReplayUpTo(log))
  <2> HIDE DEF Solves
  <2> QED BY <1>4, <1>5
<1>7. \A n \in 0..N : ReplayUpTo(log)[n] = ReplayStep(log, ReplayUpTo(log), n)
  BY <1>6
<1> DEFINE S == {n \in 0..N : ReplayUpTo(log)[n] \in Stores}
<1>8. 0 \in S
  <2>1. 0 \in 0..N
    BY <1>0
  <2> QED BY <2>1, <1>0, <1>7 DEF ReplayStep
<1>9. ASSUME NEW n \in 1..N, n - 1 \in S PROVE n \in S
  <2>1. n \in 0..N /\ n # 0 /\ ReplayUpTo(log)[n - 1] \in Stores /\ log[n] \in Changes
    BY <1>0, <1>9
  <2>2. ReplayUpTo(log)[n] = ApplyChange(ReplayUpTo(log)[n - 1], log[n])
    BY <2>1, <1>7 DEF ReplayStep
  <2> QED BY <2>1, <2>2, ChangeType
<1>10. \A n \in 0..N : n \in S
  <2> HIDE DEF S, N
  <2> QED BY <1>0, <1>8, <1>9, IntervalInduction
<1> QED BY <1>7, <1>10

\* The signatures a process starts with.
LEMMA SeedSignaturesType ==
    SeedSignatures \in [Spellings \X ManagedTypes -> Signature \cup {None}]
<1>1. ASSUME NEW k \in Present(Seed) PROVE [key |-> 1, covers |-> Payload(Seed[k])] \in Signature
  <2>1. Seed[k] \in Seq(Record) /\ 1 \in KeyIds
    BY SigningAssumption DEF Present, Stores, RRKeys
  <2> QED BY <2>1, PayloadType DEF Signature
<1> QED BY <1>1 DEF SeedSignatures

LEMMA FirstKeyType ==
    ASSUME NEW t \in Nat
    PROVE  FirstKey(t) \in [KeyIds -> KeyTimes \cup {None}]
BY SigningAssumption DEF FirstKey, KeyTimes

\* The state a process starts in, whatever the journal, the clock and the
\* number of updates.
Fresh ==
    /\ signatures = SeedSignatures
    /\ keys = FirstKey(now)
    /\ active = 1
    /\ verifying = {1}
    /\ change = None
    /\ before = EmptyStore
    /\ pc = [p \in Resigners |-> "idle"]
    /\ names = [r \in Reloaders |-> {}]
    /\ plan = [p \in Resigners |-> NoLists]
    /\ at = [p \in Resigners |-> 1]
    /\ held = [p \in Resigners |-> None]
    /\ clean = [r \in Reloaders |-> FALSE]
    /\ asked = [q \in Queriers |-> None]
    /\ seen = [q \in Queriers |-> << >>]
    /\ found = [q \in Queriers |-> None]
    /\ result = [q \in Queriers |-> "none"]
    /\ since = [q \in Queriers |-> 0]
    /\ calm = [q \in Queriers |-> FALSE]

FreshInv ==
    /\ Fresh
    /\ records \in Stores /\ journal \in Seq(Changes)
    /\ updates \in 0..MaxUpdates /\ now \in Nat

LEMMA FreshType == FreshInv => TypeInv
<1> SUFFICES ASSUME FreshInv PROVE TypeInv
  OBVIOUS
<1> USE DEF FreshInv
<1>1. /\ signatures \in [Spellings \X ManagedTypes -> Signature \cup {None}]
      /\ keys \in [KeyIds -> KeyTimes \cup {None}]
      /\ active \in KeyIds /\ verifying \in SUBSET KeyIds
  BY SeedSignaturesType, FirstKeyType, SigningAssumption DEF Fresh
<1>2. before \in Stores /\ change \in Changes \cup {None}
  BY Basics DEF Fresh
<1>3. /\ pc \in [Resigners -> {"idle", "staged", "reading", "signing", "done"}]
      /\ names \in [Reloaders -> SUBSET Names]
      /\ plan \in [Resigners -> [Indices -> Seq(Record)]]
      /\ at \in [Resigners -> 1..Past]
      /\ held \in [Resigners -> KeyIds \cup {None}]
      /\ clean \in [Reloaders -> BOOLEAN]
  BY Basics DEF Fresh, NoLists, Past
<1>4. /\ asked \in [Queriers -> RRKeys \cup {None}]
      /\ seen \in [Queriers -> Seq(Record)]
      /\ found \in [Queriers -> Signature \cup {None}]
      /\ result \in [Queriers -> Ended \cup {"looked", "signed"}]
      /\ since \in [Queriers -> 0..Len(journal)]
      /\ calm \in [Queriers -> BOOLEAN]
  BY DEF Fresh, Ended
<1>5. Placed
  BY Basics DEF Placed, Fresh
<1> QED BY <1>1, <1>2, <1>3, <1>4, <1>5 DEF TypeInv, TypeOK, Past

LEMMA InitType == Init => TypeInv
<1>1. Init => Fresh
  BY DEF Init, Fresh
<1>2. Init => FreshInv
  BY <1>1, SigningAssumption DEF Init, FreshInv
<1> QED BY <1>2, FreshType

LEMMA RestartType == TypeInv /\ Restart => TypeInv'
<1>1. ASSUME TypeInv, Restart PROVE FreshInv'
  <2>1. Fresh'
    BY <1>1 DEF Restart, Fresh
  <2>2. /\ journal \in Seq(Changes) /\ updates \in 0..MaxUpdates /\ now \in Nat
        /\ UNCHANGED <<journal, updates, now>>
    BY <1>1 DEF Restart, TypeInv, TypeOK
  <2>3. Len(journal) \in 0..Len(journal)
    BY <2>2
  <2>4. records' \in Stores
    BY <1>1, <2>2, <2>3, ReplaySolves DEF Restart
  <2> QED BY <2>1, <2>2, <2>4 DEF FreshInv
<1> QED BY <1>1, FreshType, PTL

\* Each kind of step keeps the types.
LEMMA UpdateType == ASSUME TypeInv, Update PROVE TypeInv'
<1> USE DEF TypeInv, TypeOK, Placed, zoneVars, keyVars, signVars, queryVars
<1>0. Updater \in Resigners /\ \A r \in Reloaders : r \in Resigners /\ r # Updater
  BY Basics
<1>1. ASSUME NEW ch \in Changes, Stage(ch) PROVE TypeInv'
  <2>1. ApplyChange(records, ch) \in Stores
    BY ChangeType
  <2>2. updates + 1 \in 0..MaxUpdates
    BY <1>1, SigningAssumption DEF Stage
  <2> QED BY <1>0, <1>1, <2>1, <2>2 DEF Stage
<1>2. ASSUME Finish, pc[Updater] \in {"staged", "signing"}, records' \in Stores,
             UNCHANGED <<journal, updates, signatures, keyVars, now, names, clean,
                         queryVars, calm>>
      PROVE  TypeInv'
  <2>1. NoLists \in [Indices -> Seq(Record)] /\ 1 \in 1..Past /\ EmptyStore \in Stores
    BY Basics DEF NoLists, Past
  <2> QED BY <1>0, <1>2, <2>1 DEF Finish, Past
<1>3. CASE AppendRefused
  BY <1>2, <1>3 DEF AppendRefused
<1>4. CASE HookFails
  BY <1>2, <1>4 DEF HookFails
<1>5. CASE UpdateDone
  BY <1>2, <1>5 DEF UpdateDone
<1>6. CASE AppendAndCollect
  <2> DEFINE lists == [i \in Indices |-> Affected(i)]
             start == NextIndex(ToSign(lists), 1)
  <2>1. lists \in [Indices -> Seq(Record)]
    <3>1. \A i \in Indices : KeyOrder[i] \in RRKeys
      BY Basics
    <3>2. \A i \in Indices : Affected(i) \in Seq(Record)
      BY <3>1 DEF Affected, Stores, RRKeys
    <3> QED BY <3>2
  <2>2. start \in 1..Past
    BY WalkType
  <2>3. change \in Changes /\ Append(journal, change) \in Seq(Changes)
    <3>1. change \in Changes /\ journal \in Seq(Changes)
      BY <1>6 DEF AppendAndCollect
    <3> QED BY <3>1
  <2>4. /\ plan' = [plan EXCEPT ![Updater] = lists]
        /\ at' = [at EXCEPT ![Updater] = start]
    BY <1>6 DEF AppendAndCollect
  <2> HIDE DEF lists, start
  <2>5. at' \in [Resigners -> 1..Past] /\ plan' \in [Resigners -> [Indices -> Seq(Record)]]
    BY <2>1, <2>2, <2>4 DEF Past
  <2>6. \A p \in Resigners : held'[p] # None => pc'[p] = "signing" /\ at'[p] \in Indices
    BY <1>0, <1>6, <2>4 DEF AppendAndCollect
  <2>7. since' \in [Queriers -> 0..Len(journal')]
    <3>1. journal \in Seq(Changes) /\ journal' = Append(journal, change) /\ since' = since
      BY <1>6 DEF AppendAndCollect
    <3>2. Len(journal') = Len(journal) + 1 /\ Len(journal) \in Nat
      BY <2>3, <3>1
    <3> QED BY <3>1, <3>2
  <2> QED BY <1>0, <1>6, <2>3, <2>5, <2>6, <2>7 DEF AppendAndCollect, Past
<1> QED BY <1>1, <1>3, <1>4, <1>5, <1>6 DEF Update

LEMMA ResignType == ASSUME TypeInv, NEW p \in Resigners, Resign(p) PROVE TypeInv'
<1> USE DEF TypeInv, TypeOK, Placed, zoneVars, keyVars, signVars, queryVars
<1>1. CASE FetchKey(p)
  <2>1. at[p] \in Indices
    BY <1>1, Basics DEF FetchKey, Finished, Past, Indices
  <2> QED BY <1>1, <2>1 DEF FetchKey
<1>2. CASE StoreSignature(p)
  <2> DEFINE i == at[p]
             sig == [key |-> held[p], covers |-> Payload(plan[p][i])]
  <2>1. pc[p] = "signing" /\ held[p] \in KeyIds /\ i \in Indices
    BY <1>2 DEF StoreSignature
  <2>2. KeyOrder[i] \in RRKeys
    BY <2>1, Basics
  <2>3. FiledAs(p, i) \in Spellings \X ManagedTypes
    <3>1. CASE p = Updater
      <4>1. change \in Changes
        BY <2>1, <3>1
      <4>2. AppliedName(change) \in Spellings
        BY <4>1, ChangeType
      <4> QED BY <2>2, <3>1, <4>2 DEF FiledAs, RRKeys
    <3>2. CASE p # Updater
      BY <2>2, <3>2, Basics DEF FiledAs, RRKeys
    <3> QED BY <3>1, <3>2
  <2>4. sig \in Signature
    BY <2>1, PayloadType DEF Signature
  <2>5. NextIndex(ToSign(plan[p]), i + 1) \in 1..Past
    BY <2>1, WalkType
  <2>6. /\ signatures' = [signatures EXCEPT ![FiledAs(p, i)] = sig]
        /\ at' = [at EXCEPT ![p] = NextIndex(ToSign(plan[p]), i + 1)]
        /\ held' = [held EXCEPT ![p] = None]
    BY <1>2 DEF StoreSignature
  <2> HIDE DEF sig
  <2>7. signatures' \in [Spellings \X ManagedTypes -> Signature \cup {None}]
    BY <2>3, <2>4, <2>6
  <2> QED BY <1>2, <2>5, <2>6, <2>7 DEF StoreSignature, Past
<1> QED BY <1>1, <1>2 DEF Resign

LEMMA ReloadType == ASSUME TypeInv, NEW r \in Reloaders, Reload(r) PROVE TypeInv'
<1> USE DEF TypeInv, TypeOK, Placed, zoneVars, keyVars, signVars, queryVars
<1>0. r \in Resigners /\ r # Updater
  BY Basics
<1>1. CASE StartReload(r)
  <2> DEFINE there == {k[1] : k \in Present(records)}
  <2>1. there \in SUBSET Names
    BY DEF Present, RRKeys
  <2>2. NextIndex(Listed(there), 1) \in 1..Past
    BY WalkType
  <2>3. /\ names' = [names EXCEPT ![r] = there]
        /\ at' = [at EXCEPT ![r] = NextIndex(Listed(there), 1)]
    BY <1>1 DEF StartReload
  <2>4. clean' \in [Reloaders -> BOOLEAN]
    BY <1>1 DEF StartReload
  <2> HIDE DEF there
  <2> QED BY <1>0, <1>1, <2>1, <2>2, <2>3, <2>4 DEF StartReload, Past
<1>2. CASE ReadRRSet(r)
  <2>1. at[r] \in Indices
    BY <1>0, <1>2, Basics DEF ReadRRSet, Finished, Past, Indices
  <2>2. records[KeyOrder[at[r]]] \in Seq(Record)
    BY <2>1, Basics DEF Stores, RRKeys
  <2>3. NextIndex(Listed(names[r]), at[r] + 1) \in 1..Past
    BY <2>1, WalkType
  <2>4. plan' \in [Resigners -> [Indices -> Seq(Record)]]
    BY <1>0, <1>2, <2>1, <2>2 DEF ReadRRSet
  <2> QED BY <1>0, <1>2, <2>3, <2>4 DEF ReadRRSet, Past
<1>3. CASE EndReading(r)
  <2>1. NextIndex(ToSign(plan[r]), 1) \in 1..Past
    BY WalkType
  <2> QED BY <1>0, <1>3, <2>1 DEF EndReading, Past
<1>4. ASSUME NEW to \in {"idle", "done"}, LeaveReload(r, to),
             UNCHANGED <<zoneVars, signatures, keyVars, now, clean, queryVars, calm>>
      PROVE  TypeInv'
  <2>1. NoLists \in [Indices -> Seq(Record)] /\ 1 \in 1..Past
    BY Basics DEF NoLists, Past
  <2> QED BY <1>0, <1>4, <2>1 DEF LeaveReload, Past
<1>5. CASE ReloadFails(r)
  BY <1>4, <1>5 DEF ReloadFails
<1>6. CASE ReloadDone(r)
  BY <1>4, <1>6 DEF ReloadDone
<1> QED BY <1>1, <1>2, <1>3, <1>5, <1>6 DEF Reload

LEMMA RolloverType == ASSUME TypeInv, NEW id \in KeyIds, Rollover(id) PROVE TypeInv'
<1> USE DEF TypeInv, TypeOK, Placed, zoneVars, keyVars, signVars, queryVars
<1>1. PICK from \in ActiveFroms : keys' = [keys EXCEPT ![id] = [from |-> from, until |-> now + Life]]
  BY DEF Rollover
<1>2. [from |-> from, until |-> now + Life] \in KeyTimes
  BY SigningAssumption DEF ActiveFroms, KeyTimes
<1>3. keys' \in [KeyIds -> KeyTimes \cup {None}]
  BY <1>1, <1>2
<1>4. verifying' \in SUBSET KeyIds
  BY DEF Rollover, VerificationSet
<1> QED BY <1>3, <1>4 DEF Rollover

LEMMA QueryType == ASSUME TypeInv, NEW q \in Queriers, Query(q) PROVE TypeInv'
<1> USE DEF TypeInv, TypeOK, Placed, zoneVars, keyVars, signVars, queryVars
<1>1. ASSUME NEW k \in RRKeys, LookUp(q, k) PROVE TypeInv'
  <2>1. records[k] \in Seq(Record) /\ "nxdomain" \in Ended
    BY DEF Stores, RRKeys, Ended
  <2>2. calm' \in [Queriers -> BOOLEAN]
    BY <1>1 DEF LookUp
  <2> QED BY <1>1, <2>1, <2>2 DEF LookUp
<1>2. CASE ReadSignature(q)
  <2>1. signatures[asked[q]] \in Signature \cup {None} /\ "refused" \in Ended
    BY <1>2, Basics DEF ReadSignature, Ended
  <2> QED BY <1>2, <2>1 DEF ReadSignature
<1>3. CASE Answer(q)
  BY <1>3 DEF Answer, Ended
<1> QED BY <1>1, <1>2, <1>3 DEF Query

LEMMA StepType == TypeInv /\ [Next]_vars => TypeInv'
<1> SUFFICES ASSUME TypeInv, [Next]_vars PROVE TypeInv'
  OBVIOUS
<1>1. CASE UNCHANGED vars
  BY <1>1 DEF TypeInv, TypeOK, Placed, vars, zoneVars, keyVars, signVars, queryVars
<1>2. CASE Tick
  BY <1>2 DEF TypeInv, TypeOK, Placed, Tick, zoneVars, keyVars, signVars, queryVars
<1>3. CASE Next
  BY <1>2, <1>3, UpdateType, ResignType, ReloadType, RolloverType, QueryType, RestartType
     DEF Next
<1> QED BY <1>1, <1>3

\* The variables of the signer, the keyring and their users have the types
\* TypeOK gives them, for every set of keys, reloads, queries and changes.
THEOREM TypeCorrect == Spec => []TypeOK
<1>1. TypeInv => TypeOK
  BY DEF TypeInv
<1> QED BY <1>1, InitType, StepType, PTL DEF Spec

-----------------------------------------------------------------------------
(***************************************************************************)
(* The keys.  When no rollover asks for a key to be active later, every    *)
(* key ever used verifies until its time is over.                          *)
(***************************************************************************)

OnTime == "future" \notin Faults

KeysInv ==
    /\ \A id \in KeyIds : keys[id] # None =>
          keys[id].from <= now /\ (id \in verifying \/ Aged(id))
    /\ keys[active] # None
    /\ \A p \in Resigners : held[p] # None => keys[held[p]] # None
    /\ \A k \in Spellings \X ManagedTypes : signatures[k] # None =>
          keys[signatures[k].key] # None
    /\ \A q \in Queriers : found[q] # None => keys[found[q].key] # None

\* At start there is one key, and it made every signature.
FreshKeys == Fresh /\ now \in Nat

LEMMA FreshKeysInv == FreshKeys => KeysInv
<1> SUFFICES ASSUME FreshKeys PROVE KeysInv
  OBVIOUS
<1>1. 1 \in KeyIds /\ keys = FirstKey(now) /\ now \in Nat /\ Life \in Nat
  BY SigningAssumption DEF FreshKeys, Fresh
<1>2. [from |-> now, until |-> now + Life] \in KeyTimes
  BY <1>1 DEF KeyTimes
<1>3. /\ keys[1] # None /\ keys[1].from <= now
      /\ \A id \in KeyIds : keys[id] # None => id = 1
  BY <1>1, <1>2, SigningAssumption DEF FirstKey
<1>4. \A k \in Spellings \X ManagedTypes : signatures[k] # None => signatures[k].key = 1
  BY DEF FreshKeys, Fresh, SeedSignatures
<1>5. /\ active = 1 /\ verifying = {1}
      /\ \A p \in Resigners : held[p] = None
      /\ \A q \in Queriers : found[q] = None
  BY DEF FreshKeys, Fresh
<1> QED BY <1>3, <1>4, <1>5 DEF KeysInv

\* A key that exists keeps its time at a rollover, and verifies or is too old.
LEMMA RolloverKeys ==
    ASSUME OnTime, TypeInv, KeysInv, NEW id \in KeyIds, Rollover(id)
    PROVE  KeysInv'
<1>1. /\ keys[id] = None /\ now \in Nat /\ Life \in Nat
      /\ keys' = [keys EXCEPT ![id] = [from |-> now, until |-> now + Life]]
      /\ active' = id
      /\ verifying' = VerificationSet(keys', now)
      /\ UNCHANGED <<now, signatures, held, found>>
  BY SigningAssumption
     DEF Rollover, ActiveFroms, OnTime, TypeInv, TypeOK, signVars, queryVars
<1>2. keys \in [KeyIds -> KeyTimes \cup {None}] /\ keys' \in [KeyIds -> KeyTimes \cup {None}]
  BY RolloverType DEF TypeInv, TypeOK
<1>3. [from |-> now, until |-> now + Life] \in KeyTimes /\ None \notin KeyTimes
  BY <1>1, SigningAssumption DEF KeyTimes
<1>4. keys'[id] # None /\ keys'[id].from = now
  BY <1>1, <1>2, <1>3
<1>5. \A other \in KeyIds : keys[other] # None => keys'[other] = keys[other]
  BY <1>1, <1>2
<1>6. \A other \in KeyIds : keys'[other] # None => keys'[other].from <= now
  BY <1>1, <1>2, <1>4, <1>5 DEF KeysInv
<1>7. ASSUME NEW other \in KeyIds, keys'[other] # None
      PROVE  other \in verifying' \/ keys'[other].until < now'
  <2>1. keys'[other] \in KeyTimes
    BY <1>2, <1>7
  <2>2. keys'[other].until \in Nat
    BY <2>1 DEF KeyTimes
  <2> QED BY <1>1, <1>6, <1>7, <2>2 DEF VerificationSet
<1>8. /\ \A p \in Resigners : held[p] \in KeyIds \cup {None}
      /\ \A k \in Spellings \X ManagedTypes : signatures[k] # None => signatures[k].key \in KeyIds
      /\ \A q \in Queriers : found[q] # None => found[q].key \in KeyIds
  BY DEF TypeInv, TypeOK, Signature
<1>9. /\ \A p \in Resigners : held[p] # None => keys'[held[p]] # None
      /\ \A k \in Spellings \X ManagedTypes : signatures[k] # None =>
            keys'[signatures[k].key] # None
      /\ \A q \in Queriers : found[q] # None => keys'[found[q].key] # None
  BY <1>5, <1>8 DEF KeysInv
<1> QED BY <1>1, <1>4, <1>6, <1>7, <1>9 DEF KeysInv, Aged

\* No other step makes a key or lets one go.
LEMMA ElsewhereKeys ==
    ASSUME TypeInv, KeysInv, UNCHANGED keyVars,
           \/ UNCHANGED now
           \/ now' = now + 1,
           \A p \in Resigners : held'[p] \in {held[p], None, active},
           \A k \in Spellings \X ManagedTypes :
              \/ signatures'[k] = signatures[k]
              \/ \E p \in Resigners : held[p] # None /\ signatures'[k].key = held[p],
           \A q \in Queriers :
              \/ found'[q] \in {found[q], None}
              \/ \E k \in Spellings \X ManagedTypes : found'[q] = signatures[k]
    PROVE  KeysInv'
<1>1. keys' = keys /\ active' = active /\ verifying' = verifying
  BY DEF keyVars
<1>2. ASSUME NEW id \in KeyIds, keys'[id] # None
      PROVE  keys'[id].from <= now' /\ (id \in verifying' \/ keys'[id].until < now')
  <2>1. keys[id].from \in Nat /\ keys[id].until \in Nat /\ now \in Nat
    BY <1>1, <1>2 DEF TypeInv, TypeOK, KeyTimes
  <2>2. keys[id].from <= now /\ (id \in verifying \/ keys[id].until < now)
    BY <1>1, <1>2 DEF KeysInv, Aged
  <2>3. now' = now \/ now' = now + 1
    OBVIOUS
  <2> QED BY <1>1, <2>1, <2>2, <2>3
<1>3. keys'[active'] # None
  BY <1>1 DEF KeysInv
<1>4. \A p \in Resigners : held'[p] # None => keys'[held'[p]] # None
  BY <1>1 DEF KeysInv
<1>5. \A k \in Spellings \X ManagedTypes : signatures'[k] # None =>
         keys'[signatures'[k].key] # None
  BY <1>1 DEF KeysInv
<1>6. \A q \in Queriers : found'[q] # None => keys'[found'[q].key] # None
  BY <1>1 DEF KeysInv
<1> QED BY <1>2, <1>3, <1>4, <1>5, <1>6 DEF KeysInv, Aged

LEMMA StepKeys == OnTime => (TypeInv /\ KeysInv /\ [Next]_vars => KeysInv')
<1> SUFFICES ASSUME OnTime, TypeInv, KeysInv, [Next]_vars PROVE KeysInv'
  OBVIOUS
<1> USE DEF zoneVars, keyVars, signVars, queryVars
<1>1. CASE UNCHANGED <<keyVars, now, held, signatures, found>>
  BY <1>1, ElsewhereKeys
<1>2. CASE Update
  <2>1. CASE Finish /\ UNCHANGED <<keyVars, now, signatures, found>>
    <3>1. \A p \in Resigners : held'[p] \in {held[p], None, active}
      BY <2>1 DEF Finish, TypeInv, TypeOK
    <3> QED BY <2>1, <3>1, ElsewhereKeys
  <2> QED BY <1>1, <1>2, <2>1
          DEF Update, Stage, AppendRefused, AppendAndCollect, HookFails, UpdateDone
<1>3. ASSUME NEW p \in Resigners, FetchKey(p) PROVE KeysInv'
  <2>1. \A o \in Resigners : held'[o] \in {held[o], None, active}
    BY <1>3 DEF FetchKey, TypeInv, TypeOK
  <2> QED BY <1>3, <2>1, ElsewhereKeys DEF FetchKey
<1>4. ASSUME NEW p \in Resigners, StoreSignature(p) PROVE KeysInv'
  <2>1. \A o \in Resigners : held'[o] \in {held[o], None, active}
    BY <1>4 DEF StoreSignature, TypeInv, TypeOK
  <2> DEFINE sig == [key |-> held[p], covers |-> Payload(plan[p][at[p]])]
  <2>2. signatures' = [signatures EXCEPT ![FiledAs(p, at[p])] = sig] /\ held[p] # None
        /\ sig.key = held[p]
    BY <1>4 DEF StoreSignature
  <2>3. ASSUME NEW k \in Spellings \X ManagedTypes
        PROVE  \/ signatures'[k] = signatures[k]
               \/ \E o \in Resigners : held[o] # None /\ signatures'[k].key = held[o]
    <3>1. signatures'[k] \in {signatures[k], sig}
      <4> HIDE DEF sig
      <4> QED BY <2>2 DEF TypeInv, TypeOK
    <3> QED BY <2>2, <3>1
  <2> QED BY <1>4, <2>1, <2>3, ElsewhereKeys DEF StoreSignature
<1>5. ASSUME NEW r \in Reloaders, Reload(r) PROVE KeysInv'
  <2>1. \A o \in Resigners : held'[o] \in {held[o], None, active}
    BY <1>5 DEF Reload, StartReload, ReadRRSet, EndReading, ReloadFails, ReloadDone,
                LeaveReload, TypeInv, TypeOK
  <2>2. UNCHANGED <<keyVars, now, signatures, found>>
    BY <1>5 DEF Reload, StartReload, ReadRRSet, EndReading, ReloadFails, ReloadDone
  <2> QED BY <2>1, <2>2, ElsewhereKeys
<1>6. ASSUME NEW q \in Queriers, Query(q) PROVE KeysInv'
  <2>1. ASSUME NEW o \in Queriers
        PROVE  \/ found'[o] \in {found[o], None}
               \/ \E k \in Spellings \X ManagedTypes : found'[o] = signatures[k]
    <3>1. CASE ReadSignature(q)
      <4>1. asked[q] \in Spellings \X ManagedTypes
        BY <3>1, Basics DEF ReadSignature, TypeInv, Placed
      <4>2. found'[o] \in {found[o], signatures[asked[q]]}
        BY <3>1 DEF ReadSignature, TypeInv, TypeOK
      <4> QED BY <4>1, <4>2
    <3> QED BY <1>6, <3>1 DEF Query, LookUp, Answer, TypeInv, TypeOK
  <2>2. UNCHANGED <<keyVars, now, signatures, held>>
    BY <1>6 DEF Query, LookUp, ReadSignature, Answer
  <2> QED BY <2>1, <2>2, ElsewhereKeys
<1>7. CASE Tick
  BY <1>7, ElsewhereKeys DEF Tick
<1>8. CASE Restart
  <2>1. FreshKeys'
    BY <1>8 DEF Restart, Fresh, FreshKeys, TypeInv, TypeOK
  <2> QED BY <2>1, FreshKeysInv, PTL
<1>9. CASE UNCHANGED vars
  BY <1>1, <1>9 DEF vars
<1> QED BY <1>2, <1>3, <1>4, <1>5, <1>6, <1>7, <1>8, <1>9, RolloverKeys DEF Next, Resign

-----------------------------------------------------------------------------
(***************************************************************************)
(* Reloads and queries that no update overlaps.                            *)
(***************************************************************************)

\* The stored signature covers the RRset, by whatever key it was made.
SignedBy(sigs, st, k) == sigs[k] # None /\ sigs[k].covers = Payload(st[k])

\* No update is under way, nor a reload that one has overlapped.
Quiet ==
    /\ pc[Updater] = "idle"
    /\ \A r \in Reloaders : pc[r] \in {"reading", "signing"} => clean[r]

\* What a clean reload knows when it is at p: it read the zone as it is, and
\* has signed the part it is past.
ReloadFine(p, ns, lists, i, st, sigs) ==
    /\ p = "reading" =>
          /\ ns = {k[1] : k \in Present(st)}
          /\ \A j \in Indices : lists[j] \in {<< >>, st[KeyOrder[j]]}
          /\ \A j \in Indices : j < i => lists[j] = st[KeyOrder[j]]
    /\ p = "signing" =>
          /\ \A j \in Indices : lists[j] = st[KeyOrder[j]]
          /\ \A j \in Indices : j < i /\ lists[j] # << >> => SignedBy(sigs, st, KeyOrder[j])
    /\ p = "done" => \A k \in Present(st) : SignedBy(sigs, st, k)

\* What a calm query knows: it will be answered unless the key grows too old.
QueryFine(res, k, rs, sig, st, sigs, ks, t) ==
    /\ res = "looked" => rs = st[k] /\ SignedBy(sigs, st, k)
    /\ res = "signed" => sig # None /\ sig.covers = Payload(rs)
    /\ res = "refused" => sig # None /\ ks[sig.key] # None /\ ks[sig.key].until < t

QuietInv ==
    /\ \A r \in Reloaders : clean[r] => Quiet
    /\ \A q \in Queriers : calm[q] => Quiet
    /\ \A r \in Reloaders : pc[r] \in {"idle", "done"} => plan[r] = NoLists

ReloadsFine ==
    \A r \in Reloaders : clean[r] =>
        ReloadFine(pc[r], names[r], plan[r], at[r], records, signatures)

QueriesFine ==
    \A q \in Queriers : calm[q] =>
        QueryFine(result[q], asked[q], seen[q], found[q], records, signatures, keys, now)

RepairInv == QuietInv /\ ReloadsFine /\ QueriesFine

\* A stored signature that covers an RRset is all Covered asks.
LEMMA CoveredIsSigned ==
    ASSUME TypeInv, KeysInv, NEW k \in RRKeys
    PROVE  Covered(k) <=> SignedBy(signatures, records, k)
<1>1. k \in Spellings \X ManagedTypes
  BY Basics
<1>2. signatures[k] # None => signatures[k].key \in KeyIds /\ keys[signatures[k].key] # None
  BY <1>1 DEF TypeInv, TypeOK, Signature, KeysInv
<1> QED BY <1>2 DEF Covered, SignedBy, KeysInv

\* A reload stays fine while the zone is the same and nothing loses its
\* signature.
LEMMA ReloadStaysFine ==
    ASSUME NEW p, NEW ns, NEW lists, NEW i, NEW st, NEW sigs, NEW later,
           ReloadFine(p, ns, lists, i, st, sigs),
           \A k \in RRKeys : SignedBy(sigs, st, k) => SignedBy(later, st, k)
    PROVE  ReloadFine(p, ns, lists, i, st, later)
BY Basics DEF ReloadFine, Present

\* And so does a query, while no key is forgotten and time goes on.
LEMMA QueryStaysFine ==
    ASSUME NEW res, NEW k \in RRKeys, NEW rs, NEW sig \in Signature \cup {None}, NEW st,
           NEW sigs, NEW later, NEW t \in Nat, NEW t2 \in Nat, t <= t2,
           NEW ks \in [KeyIds -> KeyTimes \cup {None}], NEW ks2,
           QueryFine(res, k, rs, sig, st, sigs, ks, t),
           \A o \in RRKeys : SignedBy(sigs, st, o) => SignedBy(later, st, o),
           \A id \in KeyIds : ks[id] # None => ks2[id] = ks[id]
    PROVE  QueryFine(res, k, rs, sig, st, later, ks2, t2)
<1>1. ASSUME res = "refused" PROVE sig # None /\ ks2[sig.key] # None /\ ks2[sig.key].until < t2
  <2>1. sig # None /\ sig \in Signature /\ ks[sig.key] # None /\ ks[sig.key].until < t
    BY <1>1 DEF QueryFine
  <2>2. sig.key \in KeyIds
    BY <2>1 DEF Signature
  <2>3. ks[sig.key] \in KeyTimes
    BY <2>1, <2>2
  <2>4. ks[sig.key].until \in Nat
    BY <2>3 DEF KeyTimes
  <2> QED BY <2>1, <2>2, <2>4
<1> QED BY <1>1 DEF QueryFine

\* Nothing is known of a reload or a query that is not clean or calm.
LEMMA NothingClean ==
    ASSUME \A r \in Reloaders : ~ clean[r], \A q \in Queriers : ~ calm[q],
           \A r \in Reloaders : pc[r] \in {"idle", "done"} => plan[r] = NoLists
    PROVE  RepairInv
BY DEF RepairInv, QuietInv, ReloadsFine, QueriesFine

\* While all is quiet a signature is only stored by a clean reload, and covers
\* the RRset as it is.
LEMMA QuietSigning ==
    ASSUME TypeInv, RepairInv, Quiet, NEW p \in Resigners, StoreSignature(p)
    PROVE  /\ p \in Reloaders /\ clean[p]
           /\ SignedBy(signatures', records, KeyOrder[at[p]])
           /\ \A k \in RRKeys : SignedBy(signatures, records, k) =>
                 SignedBy(signatures', records, k)
<1>1. pc[p] = "signing" /\ held[p] # None /\ at[p] \in Indices
  BY DEF StoreSignature, TypeInv, Placed
<1>2. p \in Reloaders /\ p # Updater /\ clean[p]
  BY <1>1, Basics DEF Quiet, Resigners
<1>3. plan[p][at[p]] = records[KeyOrder[at[p]]]
  BY <1>1, <1>2 DEF RepairInv, ReloadsFine, ReloadFine
<1> DEFINE k0 == KeyOrder[at[p]]
           sig == [key |-> held[p], covers |-> Payload(records[k0])]
<1>4. k0 \in RRKeys /\ FiledAs(p, at[p]) = k0
  <2>1. k0 \in Names \X ManagedTypes
    BY <1>1, Basics DEF RRKeys
  <2>2. FiledAs(p, at[p]) = <<k0[1], k0[2]>>
    BY <1>2 DEF FiledAs
  <2> HIDE DEF k0
  <2> QED BY <2>1, <2>2 DEF RRKeys
<1>5. signatures' = [signatures EXCEPT ![k0] = sig]
  BY <1>3, <1>4 DEF StoreSignature
<1>6. sig \in Signature /\ None \notin Signature
  <2>1. records[k0] \in Seq(Record) /\ held[p] \in KeyIds
    BY <1>1, <1>4 DEF TypeInv, TypeOK, Stores, RRKeys
  <2> QED BY <2>1, PayloadType, SigningAssumption DEF Signature
<1>7. k0 \in Spellings \X ManagedTypes /\ RRKeys \subseteq Spellings \X ManagedTypes
      /\ DOMAIN signatures = Spellings \X ManagedTypes
  BY <1>4, Basics DEF TypeInv, TypeOK
<1>8. sig # None /\ sig.covers = Payload(records[k0])
  BY <1>6
<1>9. \A k \in RRKeys : signatures'[k] = IF k = k0 THEN sig ELSE signatures[k]
  <2> HIDE DEF sig, k0
  <2> QED BY <1>5, <1>7
<1> HIDE DEF sig
<1>10. SignedBy(signatures', records, k0)
  BY <1>4, <1>8, <1>9 DEF SignedBy
<1> QED BY <1>2, <1>8, <1>9, <1>10 DEF SignedBy

\* A step after which no reload is clean and no query calm.
LEMMA CleanNoMore ==
    ASSUME TypeInv, RepairInv,
           \A r \in Reloaders : ~ clean'[r], \A q \in Queriers : ~ calm'[q],
           \A r \in Reloaders : pc'[r] \in {"idle", "done"} =>
              plan'[r] = NoLists
    PROVE  RepairInv'
BY DEF RepairInv, QuietInv, ReloadsFine, QueriesFine

\* The queries stay fine in a step that leaves them and the zone alone and in
\* which no RRset loses its signature.
LEMMA QueriesStayFine ==
    ASSUME TypeInv, QueriesFine, UNCHANGED <<records, queryVars, calm>>,
           now' \in Nat, now <= now',
           \A id \in KeyIds : keys[id] # None => keys'[id] = keys[id],
           (\E q \in Queriers : calm[q]) =>
              \A k \in RRKeys : SignedBy(signatures, records, k) =>
                 SignedBy(signatures', records, k)
    PROVE  QueriesFine'
<1> SUFFICES ASSUME NEW q \in Queriers, calm[q]
             PROVE  QueryFine(result[q], asked[q], seen[q], found[q],
                              records, signatures', keys', now')
  BY DEF QueriesFine, queryVars
<1>1. QueryFine(result[q], asked[q], seen[q], found[q], records, signatures, keys, now)
  BY DEF QueriesFine
<1>2. CASE result[q] = "none"
  BY <1>2 DEF QueryFine
<1>3. CASE result[q] # "none"
  <2>1. /\ asked[q] \in RRKeys /\ found[q] \in Signature \cup {None}
        /\ now \in Nat /\ keys \in [KeyIds -> KeyTimes \cup {None}]
    BY <1>3 DEF TypeInv, TypeOK, Placed
  <2> QED BY <1>1, <2>1, QueryStaysFine
<1> QED BY <1>2, <1>3

\* So do the reloads other than the one that moves.
LEMMA ReloadsStayFine ==
    ASSUME TypeInv, ReloadsFine, NEW R \in SUBSET Reloaders, UNCHANGED records,
           \A r \in R : /\ clean'[r] = clean[r] /\ pc'[r] = pc[r] /\ names'[r] = names[r]
                        /\ plan'[r] = plan[r] /\ at'[r] = at[r],
           (\E r \in R : clean[r]) =>
              \A k \in RRKeys : SignedBy(signatures, records, k) =>
                 SignedBy(signatures', records, k)
    PROVE  \A r \in R : clean'[r] =>
              ReloadFine(pc'[r], names'[r], plan'[r], at'[r], records', signatures')
<1> SUFFICES ASSUME NEW r \in R, clean[r]
             PROVE  ReloadFine(pc[r], names[r], plan[r], at[r], records, signatures')
  OBVIOUS
<1>1. ReloadFine(pc[r], names[r], plan[r], at[r], records, signatures)
  BY DEF ReloadsFine
<1> QED BY <1>1, ReloadStaysFine

\* A step of the clock, the keyring or a signer that stores nothing.
LEMMA RepairElsewhere ==
    ASSUME TypeInv, RepairInv,
           UNCHANGED <<records, signatures, pc, names, plan, at, clean, queryVars, calm>>,
           now' \in Nat, now <= now',
           \A id \in KeyIds : keys[id] # None => keys'[id] = keys[id]
    PROVE  RepairInv'
<1>1. QuietInv'
  BY DEF RepairInv, QuietInv, Quiet
<1>2. ReloadsFine'
  BY DEF RepairInv, ReloadsFine
<1>3. QueriesFine'
  BY QueriesStayFine DEF RepairInv
<1> QED BY <1>1, <1>2, <1>3 DEF RepairInv

\* An update that begins leaves no reload clean and no query calm; one that is
\* under way found them so.
LEMMA RepairUpdate == ASSUME TypeInv, RepairInv, Update PROVE RepairInv'
<1> USE DEF TypeInv, TypeOK, zoneVars, keyVars, signVars, queryVars
<1>0. Updater \in Resigners /\ \A r \in Reloaders : r \in Resigners /\ r # Updater
  BY Basics
<1>1. \A r \in Reloaders : pc'[r] = pc[r] /\ plan'[r] = plan[r]
  BY <1>0 DEF Update, Stage, AppendRefused, AppendAndCollect, HookFails, UpdateDone, Finish
<1>2. \A r \in Reloaders : pc'[r] \in {"idle", "done"} => plan'[r] = NoLists
  BY <1>1 DEF RepairInv, QuietInv
<1>3. (\A r \in Reloaders : ~ clean'[r]) /\ (\A q \in Queriers : ~ calm'[q])
  <2>1. CASE pc[Updater] = "idle"
    BY <1>0, <2>1 DEF Update, Stage, AppendRefused, AppendAndCollect, HookFails, UpdateDone
  <2>2. CASE pc[Updater] # "idle"
    <3>1. (\A r \in Reloaders : ~ clean[r]) /\ (\A q \in Queriers : ~ calm[q])
      BY <2>2 DEF RepairInv, QuietInv, Quiet
    <3>2. UNCHANGED <<clean, calm>>
      BY <2>2 DEF Update, Stage, AppendRefused, AppendAndCollect, HookFails, UpdateDone
    <3> QED BY <3>1, <3>2
  <2> QED BY <2>1, <2>2
<1> QED BY <1>2, <1>3, CleanNoMore

LEMMA RepairStore ==
    ASSUME TypeInv, RepairInv, NEW p \in Resigners, StoreSignature(p)
    PROVE  RepairInv'
<1>0. /\ pc[p] = "signing" /\ at[p] \in Indices
      /\ at' = [at EXCEPT ![p] = NextIndex(ToSign(plan[p]), at[p] + 1)]
      /\ UNCHANGED <<zoneVars, keyVars, now, pc, names, plan, clean, queryVars, calm>>
      /\ now \in Nat
  BY DEF StoreSignature, TypeInv, TypeOK, Placed
<1>1. QuietInv'
  BY <1>0 DEF RepairInv, QuietInv, Quiet
<1>2. CASE ~ Quiet
  <2>1. (\A r \in Reloaders : ~ clean[r]) /\ (\A q \in Queriers : ~ calm[q])
    BY <1>2 DEF RepairInv, QuietInv
  <2> QED BY <1>0, <1>1, <2>1 DEF RepairInv, ReloadsFine, QueriesFine
<1>3. CASE Quiet
  <2>1. /\ p \in Reloaders /\ clean[p]
        /\ SignedBy(signatures', records, KeyOrder[at[p]])
        /\ \A k \in RRKeys : SignedBy(signatures, records, k) =>
              SignedBy(signatures', records, k)
    BY <1>3, QuietSigning
  <2>2. QueriesFine'
    BY <1>0, <2>1, QueriesStayFine DEF RepairInv, zoneVars, keyVars
  <2> DEFINE R == Reloaders \ {p}
             next == NextIndex(ToSign(plan[p]), at[p] + 1)
  <2>3. \A r \in R : clean'[r] =>
           ReloadFine(pc'[r], names'[r], plan'[r], at'[r], records', signatures')
    <3>1. /\ R \in SUBSET Reloaders /\ UNCHANGED records /\ ReloadsFine
          /\ \A r \in R : /\ clean'[r] = clean[r] /\ pc'[r] = pc[r] /\ names'[r] = names[r]
                          /\ plan'[r] = plan[r] /\ at'[r] = at[r]
      BY <1>0 DEF RepairInv, zoneVars
    <3> HIDE DEF R
    <3> QED BY <2>1, <3>1, ReloadsStayFine
  <2>4. ReloadFine("signing", names[p], plan[p], next, records, signatures')
    <3>1. ReloadFine("signing", names[p], plan[p], at[p], records, signatures)
      BY <1>0, <2>1 DEF RepairInv, ReloadsFine
    <3>2. \A j \in Indices : j < next /\ ~ (j < at[p]) /\ j # at[p] => plan[p][j] = << >>
      <4>1. at[p] \in 1..Past /\ at[p] + 1 \in 1..Past /\ Indices \subseteq Nat
        BY <1>0, Basics DEF Indices, Past
      <4>2. \A j \in Indices : at[p] + 1 <= j /\ j < next => j \notin ToSign(plan[p])
        BY <4>1, SkippedOver
      <4> HIDE DEF next
      <4>3. ASSUME NEW j \in Indices, ~ (j < at[p]), j # at[p] PROVE at[p] + 1 <= j
        <5>1. j \in Nat /\ at[p] \in Nat
          BY <1>0, <4>1
        <5> QED BY <4>3, <5>1
      <4> QED BY <4>2, <4>3 DEF ToSign
    <3> HIDE DEF next
    <3>3. \A j \in Indices : KeyOrder[j] \in RRKeys
      BY Basics
    <3>4. \A j \in Indices : plan[p][j] = records[KeyOrder[j]]
      BY <3>1 DEF ReloadFine
    <3>5. ASSUME NEW j \in Indices, j < next, plan[p][j] # << >>
          PROVE  SignedBy(signatures', records, KeyOrder[j])
      <4>1. j < at[p] \/ j = at[p]
        BY <3>2, <3>5
      <4>2. j < at[p] => SignedBy(signatures, records, KeyOrder[j])
        BY <3>1, <3>5 DEF ReloadFine
      <4> QED BY <2>1, <3>3, <4>1, <4>2
    <3> QED BY <3>4, <3>5 DEF ReloadFine
  <2>5. at'[p] = next /\ pc'[p] = "signing" /\ names'[p] = names[p] /\ plan'[p] = plan[p]
        /\ records' = records
    BY <1>0 DEF zoneVars, TypeInv, TypeOK
  <2>6. ReloadsFine'
    <3> HIDE DEF next
    <3> QED BY <2>3, <2>4, <2>5 DEF ReloadsFine
  <2> QED BY <1>1, <2>2, <2>6 DEF RepairInv
<1> QED BY <1>2, <1>3

\* A step of one reload, when what it knows after the step is right.
LEMMA RepairOneReload ==
    ASSUME TypeInv, RepairInv, NEW r \in Reloaders, QuietInv',
           UNCHANGED <<zoneVars, signatures, keyVars, now, queryVars, calm>>,
           \A s \in Reloaders \ {r} :
              /\ clean'[s] = clean[s] /\ pc'[s] = pc[s] /\ names'[s] = names[s]
              /\ plan'[s] = plan[s] /\ at'[s] = at[s],
           clean'[r] =>
              ReloadFine(pc'[r], names'[r], plan'[r], at'[r], records, signatures)
    PROVE  RepairInv'
<1>1. QueriesFine'
  <2>1. now \in Nat /\ UNCHANGED <<records, signatures, keys, now>>
    BY DEF TypeInv, TypeOK, zoneVars, keyVars
  <2> QED BY <2>1, QueriesStayFine DEF RepairInv
<1> DEFINE R == Reloaders \ {r}
<1>2. \A s \in R : clean'[s] =>
         ReloadFine(pc'[s], names'[s], plan'[s], at'[s], records', signatures')
  <2>1. R \in SUBSET Reloaders /\ ReloadsFine /\ UNCHANGED <<records, signatures>>
    BY DEF RepairInv, zoneVars
  <2> HIDE DEF R
  <2> QED BY <2>1, ReloadsStayFine DEF R
<1>3. ReloadsFine'
  BY <1>2 DEF ReloadsFine, zoneVars
<1> QED BY <1>1, <1>3 DEF RepairInv

LEMMA RepairStart ==
    ASSUME TypeInv, RepairInv, NEW r \in Reloaders, StartReload(r)
    PROVE  RepairInv'
<1> DEFINE there == {k[1] : k \in Present(records)}
           first == NextIndex(Listed(there), 1)
<1>0. /\ r \in Resigners /\ r # Updater /\ \A s \in Reloaders : s \in Resigners
      /\ pc \in [Resigners -> {"idle", "staged", "reading", "signing", "done"}]
      /\ names \in [Reloaders -> SUBSET Names]
      /\ at \in [Resigners -> 1..Past]
      /\ clean \in [Reloaders -> BOOLEAN]
  BY Basics DEF TypeInv, TypeOK, Past
<1>1. /\ pc[r] \in {"idle", "done"}
      /\ pc' = [pc EXCEPT ![r] = "reading"]
      /\ names' = [names EXCEPT ![r] = there]
      /\ at' = [at EXCEPT ![r] = first]
      /\ clean' = [clean EXCEPT ![r] =
            /\ pc[Updater] = "idle"
            /\ \A s \in Reloaders \ {r} : pc[s] \in {"reading", "signing"} => clean[s]]
      /\ UNCHANGED <<zoneVars, signatures, keyVars, now, plan, held, queryVars, calm>>
  BY DEF StartReload
<1>2. QuietInv'
  <2>1. Quiet => clean'[r]
    BY <1>0, <1>1 DEF Quiet
  <2>2. clean'[r] => Quiet'
    BY <1>0, <1>1 DEF Quiet
  <2>3. \A s \in Reloaders : s # r => clean'[s] = clean[s]
    BY <1>0, <1>1
  <2>4. \A s \in Reloaders : pc'[s] \in {"idle", "done"} => plan'[s] = NoLists
    BY <1>0, <1>1 DEF RepairInv, QuietInv
  <2> QED BY <1>1, <2>1, <2>2, <2>3, <2>4 DEF RepairInv, QuietInv
<1>3. ReloadFine("reading", there, NoLists, first, records, signatures)
  <2>1. \A j \in Indices : NoLists[j] = << >>
    BY DEF NoLists
  <2>2. ASSUME NEW j \in Indices, j < first PROVE records[KeyOrder[j]] = << >>
    <3>1. 1 \in 1..Past /\ 1 <= j
      BY Basics DEF Past, Indices
    <3>2. j \notin Listed(there)
      <4> HIDE DEF there
      <4> QED BY <2>2, <3>1, SkippedOver
    <3> QED BY <3>2, Basics DEF Listed, Present
  <2> HIDE DEF first
  <2> QED BY <2>1, <2>2 DEF ReloadFine
<1>4. plan[r] = NoLists
  BY <1>1 DEF RepairInv, QuietInv
<1>5. /\ pc'[r] = "reading" /\ names'[r] = there /\ plan'[r] = NoLists /\ at'[r] = first
      /\ \A s \in Reloaders \ {r} :
            /\ clean'[s] = clean[s] /\ pc'[s] = pc[s] /\ names'[s] = names[s]
            /\ plan'[s] = plan[s] /\ at'[s] = at[s]
  <2> HIDE DEF first, there
  <2> QED BY <1>0, <1>1, <1>4
<1> HIDE DEF first, there
<1> QED BY <1>1, <1>2, <1>3, <1>5, RepairOneReload

LEMMA RepairRead ==
    ASSUME TypeInv, RepairInv, NEW r \in Reloaders, ReadRRSet(r)
    PROVE  RepairInv'
<1> DEFINE i == at[r]
           next == NextIndex(Listed(names[r]), i + 1)
           lists == [plan[r] EXCEPT ![i] = records[KeyOrder[i]]]
<1>0. /\ r \in Resigners /\ \A s \in Reloaders : s \in Resigners
      /\ plan \in [Resigners -> [Indices -> Seq(Record)]]
      /\ at \in [Resigners -> 1..Past]
      /\ i \in Indices
  BY Basics DEF TypeInv, TypeOK, Past, ReadRRSet, Finished, Indices
<1>1. /\ pc[r] = "reading"
      /\ plan' = [plan EXCEPT ![r] = lists]
      /\ at' = [at EXCEPT ![r] = next]
      /\ UNCHANGED <<zoneVars, signatures, keyVars, now, pc, names, clean, queryVars, calm>>
  BY DEF ReadRRSet
<1>2. QuietInv'
  <2>1. \A s \in Reloaders : s # r => plan'[s] = plan[s]
    BY <1>0, <1>1
  <2> QED BY <1>1, <2>1 DEF RepairInv, QuietInv, Quiet
<1>3. ASSUME clean[r] PROVE ReloadFine("reading", names[r], lists, next, records, signatures)
  <2>1. /\ names[r] = {k[1] : k \in Present(records)}
        /\ \A j \in Indices : plan[r][j] \in {<< >>, records[KeyOrder[j]]}
        /\ \A j \in Indices : j < i => plan[r][j] = records[KeyOrder[j]]
    BY <1>1, <1>3 DEF RepairInv, ReloadsFine, ReloadFine
  <2>2. \A j \in Indices : lists[j] = IF j = i THEN records[KeyOrder[j]] ELSE plan[r][j]
    BY <1>0
  <2>3. \A j \in Indices : KeyOrder[j] \in RRKeys /\ j \in Nat
    BY Basics DEF Indices
  <2> HIDE DEF lists
  <2>4. ASSUME NEW j \in Indices, j < next PROVE lists[j] = records[KeyOrder[j]]
    <3>1. CASE j < i \/ j = i
      BY <2>1, <2>2, <3>1
    <3>2. CASE ~ (j < i \/ j = i)
      <4>1. i + 1 \in 1..Past /\ i + 1 <= j
        BY <1>0, <2>3, <3>2, Basics DEF Indices, Past
      <4>2. j \notin Listed(names[r])
        <5> HIDE DEF i
        <5> QED BY <2>4, <4>1, SkippedOver
      <4>3. records[KeyOrder[j]] = << >>
        BY <2>1, <2>3, <4>2 DEF Listed, Present
      <4> QED BY <2>1, <2>2, <3>2, <4>3
    <3> QED BY <3>1, <3>2
  <2>5. \A j \in Indices : lists[j] \in {<< >>, records[KeyOrder[j]]}
    BY <2>1, <2>2
  <2> HIDE DEF next
  <2> QED BY <2>1, <2>4, <2>5 DEF ReloadFine
<1>4. /\ pc'[r] = "reading" /\ names'[r] = names[r] /\ plan'[r] = lists /\ at'[r] = next
      /\ clean'[r] = clean[r]
      /\ \A s \in Reloaders \ {r} :
            /\ clean'[s] = clean[s] /\ pc'[s] = pc[s] /\ names'[s] = names[s]
            /\ plan'[s] = plan[s] /\ at'[s] = at[s]
  <2> HIDE DEF next, lists
  <2> QED BY <1>0, <1>1
<1> HIDE DEF next, lists
<1> QED BY <1>1, <1>2, <1>3, <1>4, RepairOneReload

LEMMA RepairEndReading ==
    ASSUME TypeInv, RepairInv, NEW r \in Reloaders, EndReading(r)
    PROVE  RepairInv'
<1> DEFINE first == NextIndex(ToSign(plan[r]), 1)
<1>0. /\ r \in Resigners /\ r # Updater /\ \A s \in Reloaders : s \in Resigners
      /\ pc \in [Resigners -> {"idle", "staged", "reading", "signing", "done"}]
      /\ at \in [Resigners -> 1..Past]
  BY Basics DEF TypeInv, TypeOK, Past
<1>1. /\ pc[r] = "reading" /\ at[r] = Past
      /\ pc' = [pc EXCEPT ![r] = "signing"]
      /\ at' = [at EXCEPT ![r] = first]
      /\ UNCHANGED <<zoneVars, signatures, keyVars, now, names, plan, clean, queryVars, calm>>
  BY DEF EndReading, Finished, Past
<1>2. QuietInv'
  BY <1>0, <1>1 DEF RepairInv, QuietInv, Quiet
<1>3. ASSUME clean[r] PROVE ReloadFine("signing", names[r], plan[r], first, records, signatures)
  <2>1. \A j \in Indices : j < Past
    BY Basics DEF Indices, Past
  <2>2. \A j \in Indices : plan[r][j] = records[KeyOrder[j]]
    BY <1>1, <1>3, <2>1 DEF RepairInv, ReloadsFine, ReloadFine
  <2>3. ASSUME NEW j \in Indices, j < first PROVE plan[r][j] = << >>
    <3>1. 1 \in 1..Past /\ 1 <= j
      BY Basics DEF Past, Indices
    <3>2. j \notin ToSign(plan[r])
      BY <2>3, <3>1, SkippedOver
    <3> QED BY <3>2 DEF ToSign
  <2> HIDE DEF first
  <2> QED BY <2>2, <2>3 DEF ReloadFine
<1>4. /\ pc'[r] = "signing" /\ names'[r] = names[r] /\ plan'[r] = plan[r] /\ at'[r] = first
      /\ clean'[r] = clean[r]
      /\ \A s \in Reloaders \ {r} :
            /\ clean'[s] = clean[s] /\ pc'[s] = pc[s] /\ names'[s] = names[s]
            /\ plan'[s] = plan[s] /\ at'[s] = at[s]
  <2> HIDE DEF first
  <2> QED BY <1>0, <1>1
<1> HIDE DEF first
<1> QED BY <1>1, <1>2, <1>3, <1>4, RepairOneReload

\* A reload that ends with everything signed, or gives up.
LEMMA RepairLeave ==
    ASSUME TypeInv, RepairInv, NEW r \in Reloaders, NEW to \in {"idle", "done"},
           LeaveReload(r, to),
           UNCHANGED <<zoneVars, signatures, keyVars, now, clean, queryVars, calm>>,
           to = "done" => pc[r] = "signing" /\ Finished(r)
    PROVE  RepairInv'
<1>0. /\ r \in Resigners /\ r # Updater /\ \A s \in Reloaders : s \in Resigners
      /\ pc \in [Resigners -> {"idle", "staged", "reading", "signing", "done"}]
      /\ names \in [Reloaders -> SUBSET Names]
      /\ plan \in [Resigners -> [Indices -> Seq(Record)]]
      /\ at \in [Resigners -> 1..Past]
  BY Basics DEF TypeInv, TypeOK, Past
<1>1. /\ pc'[r] = to /\ plan'[r] = NoLists
      /\ pc'[Updater] = pc[Updater]
      /\ \A s \in Reloaders \ {r} :
            /\ clean'[s] = clean[s] /\ pc'[s] = pc[s] /\ names'[s] = names[s]
            /\ plan'[s] = plan[s] /\ at'[s] = at[s]
  BY <1>0 DEF LeaveReload
<1>2. QuietInv'
  BY <1>0, <1>1 DEF RepairInv, QuietInv, Quiet
<1>3. ASSUME clean[r], to = "done", NEW k \in Present(records)
      PROVE  SignedBy(signatures, records, k)
  <2>1. PICK j \in Indices : KeyOrder[j] = k
    BY Basics DEF Present
  <2>2. pc[r] = "signing" /\ j < at[r]
    BY <1>3, Basics DEF Finished, Indices, Past
  <2>3. ReloadFine("signing", names[r], plan[r], at[r], records, signatures)
    BY <1>3, <2>2 DEF RepairInv, ReloadsFine
  <2> QED BY <1>3, <2>1, <2>2, <2>3 DEF ReloadFine, Present
<1>4. clean'[r] => ReloadFine(to, names'[r], plan'[r], at'[r], records, signatures)
  BY <1>3 DEF ReloadFine
<1> QED BY <1>1, <1>2, <1>4, RepairOneReload

LEMMA RepairReload ==
    ASSUME TypeInv, RepairInv, NEW r \in Reloaders, Reload(r)
    PROVE  RepairInv'
BY RepairStart, RepairRead, RepairEndReading, RepairLeave
   DEF Reload, ReloadFails, ReloadDone

LEMMA RepairQuery ==
    ASSUME TypeInv, KeysInv, RepairInv, NEW q \in Queriers, Query(q)
    PROVE  RepairInv'
<1> USE DEF queryVars
<1>0. UNCHANGED <<zoneVars, signatures, keyVars, now, signVars, clean>>
  BY DEF Query, LookUp, ReadSignature, Answer
<1>1. /\ records' = records /\ signatures' = signatures /\ keys' = keys /\ now' = now
      /\ pc' = pc /\ names' = names /\ plan' = plan /\ at' = at /\ clean' = clean
  BY <1>0 DEF zoneVars, keyVars, signVars
<1>2. ReloadsFine'
  BY <1>1 DEF RepairInv, ReloadsFine
<1>3. /\ asked \in [Queriers -> RRKeys \cup {None}]
      /\ seen \in [Queriers -> Seq(Record)]
      /\ found \in [Queriers -> Signature \cup {None}]
      /\ result \in [Queriers -> Ended \cup {"looked", "signed"}]
      /\ calm \in [Queriers -> BOOLEAN]
  BY DEF TypeInv, TypeOK
<1>4. \A o \in Queriers \ {q} :
         /\ calm'[o] = calm[o] /\ result'[o] = result[o] /\ asked'[o] = asked[o]
         /\ seen'[o] = seen[o] /\ found'[o] = found[o]
  BY <1>3 DEF Query, LookUp, ReadSignature, Answer
<1>5. calm'[q] =>
         /\ Quiet
         /\ QueryFine(result'[q], asked'[q], seen'[q], found'[q], records, signatures, keys, now)
  <2>1. ASSUME NEW k \in RRKeys, LookUp(q, k), calm'[q]
        PROVE  /\ Quiet
               /\ QueryFine(result'[q], asked'[q], seen'[q], found'[q],
                            records, signatures, keys, now)
    <3>1. /\ result'[q] \in {"nxdomain", "looked"} /\ asked'[q] = k /\ seen'[q] = records[k]
          /\ Covered(k) /\ Quiet
      BY <1>3, <2>1 DEF LookUp, Quiet
    <3>2. SignedBy(signatures, records, k)
      BY <3>1, CoveredIsSigned
    <3> QED BY <3>1, <3>2 DEF QueryFine
  <2>2. CASE ReadSignature(q) /\ calm'[q]
    <3>1. /\ result[q] = "looked" /\ calm[q]
          /\ found'[q] = signatures[asked[q]] /\ seen'[q] = seen[q]
          /\ result'[q] = IF signatures[asked[q]] = None THEN "refused" ELSE "signed"
      BY <1>3, <2>2 DEF ReadSignature
    <3>2. Quiet /\ seen[q] = records[asked[q]] /\ SignedBy(signatures, records, asked[q])
      BY <3>1 DEF RepairInv, QuietInv, QueriesFine, QueryFine
    <3> QED BY <3>1, <3>2 DEF QueryFine, SignedBy
  <2>3. CASE Answer(q) /\ calm'[q]
    <3>1. /\ result[q] = "signed" /\ calm[q]
          /\ found'[q] = found[q] /\ seen'[q] = seen[q]
          /\ result'[q] = IF Verifies(seen[q], found[q]) THEN "answered" ELSE "refused"
      BY <1>3, <2>3 DEF Answer
    <3>2. Quiet /\ found[q] # None /\ found[q].covers = Payload(seen[q])
      BY <3>1 DEF RepairInv, QuietInv, QueriesFine, QueryFine
    <3>3. found[q].key \in KeyIds /\ keys[found[q].key] # None
      BY <1>3, <3>2 DEF KeysInv, Signature
    <3>4. ~ Verifies(seen[q], found[q]) => keys[found[q].key].until < now
      BY <3>2, <3>3 DEF Verifies, KeysInv, Aged
    <3> QED BY <3>1, <3>2, <3>3, <3>4 DEF QueryFine
  <2> QED BY <2>1, <2>2, <2>3 DEF Query
<1>6. QueriesFine'
  <2>1. ASSUME NEW o \in Queriers, calm'[o]
        PROVE  QueryFine(result'[o], asked'[o], seen'[o], found'[o],
                         records', signatures', keys', now')
    BY <1>1, <1>4, <1>5, <2>1 DEF RepairInv, QueriesFine
  <2> QED BY <2>1 DEF QueriesFine
<1>7. QuietInv'
  <2>1. \A o \in Queriers : calm'[o] => Quiet
    BY <1>4, <1>5 DEF RepairInv, QuietInv
  <2> QED BY <1>1, <2>1 DEF RepairInv, QuietInv, Quiet
<1> QED BY <1>2, <1>6, <1>7 DEF RepairInv

LEMMA RepairRestart == ASSUME TypeInv, RepairInv, Restart PROVE RepairInv'
<1>1. /\ \A r \in Reloaders : ~ clean'[r] /\ plan'[r] = NoLists
      /\ \A q \in Queriers : ~ calm'[q]
  BY Basics DEF Restart
<1> QED BY <1>1, CleanNoMore

\* A rollover or a tick of the clock forgets no key.
LEMMA KeysStay ==
    ASSUME TypeInv, Tick \/ \E id \in KeyIds : Rollover(id)
    PROVE  /\ now' \in Nat /\ now <= now'
           /\ \A id \in KeyIds : keys[id] # None => keys'[id] = keys[id]
           /\ UNCHANGED <<records, signatures, pc, names, plan, at, clean, queryVars, calm>>
BY DEF Tick, Rollover, TypeInv, TypeOK, zoneVars, keyVars, signVars, queryVars

LEMMA StepRepair == TypeInv /\ KeysInv /\ RepairInv /\ [Next]_vars => RepairInv'
<1> SUFFICES ASSUME TypeInv, KeysInv, RepairInv, [Next]_vars PROVE RepairInv'
  OBVIOUS
<1> USE DEF vars, zoneVars, keyVars, signVars
<1>0. now \in Nat
  BY DEF TypeInv, TypeOK
<1>1. CASE UNCHANGED vars
  BY <1>0, <1>1, RepairElsewhere
<1>2. ASSUME NEW p \in Resigners, FetchKey(p) PROVE RepairInv'
  BY <1>0, <1>2, RepairElsewhere DEF FetchKey
<1>3. CASE Tick \/ \E id \in KeyIds : Rollover(id)
  BY <1>3, KeysStay, RepairElsewhere
<1>4. CASE Next
  BY <1>2, <1>3, <1>4, RepairUpdate, RepairStore, RepairReload, RepairQuery, RepairRestart
     DEF Next, Resign
<1> QED BY <1>1, <1>4

LEMMA InitRepair == Init => KeysInv /\ RepairInv
<1> SUFFICES ASSUME Init PROVE KeysInv /\ RepairInv
  OBVIOUS
<1>1. KeysInv
  <2>1. FreshKeys
    BY DEF Init, Fresh, FreshKeys
  <2> QED BY <2>1, FreshKeysInv
<1>2. RepairInv
  <2>1. /\ \A r \in Reloaders : ~ clean[r] /\ plan[r] = NoLists
        /\ \A q \in Queriers : ~ calm[q]
    BY Basics DEF Init
  <2> QED BY <2>1, NothingClean
<1> QED BY <1>1, <1>2

\* When no rollover asks for a key to be active later, a query that met no
\* update is only refused because its key is too old, whatever reloads,
\* rollovers and queries run beside it, with any number of keys.
THEOREM RefusalsExplained == OnTime => (Spec => []RefusalExplained)
<1> SUFFICES ASSUME OnTime PROVE Spec => []RefusalExplained
  OBVIOUS
<1>1. RepairInv => RefusalExplained
  BY DEF RepairInv, QueriesFine, QueryFine, RefusalExplained, Aged
<1>2. TypeInv /\ KeysInv /\ RepairInv /\ [Next]_vars => TypeInv' /\ KeysInv' /\ RepairInv'
  BY StepType, StepKeys, StepRepair
<1>3. Init => TypeInv /\ KeysInv /\ RepairInv
  BY InitType, InitRepair
<1> QED BY <1>1, <1>2, <1>3, PTL DEF Spec

\* And a reload that no update overlapped leaves every RRset of the zone with a
\* signature that verifies, whatever was signed before it began.
THEOREM ReloadsRepair == OnTime => (Spec => []ReloadRepairs)
<1> SUFFICES ASSUME OnTime PROVE Spec => []ReloadRepairs
  OBVIOUS
<1>1. TypeInv /\ KeysInv /\ RepairInv => ReloadRepairs
  <2> SUFFICES ASSUME TypeInv, KeysInv, RepairInv, NEW r \in Reloaders, pc[r] = "done",
                      clean[r], NEW k \in Present(records)
               PROVE  Covered(k)
    BY DEF ReloadRepairs
  <2>1. k \in RRKeys
    BY DEF Present
  <2>2. ReloadFine("done", names[r], plan[r], at[r], records, signatures)
    BY DEF RepairInv, ReloadsFine
  <2> QED BY <2>1, <2>2, CoveredIsSigned DEF ReloadFine
<1>2. TypeInv /\ KeysInv /\ RepairInv /\ [Next]_vars => TypeInv' /\ KeysInv' /\ RepairInv'
  BY StepType, StepKeys, StepRepair
<1>3. Init => TypeInv /\ KeysInv /\ RepairInv
  BY InitType, InitRepair
<1> QED BY <1>1, <1>2, <1>3, PTL DEF Spec

-----------------------------------------------------------------------------
(***************************************************************************)
(* Updates without reloads, when signing does not fail: what is signed is  *)
(* what the journal makes of the zone.                                     *)
(***************************************************************************)

Alone == Reloaders = {} /\ "sign" \notin Faults

\* What is signed is the payload of an RRset at some point of a log.
Durably(covers, k, log) ==
    \E n \in 0..Len(log) : covers = Payload(ReplayUpTo(log)[n][k])

Standing(log) == ReplayUpTo(log)[Len(log)]

\* Everything the updater is about to sign is in the zone, under the name of
\* the change.
PlanSound ==
    pc[Updater] = "signing" =>
        /\ \A i \in Indices : plan[Updater][i] # << >> =>
              /\ plan[Updater][i] = records[KeyOrder[i]]
              /\ KeyOrder[i][1] = Canon[AppliedName(change)]
        /\ at[Updater] \in Indices => plan[Updater][at[Updater]] # << >>

ZoneSound ==
    /\ pc[Updater] \in {"idle", "signing"} => records = Standing(journal)
    /\ pc[Updater] = "staged" =>
          before = Standing(journal) /\ records = ApplyChange(before, change)

SignaturesSound ==
    \A k \in RRKeys : signatures[k] # None => Durably(signatures[k].covers, k, journal)

AnswersSound ==
    \A q \in Queriers :
        /\ found[q] # None => Durably(found[q].covers, asked[q], journal)
        /\ result[q] = "answered" => found[q] # None /\ found[q].covers = Payload(seen[q])

HistoryInv == PlanSound /\ ZoneSound /\ SignaturesSound /\ AnswersSound

\* One more line leaves the stores before it, and applies its change to them.
LEMMA ReplayGrows ==
    ASSUME NEW log \in Seq(Changes), NEW ch \in Changes
    PROVE  /\ \A n \in 0..Len(log) : ReplayUpTo(Append(log, ch))[n] = ReplayUpTo(log)[n]
           /\ Standing(Append(log, ch)) = ApplyChange(Standing(log), ch)
<1> DEFINE longer == Append(log, ch)
           N == Len(log)
           S == {n \in 0..N : ReplayUpTo(longer)[n] = ReplayUpTo(log)[n]}
<1>1. /\ longer \in Seq(Changes) /\ N \in Nat /\ Len(longer) = N + 1 /\ longer[N + 1] = ch
      /\ \A n \in 1..N : longer[n] = log[n]
  OBVIOUS
<1> HIDE DEF longer
<1>2. /\ \A n \in 0..N : ReplayUpTo(log)[n] = ReplayStep(log, ReplayUpTo(log), n)
      /\ \A n \in 0..(N + 1) : ReplayUpTo(longer)[n] = ReplayStep(longer, ReplayUpTo(longer), n)
  BY <1>1, ReplaySolves
<1>3. 0 \in S
  BY <1>1, <1>2 DEF ReplayStep
<1>4. ASSUME NEW n \in 1..N, n - 1 \in S PROVE n \in S
  <2>1. n \in 0..N /\ n \in 0..(N + 1) /\ n # 0 /\ longer[n] = log[n]
    BY <1>1
  <2>2. ReplayUpTo(longer)[n - 1] = ReplayUpTo(log)[n - 1]
    BY <1>4
  <2> QED BY <1>2, <2>1, <2>2 DEF ReplayStep
<1>5. \A n \in 0..N : n \in S
  <2> HIDE DEF S, N
  <2> QED BY <1>1, <1>3, <1>4, IntervalInduction
<1>6. ReplayUpTo(longer)[N + 1] = ApplyChange(ReplayUpTo(longer)[N], ch)
  <2>1. N + 1 \in 0..(N + 1) /\ N + 1 # 0 /\ (N + 1) - 1 = N
    BY <1>1
  <2> QED BY <1>1, <1>2, <2>1 DEF ReplayStep
<1>7. N \in 0..N
  BY <1>1
<1>8. Standing(longer) = ApplyChange(Standing(log), ch)
  BY <1>1, <1>5, <1>6, <1>7 DEF Standing
<1> QED BY <1>5, <1>8 DEF longer

\* What was durable stays durable.
LEMMA DurablyGrows ==
    ASSUME NEW log \in Seq(Changes), NEW ch \in Changes, NEW covers, NEW k,
           Durably(covers, k, log)
    PROVE  Durably(covers, k, Append(log, ch))
<1>1. PICK n \in 0..Len(log) : covers = Payload(ReplayUpTo(log)[n][k])
  BY DEF Durably
<1>2. Len(Append(log, ch)) = Len(log) + 1 /\ Len(log) \in Nat
  OBVIOUS
<1>3. n \in 0..Len(Append(log, ch))
  BY <1>1, <1>2
<1> QED BY <1>1, <1>3, ReplayGrows DEF Durably

\* The zone as it stands is at a point of the log, and so are the seeds.
LEMMA DurablyNow ==
    ASSUME NEW log \in Seq(Changes), NEW k
    PROVE  /\ Durably(Payload(Standing(log)[k]), k, log)
           /\ Durably(Payload(Seed[k]), k, log)
<1>1. 0 \in 0..Len(log) /\ Len(log) \in 0..Len(log)
  OBVIOUS
<1>2. ReplayUpTo(log)[0] = Seed
  BY <1>1, ReplaySolves DEF ReplayStep
<1> QED BY <1>1, <1>2 DEF Durably, Standing

\* The names a zone is kept under are their own canonical form.
LEMMA NamesCanonical == \A n \in Names : Canon[n] = n
BY CanonAssumption DEF Names

\* A signature the updater stores is of an RRset as it stands.
LEMMA HistoryStore ==
    ASSUME Alone, TypeInv, HistoryInv, StoreSignature(Updater)
    PROVE  HistoryInv'
<1> DEFINE i == at[Updater]
           sig == [key |-> held[Updater], covers |-> Payload(plan[Updater][i])]
           next == NextIndex(ToSign(plan[Updater]), i + 1)
<1>0. /\ pc[Updater] = "signing" /\ i \in Indices /\ Updater \in Resigners
      /\ at \in [Resigners -> 1..Past]
      /\ signatures \in [Spellings \X ManagedTypes -> Signature \cup {None}]
      /\ journal \in Seq(Changes)
  BY Basics DEF StoreSignature, TypeInv, TypeOK, Placed, Past
<1>1. /\ signatures' = [signatures EXCEPT ![FiledAs(Updater, i)] = sig]
      /\ at' = [at EXCEPT ![Updater] = next]
      /\ UNCHANGED <<zoneVars, pc, plan, queryVars>>
  BY DEF StoreSignature
<1>2. plan[Updater][i] = records[KeyOrder[i]] /\ KeyOrder[i][1] = Canon[AppliedName(change)]
  BY <1>0 DEF HistoryInv, PlanSound
<1>3. SignaturesSound'
  <2> SUFFICES ASSUME NEW k \in RRKeys, signatures'[k] # None
               PROVE  Durably(signatures'[k].covers, k, journal)
    BY <1>1 DEF SignaturesSound, zoneVars
  <2>1. CASE k = FiledAs(Updater, i)
    <3>1. k \in Names \X ManagedTypes /\ KeyOrder[i] \in Names \X ManagedTypes
      BY <1>0, Basics DEF RRKeys
    <3>2. k[1] = AppliedName(change) /\ k[2] = KeyOrder[i][2]
      BY <2>1 DEF FiledAs
    <3>3. Canon[k[1]] = k[1]
      BY <3>1, NamesCanonical
    <3>4. k[1] = KeyOrder[i][1]
      BY <1>2, <3>2, <3>3
    <3>5. k = KeyOrder[i]
      BY <3>1, <3>2, <3>4
    <3>6. k \in Spellings \X ManagedTypes
      BY Basics
    <3>7. signatures'[k] = sig
      <4> HIDE DEF sig
      <4> QED BY <1>0, <1>1, <2>1, <3>6
    <3>8. signatures'[k].covers = Payload(records[k])
      BY <1>2, <3>5, <3>7
    <3>9. records = Standing(journal)
      BY <1>0 DEF HistoryInv, ZoneSound
    <3> QED BY <1>0, <3>8, <3>9, DurablyNow
  <2>2. CASE k # FiledAs(Updater, i)
    <3>1. signatures'[k] = signatures[k]
      <4> HIDE DEF sig
      <4> QED BY <1>0, <1>1, <2>2
    <3> QED BY <3>1 DEF HistoryInv, SignaturesSound
  <2> QED BY <2>1, <2>2
<1>4. PlanSound'
  <2>1. i + 1 \in 1..Past /\ Past \notin Indices
    BY <1>0, Basics DEF Indices, Past
  <2>2. next \in ToSign(plan[Updater]) \/ next = Past
    BY <2>1, NextIndexStops
  <2>3. at'[Updater] = next
    <3> HIDE DEF next
    <3> QED BY <1>0, <1>1
  <2>4. next \in Indices => plan[Updater][next] # << >>
    <3> HIDE DEF next
    <3> QED BY <2>1, <2>2 DEF ToSign
  <2> HIDE DEF next
  <2> QED BY <1>1, <2>3, <2>4 DEF HistoryInv, PlanSound, zoneVars
<1>5. ZoneSound' /\ AnswersSound'
  BY <1>1 DEF HistoryInv, ZoneSound, AnswersSound, zoneVars, queryVars
<1> QED BY <1>3, <1>4, <1>5 DEF HistoryInv

LEMMA HistoryUpdate ==
    ASSUME Alone, TypeInv, HistoryInv, Update
    PROVE  HistoryInv'
<1> USE DEF zoneVars, queryVars
<1>0. /\ Updater \in Resigners /\ journal \in Seq(Changes)
      /\ pc \in [Resigners -> {"idle", "staged", "reading", "signing", "done"}]
      /\ plan \in [Resigners -> [Indices -> Seq(Record)]]
      /\ at \in [Resigners -> 1..Past]
  BY Basics DEF TypeInv, TypeOK, Past
<1>1. ASSUME NEW ch \in Changes, Stage(ch) PROVE HistoryInv'
  <2>1. /\ pc[Updater] = "idle" /\ pc'[Updater] = "staged" /\ change' = ch
        /\ before' = records /\ records' = ApplyChange(records, ch)
        /\ UNCHANGED <<journal, signatures, plan, at, queryVars>>
    BY <1>0, <1>1 DEF Stage
  <2>2. PlanSound' /\ ZoneSound'
    BY <2>1 DEF HistoryInv, PlanSound, ZoneSound
  <2>3. SignaturesSound' /\ AnswersSound'
    BY <2>1 DEF HistoryInv, SignaturesSound, AnswersSound
  <2> QED BY <2>2, <2>3 DEF HistoryInv
<1>2. CASE AppendRefused \/ UpdateDone
  <2>1. /\ pc'[Updater] = "idle" /\ records' = Standing(journal)
        /\ UNCHANGED <<journal, signatures, queryVars>>
    BY <1>0, <1>2 DEF AppendRefused, UpdateDone, Finish, HistoryInv, ZoneSound
  <2>2. PlanSound' /\ ZoneSound'
    BY <2>1 DEF PlanSound, ZoneSound
  <2>3. SignaturesSound' /\ AnswersSound'
    BY <2>1 DEF HistoryInv, SignaturesSound, AnswersSound
  <2> QED BY <2>2, <2>3 DEF HistoryInv
<1>3. CASE AppendAndCollect
  <2> DEFINE lists == [i \in Indices |-> Affected(i)]
             first == NextIndex(ToSign(lists), 1)
  <2>1. /\ pc[Updater] = "staged" /\ pc'[Updater] = "signing"
        /\ journal' = Append(journal, change)
        /\ plan' = [plan EXCEPT ![Updater] = lists]
        /\ at' = [at EXCEPT ![Updater] = first]
        /\ UNCHANGED <<records, change, before, signatures, queryVars>>
    BY <1>0, <1>3 DEF AppendAndCollect
  <2>2. change \in Changes
    BY <2>1 DEF TypeInv, Placed
  <2>3. records = Standing(Append(journal, change))
    BY <1>0, <2>1, <2>2, ReplayGrows DEF HistoryInv, ZoneSound
  <2>4. ZoneSound'
    BY <2>1, <2>3 DEF ZoneSound
  <2>5. PlanSound'
    <3>1. 1 \in 1..Past /\ Past \notin Indices
      BY Basics DEF Indices, Past
    <3>2. first \in ToSign(lists) \/ first = Past
      BY <3>1, NextIndexStops
    <3>3. first \in Indices => lists[first] # << >>
      BY <3>1, <3>2 DEF ToSign
    <3>4. \A i \in Indices : lists[i] # << >> =>
             lists[i] = records[KeyOrder[i]] /\ KeyOrder[i][1] = Canon[AppliedName(change)]
      BY DEF Affected
    <3>5. plan'[Updater] = lists /\ at'[Updater] = first
      <4> HIDE DEF lists, first
      <4> QED BY <1>0, <2>1
    <3> HIDE DEF lists, first
    <3> QED BY <2>1, <3>3, <3>4, <3>5 DEF PlanSound
  <2>6. SignaturesSound'
    <3> SUFFICES ASSUME NEW k \in RRKeys, signatures[k] # None
                 PROVE  Durably(signatures[k].covers, k, Append(journal, change))
      BY <2>1 DEF SignaturesSound
    <3> QED BY <1>0, <2>2, DurablyGrows DEF HistoryInv, SignaturesSound
  <2>7. AnswersSound'
    <3>1. \A q \in Queriers : found[q] # None =>
             Durably(found[q].covers, asked[q], Append(journal, change))
      BY <1>0, <2>2, DurablyGrows DEF HistoryInv, AnswersSound
    <3> QED BY <2>1, <3>1 DEF HistoryInv, AnswersSound
  <2> QED BY <2>4, <2>5, <2>6, <2>7 DEF HistoryInv
<1> QED BY <1>1, <1>2, <1>3 DEF Update, HookFails, Alone

LEMMA HistoryQuery ==
    ASSUME TypeInv, HistoryInv, NEW q \in Queriers, Query(q)
    PROVE  HistoryInv'
<1> USE DEF queryVars
<1>0. UNCHANGED <<records, journal, change, before, signatures, pc, plan, at>>
  BY DEF Query, LookUp, ReadSignature, Answer, zoneVars, signVars
<1>1. PlanSound' /\ ZoneSound' /\ SignaturesSound'
  BY <1>0 DEF HistoryInv, PlanSound, ZoneSound, SignaturesSound
<1>2. /\ asked \in [Queriers -> RRKeys \cup {None}]
      /\ seen \in [Queriers -> Seq(Record)]
      /\ found \in [Queriers -> Signature \cup {None}]
      /\ result \in [Queriers -> Ended \cup {"looked", "signed"}]
  BY DEF TypeInv, TypeOK
<1>3. \A o \in Queriers \ {q} :
         /\ result'[o] = result[o] /\ asked'[o] = asked[o]
         /\ seen'[o] = seen[o] /\ found'[o] = found[o]
  BY <1>2 DEF Query, LookUp, ReadSignature, Answer
<1>4. /\ found'[q] # None => Durably(found'[q].covers, asked'[q], journal)
      /\ result'[q] = "answered" => found'[q] # None /\ found'[q].covers = Payload(seen'[q])
  <2>1. ASSUME NEW k \in RRKeys, LookUp(q, k)
        PROVE  found'[q] = None /\ result'[q] # "answered"
    BY <1>2, <2>1 DEF LookUp
  <2>2. CASE ReadSignature(q)
    <3>1. /\ asked[q] \in RRKeys /\ asked'[q] = asked[q] /\ found'[q] = signatures[asked[q]]
          /\ result'[q] # "answered"
      BY <1>2, <2>2 DEF ReadSignature, TypeInv, Placed
    <3> QED BY <3>1 DEF HistoryInv, SignaturesSound
  <2>3. CASE Answer(q)
    <3>1. /\ asked'[q] = asked[q] /\ found'[q] = found[q] /\ seen'[q] = seen[q]
          /\ result'[q] = "answered" => Verifies(seen[q], found[q])
      BY <1>2, <2>3 DEF Answer
    <3> QED BY <3>1 DEF HistoryInv, AnswersSound, Verifies
  <2> QED BY <2>1, <2>2, <2>3 DEF Query
<1>5. AnswersSound'
  <2>1. ASSUME NEW o \in Queriers
        PROVE  /\ found'[o] # None => Durably(found'[o].covers, asked'[o], journal')
               /\ result'[o] = "answered" => found'[o] # None /\ found'[o].covers = Payload(seen'[o])
    BY <1>0, <1>3, <1>4 DEF HistoryInv, AnswersSound
  <2> QED BY <2>1 DEF AnswersSound
<1> QED BY <1>1, <1>5 DEF HistoryInv

\* A process that has just started signed the seeds, whatever the journal.
FreshHistory ==
    /\ Fresh
    /\ journal \in Seq(Changes)
    /\ records = Standing(journal)

LEMMA FreshHistoryInv == FreshHistory => HistoryInv
<1> SUFFICES ASSUME FreshHistory PROVE HistoryInv
  OBVIOUS
<1>1. pc[Updater] = "idle" /\ \A q \in Queriers : found[q] = None /\ result[q] = "none"
  BY Basics DEF FreshHistory, Fresh
<1>2. PlanSound /\ ZoneSound /\ AnswersSound
  BY <1>1 DEF FreshHistory, PlanSound, ZoneSound, AnswersSound
<1>3. SignaturesSound
  <2> SUFFICES ASSUME NEW k \in RRKeys, signatures[k] # None
               PROVE  Durably(signatures[k].covers, k, journal)
    BY DEF SignaturesSound
  <2>1. k \in Spellings \X ManagedTypes /\ signatures = SeedSignatures
    BY Basics DEF FreshHistory, Fresh
  <2>2. signatures[k].covers = Payload(Seed[k])
    BY <2>1 DEF SeedSignatures
  <2> QED BY <2>2, DurablyNow DEF FreshHistory
<1> QED BY <1>2, <1>3 DEF HistoryInv

LEMMA HistoryRestart == TypeInv /\ Restart => HistoryInv'
<1>1. ASSUME TypeInv, Restart PROVE FreshHistory'
  BY <1>1 DEF Restart, Fresh, FreshHistory, Standing, TypeInv, TypeOK
<1> QED BY <1>1, FreshHistoryInv, PTL

LEMMA InitHistory == Init => HistoryInv
<1> SUFFICES ASSUME Init PROVE HistoryInv
  OBVIOUS
<1>1. << >> \in Seq(Changes) /\ Len(<< >>) = 0 /\ 0 \in 0..0
  OBVIOUS
<1>2. Standing(<< >>) = Seed
  BY <1>1, ReplaySolves DEF ReplayStep, Standing
<1>3. FreshHistory
  BY <1>1, <1>2 DEF Init, Fresh, FreshHistory
<1> QED BY <1>3, FreshHistoryInv

LEMMA StepHistory == Alone => (TypeInv /\ HistoryInv /\ [Next]_vars => HistoryInv')
<1> SUFFICES ASSUME Alone, TypeInv, HistoryInv, [Next]_vars PROVE HistoryInv'
  OBVIOUS
<1>1. CASE UNCHANGED <<zoneVars, signatures, pc, plan, at, queryVars>>
  BY <1>1 DEF HistoryInv, PlanSound, ZoneSound, SignaturesSound, AnswersSound,
              zoneVars, queryVars
<1>2. Resigners = {Updater}
  BY DEF Alone, Resigners
<1>3. CASE Next
  <2>1. CASE FetchKey(Updater) \/ Tick \/ \E id \in KeyIds : Rollover(id)
    BY <1>1, <2>1 DEF FetchKey, Tick, Rollover, signVars
  <2> QED BY <1>2, <1>3, <2>1, HistoryUpdate, HistoryStore, HistoryQuery, HistoryRestart
          DEF Next, Resign, Alone
<1> QED BY <1>1, <1>3 DEF vars, signVars

\* Without reloads, and when signing does not fail, no query is ever answered
\* with records that were not in the journal: neither before their change is on
\* disk nor after it was rolled back, across any rollover and restart.
THEOREM AnswersDurable == Alone => (Spec => []AnswersAreDurable)
<1> SUFFICES ASSUME Alone PROVE Spec => []AnswersAreDurable
  OBVIOUS
<1>1. HistoryInv => AnswersAreDurable
  BY DEF HistoryInv, AnswersSound, Durably, AnswersAreDurable
<1>2. TypeInv /\ HistoryInv /\ [Next]_vars => TypeInv' /\ HistoryInv'
  BY StepType, StepHistory
<1> QED BY <1>1, <1>2, InitType, InitHistory, PTL DEF Spec

-----------------------------------------------------------------------------
(***************************************************************************)
(* Between two updates every RRset is signed, as long as the process runs  *)
(* and upserts are written in lower case.                                  *)
(***************************************************************************)

Undisturbed ==
    /\ Alone
    /\ "restart" \notin Faults
    /\ \A ch \in Changes : AppliedName(ch) \in Names

Steady == Undisturbed /\ OnTime

\* What is signed where the updater is: all of the zone, all of what it would
\* go back to, or all but what it still has to sign.
RestInv ==
    /\ pc[Updater] = "idle" =>
          \A k \in Present(records) : SignedBy(signatures, records, k)
    /\ pc[Updater] = "staged" =>
          \A k \in Present(before) : SignedBy(signatures, before, k)
    /\ pc[Updater] = "signing" =>
          \A i \in Indices : records[KeyOrder[i]] # << >> =>
              \/ SignedBy(signatures, records, KeyOrder[i])
              \/ at[Updater] <= i /\ plan[Updater][i] = records[KeyOrder[i]]

\* A change leaves every other RRset of the zone as it was.
LEMMA ChangesOnlyItsOwn ==
    ASSUME NEW ch \in Changes, NEW st \in Stores, NEW k \in RRKeys,
           k[1] # Canon[AppliedName(ch)]
    PROVE  ApplyChange(st, ch)[k] = st[k]
<1>1. ch \in Change
  BY SigningAssumption
<1>2. Canon[AppliedName(ch)] = Canon[ch.name]
  BY <1>1, CanonAssumption DEF AppliedName, Change
<1>3. k # KeyOf(ch)
  BY <1>2 DEF KeyOf
<1> QED BY <1>3 DEF ApplyChange, Stores, RRKeys

\* The next signature the updater stores is of the RRset as it stands, under the
\* RRset's own name.
LEMMA StoredAsItStands ==
    ASSUME Undisturbed, TypeInv, HistoryInv, StoreSignature(Updater)
    PROVE  LET k0 == KeyOrder[at[Updater]] IN
           /\ SignedBy(signatures', records, k0)
           /\ \A k \in RRKeys : k # k0 => signatures'[k] = signatures[k]
<1> DEFINE i == at[Updater]
           k0 == KeyOrder[i]
           sig == [key |-> held[Updater], covers |-> Payload(records[k0])]
<1>0. /\ pc[Updater] = "signing" /\ i \in Indices
      /\ held[Updater] \in KeyIds
      /\ signatures \in [Spellings \X ManagedTypes -> Signature \cup {None}]
      /\ records \in Stores
      /\ change \in Changes
      /\ k0 \in RRKeys
  BY Basics DEF StoreSignature, TypeInv, TypeOK, Placed
<1>1. plan[Updater][i] = records[k0] /\ k0[1] = Canon[AppliedName(change)]
  BY <1>0 DEF HistoryInv, PlanSound
<1>2. FiledAs(Updater, i) = k0
  <2>1. Canon[AppliedName(change)] = AppliedName(change)
    BY <1>0, NamesCanonical DEF Undisturbed
  <2>2. FiledAs(Updater, i) = <<k0[1], k0[2]>>
    BY <1>1, <2>1 DEF FiledAs
  <2>3. k0 \in Names \X ManagedTypes
    BY <1>0 DEF RRKeys
  <2> HIDE DEF k0
  <2> QED BY <2>2, <2>3
<1>3. signatures' = [signatures EXCEPT ![k0] = sig]
  BY <1>1, <1>2 DEF StoreSignature
<1>4. SignedBy(signatures', records, k0)
  <2>1. records[k0] \in Seq(Record)
    BY <1>0 DEF Stores, RRKeys
  <2>2. sig \in Signature /\ None \notin Signature
    BY <1>0, <2>1, PayloadType, SigningAssumption DEF Signature
  <2>3. k0 \in Spellings \X ManagedTypes
    BY <1>0, Basics
  <2>4. signatures'[k0] = sig
    <3> HIDE DEF sig, k0
    <3> QED BY <1>0, <1>3, <2>3
  <2> QED BY <2>2, <2>4 DEF SignedBy
<1>5. \A k \in RRKeys : k # k0 => signatures'[k] = signatures[k]
  <2> HIDE DEF sig, k0
  <2> QED BY <1>0, <1>3
<1> HIDE DEF k0
<1> QED BY <1>4, <1>5 DEF k0

LEMMA RestStore ==
    ASSUME Undisturbed, TypeInv, HistoryInv, RestInv, StoreSignature(Updater)
    PROVE  RestInv'
<1> DEFINE i == at[Updater]
           k0 == KeyOrder[i]
           next == NextIndex(ToSign(plan[Updater]), i + 1)
<1>0. /\ pc[Updater] = "signing" /\ i \in Indices /\ Updater \in Resigners
      /\ at \in [Resigners -> 1..Past]
  BY Basics DEF StoreSignature, TypeInv, TypeOK, Placed, Past
<1>1. /\ at' = [at EXCEPT ![Updater] = next]
      /\ UNCHANGED <<records, pc, plan>>
  BY DEF StoreSignature, zoneVars
<1>2. SignedBy(signatures', records, k0)
  BY StoredAsItStands
<1>3. \A k \in RRKeys : k # k0 => signatures'[k] = signatures[k]
  BY StoredAsItStands
<1>4. at'[Updater] = next
  <2> HIDE DEF next
  <2> QED BY <1>0, <1>1
<1>5. ASSUME NEW j \in Indices, records[KeyOrder[j]] # << >>
      PROVE  \/ SignedBy(signatures', records, KeyOrder[j])
             \/ next <= j /\ plan[Updater][j] = records[KeyOrder[j]]
  <2>1. CASE KeyOrder[j] = k0
    BY <1>2, <2>1
  <2>2. CASE KeyOrder[j] # k0
    <3>1. KeyOrder[j] \in RRKeys
      BY Basics
    <3>2. \/ SignedBy(signatures', records, KeyOrder[j])
          \/ i <= j /\ plan[Updater][j] = records[KeyOrder[j]]
      BY <1>0, <1>3, <1>5, <2>2, <3>1 DEF RestInv, SignedBy
    <3>3. ASSUME i <= j, plan[Updater][j] = records[KeyOrder[j]], ~ (next <= j) PROVE FALSE
      <4>1. i + 1 \in 1..Past /\ j \in Nat /\ i \in Nat /\ Past \in Nat
        BY <1>0, Basics DEF Indices, Past
      <4>2. i # j
        BY <2>2
      <4>3. next \in Nat
        <5>1. next \in 1..Past
          BY <1>0, WalkType
        <5> HIDE DEF next
        <5> QED BY <4>1, <5>1
      <4>4. i + 1 <= j /\ j < next
        <5> HIDE DEF next, i
        <5> QED BY <3>3, <4>1, <4>2, <4>3
      <4>5. j \notin ToSign(plan[Updater])
        BY <4>1, <4>4, SkippedOver
      <4> QED BY <1>5, <3>3, <4>5 DEF ToSign
    <3> QED BY <3>2, <3>3
  <2> QED BY <2>1, <2>2
<1> HIDE DEF next
<1> QED BY <1>0, <1>1, <1>4, <1>5 DEF RestInv

LEMMA RestUpdate ==
    ASSUME Undisturbed, TypeInv, HistoryInv, RestInv, Update
    PROVE  RestInv'
<1>0. /\ Updater \in Resigners
      /\ pc \in [Resigners -> {"idle", "staged", "reading", "signing", "done"}]
      /\ plan \in [Resigners -> [Indices -> Seq(Record)]]
      /\ at \in [Resigners -> 1..Past]
      /\ before \in Stores
  BY Basics DEF TypeInv, TypeOK, Past
<1>1. ASSUME NEW ch \in Changes, Stage(ch) PROVE RestInv'
  <2>1. /\ pc[Updater] = "idle" /\ pc'[Updater] = "staged"
        /\ before' = records /\ UNCHANGED signatures
    BY <1>0, <1>1 DEF Stage
  <2> QED BY <2>1 DEF RestInv
<1>2. CASE AppendRefused
  <2>1. /\ pc[Updater] = "staged" /\ pc'[Updater] = "idle"
        /\ records' = before /\ UNCHANGED signatures
    BY <1>0, <1>2 DEF AppendRefused, Finish
  <2> QED BY <2>1 DEF RestInv
<1>3. CASE UpdateDone
  <2>1. /\ pc[Updater] = "signing" /\ pc'[Updater] = "idle" /\ at[Updater] = Past
        /\ UNCHANGED <<records, signatures>>
    BY <1>0, <1>3 DEF UpdateDone, Finish, Finished, Past
  <2>2. \A i \in Indices : ~ (Past <= i)
    BY Basics DEF Indices, Past
  <2>3. \A k \in Present(records) : SignedBy(signatures, records, k)
    <3> SUFFICES ASSUME NEW k \in Present(records) PROVE SignedBy(signatures, records, k)
      OBVIOUS
    <3>1. PICK i \in Indices : KeyOrder[i] = k
      BY Basics DEF Present
    <3>2. records[k] # << >>
      BY DEF Present
    <3> QED BY <2>1, <2>2, <3>1, <3>2 DEF RestInv
  <2> QED BY <2>1, <2>3 DEF RestInv
<1>4. CASE AppendAndCollect
  <2> DEFINE lists == [i \in Indices |-> Affected(i)]
             first == NextIndex(ToSign(lists), 1)
  <2>1. /\ pc[Updater] = "staged" /\ pc'[Updater] = "signing"
        /\ plan' = [plan EXCEPT ![Updater] = lists]
        /\ at' = [at EXCEPT ![Updater] = first]
        /\ UNCHANGED <<records, change, before, signatures>>
    BY <1>0, <1>4 DEF AppendAndCollect
  <2>2. change \in Changes /\ records = ApplyChange(before, change)
    BY <2>1 DEF TypeInv, Placed, HistoryInv, ZoneSound
  <2>3. plan'[Updater] = lists /\ at'[Updater] = first
    <3> HIDE DEF lists, first
    <3> QED BY <1>0, <2>1
  <2>4. ASSUME NEW i \in Indices, records[KeyOrder[i]] # << >>
        PROVE  \/ SignedBy(signatures, records, KeyOrder[i])
               \/ first <= i /\ lists[i] = records[KeyOrder[i]]
    <3>1. KeyOrder[i] \in RRKeys
      BY Basics
    <3>2. CASE KeyOrder[i][1] = Canon[AppliedName(change)]
      <4>1. lists[i] = records[KeyOrder[i]]
        BY <3>2 DEF Affected
      <4>2. 1 \in 1..Past /\ 1 <= i /\ i \in Nat
        BY Basics DEF Past, Indices
      <4>3. first \in Nat
        <5>1. first \in 1..Past
          BY WalkType
        <5> HIDE DEF first
        <5> QED BY <5>1
      <4>4. i \in ToSign(lists)
        BY <2>4, <4>1 DEF ToSign
      <4>5. ~ (i < first)
        <5> HIDE DEF lists
        <5> QED BY <4>2, <4>4, SkippedOver
      <4> HIDE DEF first
      <4> QED BY <4>1, <4>2, <4>3, <4>5
    <3>3. CASE KeyOrder[i][1] # Canon[AppliedName(change)]
      <4>1. records[KeyOrder[i]] = before[KeyOrder[i]]
        BY <1>0, <2>2, <3>1, <3>3, ChangesOnlyItsOwn
      <4>2. SignedBy(signatures, before, KeyOrder[i])
        BY <2>1, <2>4, <3>1, <4>1 DEF RestInv, Present
      <4> QED BY <4>1, <4>2 DEF SignedBy
    <3> QED BY <3>2, <3>3
  <2> HIDE DEF lists, first
  <2> QED BY <2>1, <2>3, <2>4 DEF RestInv
<1> QED BY <1>1, <1>2, <1>3, <1>4 DEF Update, HookFails, Undisturbed, Alone

LEMMA StepRest ==
    Undisturbed => (TypeInv /\ HistoryInv /\ RestInv /\ [Next]_vars => RestInv')
<1> SUFFICES ASSUME Undisturbed, TypeInv, HistoryInv, RestInv, [Next]_vars PROVE RestInv'
  OBVIOUS
<1> USE DEF zoneVars, signVars
<1>1. CASE UNCHANGED <<records, before, signatures, pc, plan, at>>
  BY <1>1 DEF RestInv
<1>2. Resigners = {Updater} /\ Reloaders = {} /\ "restart" \notin Faults
  BY DEF Undisturbed, Alone, Resigners
<1>3. CASE Next
  <2>1. CASE FetchKey(Updater) \/ Tick \/ \E id \in KeyIds : Rollover(id)
    BY <1>1, <2>1 DEF FetchKey, Tick, Rollover
  <2>2. CASE \E q \in Queriers : Query(q)
    BY <1>1, <2>2 DEF Query, LookUp, ReadSignature, Answer
  <2> QED BY <1>2, <1>3, <2>1, <2>2, RestUpdate, RestStore DEF Next, Resign, Restart
<1> QED BY <1>1, <1>3 DEF vars

LEMMA InitRest == Init => RestInv
<1> SUFFICES ASSUME Init PROVE RestInv
  OBVIOUS
<1>1. pc[Updater] = "idle" /\ records = Seed /\ signatures = SeedSignatures
  BY Basics DEF Init
<1>2. ASSUME NEW k \in Present(Seed) PROVE SignedBy(SeedSignatures, Seed, k)
  <2> DEFINE sig == [key |-> 1, covers |-> Payload(Seed[k])]
  <2>1. Seed[k] \in Seq(Record) /\ k \in Spellings \X ManagedTypes /\ 1 \in KeyIds
    BY Basics, SigningAssumption DEF Present, Stores, RRKeys
  <2>2. sig \in Signature /\ None \notin Signature
    BY <2>1, PayloadType, SigningAssumption DEF Signature
  <2>3. SeedSignatures[k] = sig
    BY <2>1 DEF SeedSignatures
  <2> QED BY <2>2, <2>3 DEF SignedBy
<1> QED BY <1>1, <1>2 DEF RestInv

\* While no reload runs, signing does not fail, the process is not restarted,
\* keys are active at once and upserts are written in lower case, every RRset
\* carries a signature that verifies whenever no update is under way.
THEOREM SignedBetweenUpdates == Steady => (Spec => []SignedAtRest)
<1> SUFFICES ASSUME Steady PROVE Spec => []SignedAtRest
  OBVIOUS
<1>0. Undisturbed /\ Alone /\ OnTime
  BY DEF Steady, Undisturbed
<1>1. TypeInv /\ KeysInv /\ RestInv => SignedAtRest
  <2> SUFFICES ASSUME TypeInv, KeysInv, RestInv, pc[Updater] = "idle",
                      NEW k \in Present(records)
               PROVE  Covered(k)
    BY DEF SignedAtRest
  <2>1. k \in RRKeys
    BY DEF Present
  <2> QED BY <2>1, CoveredIsSigned DEF RestInv
<1>2. TypeInv /\ KeysInv /\ HistoryInv /\ RestInv /\ [Next]_vars =>
         TypeInv' /\ KeysInv' /\ HistoryInv' /\ RestInv'
  BY <1>0, StepType, StepKeys, StepHistory, StepRest
<1>3. Init => TypeInv /\ KeysInv /\ HistoryInv /\ RestInv
  BY InitType, InitRepair, InitHistory, InitRest
<1> QED BY <1>1, <1>2, <1>3, PTL DEF Spec

-----------------------------------------------------------------------------
(***************************************************************************)
(* Under the same conditions, but for the keys', no answer is older than   *)
(* its query.                                                              *)
(***************************************************************************)

\* An RRset was missing, or was what is signed, at some point of a log since a
\* query looked it up.
Current(covers, k, from, log) ==
    \E n \in from..Len(log) :
        \/ ReplayUpTo(log)[n][k] = << >>
        \/ Payload(ReplayUpTo(log)[n][k]) = covers

\* While an update is signed, the last line is its own, and what it has
\* replaced is signed as it was before or as it is now.
LastLine ==
    pc[Updater] = "signing" =>
        /\ Len(journal) >= 1
        /\ before = ReplayUpTo(journal)[Len(journal) - 1]
        /\ \A k \in Present(before) :
              SignedBy(signatures, before, k) \/ SignedBy(signatures, records, k)

\* A query that began when the last line was there saw what it made of the zone;
\* and what a query has read was current, or what it has seen is.
QueriesCurrent ==
    \A q \in Queriers :
        /\ result[q] = "looked" /\ pc[Updater] = "signing" /\ since[q] = Len(journal) =>
              seen[q] = records[asked[q]]
        /\ found[q] # None =>
              \/ Current(found[q].covers, asked[q], since[q], journal)
              \/ Current(Payload(seen[q]), asked[q], since[q], journal)

CurrentInv == LastLine /\ QueriesCurrent

\* What was current stays so when the log grows.
LEMMA CurrentGrows ==
    ASSUME NEW log \in Seq(Changes), NEW ch \in Changes, NEW covers, NEW k,
           NEW from \in 0..Len(log), Current(covers, k, from, log)
    PROVE  Current(covers, k, from, Append(log, ch))
<1>1. PICK n \in from..Len(log) : \/ ReplayUpTo(log)[n][k] = << >>
                                  \/ Payload(ReplayUpTo(log)[n][k]) = covers
  BY DEF Current
<1>2. Len(Append(log, ch)) = Len(log) + 1 /\ Len(log) \in Nat
  OBVIOUS
<1>3. n \in 0..Len(log) /\ n \in from..Len(Append(log, ch))
  BY <1>1, <1>2
<1>4. ReplayUpTo(Append(log, ch))[n] = ReplayUpTo(log)[n]
  BY <1>3, ReplayGrows
<1> QED BY <1>1, <1>3, <1>4 DEF Current

LEMMA LastLineUpdate ==
    ASSUME Undisturbed, TypeInv, HistoryInv, RestInv, LastLine, Update
    PROVE  LastLine'
<1>0. /\ Updater \in Resigners
      /\ pc \in [Resigners -> {"idle", "staged", "reading", "signing", "done"}]
      /\ journal \in Seq(Changes)
  BY Basics DEF TypeInv, TypeOK
<1>1. CASE (\E ch \in Changes : Stage(ch)) \/ AppendRefused \/ UpdateDone
  <2>1. pc'[Updater] # "signing"
    BY <1>0, <1>1 DEF Stage, AppendRefused, UpdateDone, Finish
  <2> QED BY <2>1 DEF LastLine
<1>2. CASE AppendAndCollect
  <2>1. /\ pc[Updater] = "staged" /\ change \in Changes
        /\ journal' = Append(journal, change)
        /\ UNCHANGED <<records, before, signatures>>
    BY <1>2 DEF AppendAndCollect, TypeInv, Placed
  <2>2. before = Standing(journal)
    BY <2>1 DEF HistoryInv, ZoneSound
  <2>3. /\ Len(journal') = Len(journal) + 1 /\ Len(journal) \in Nat
        /\ Len(journal) \in 0..Len(journal)
    BY <1>0, <2>1
  <2>4. before = ReplayUpTo(journal')[Len(journal') - 1]
    <3>1. ReplayUpTo(journal')[Len(journal)] = ReplayUpTo(journal)[Len(journal)]
      BY <1>0, <2>1, <2>3, ReplayGrows
    <3>2. Len(journal') - 1 = Len(journal)
      BY <2>3
    <3> QED BY <2>2, <3>1, <3>2 DEF Standing
  <2>5. \A k \in Present(before) : SignedBy(signatures, before, k)
    BY <2>1 DEF RestInv
  <2> QED BY <2>1, <2>3, <2>4, <2>5 DEF LastLine
<1> QED BY <1>1, <1>2 DEF Update, HookFails, Undisturbed, Alone

\* The next signature leaves the others, and is of the RRset as it is now.
LEMMA LastLineStore ==
    ASSUME Undisturbed, TypeInv, HistoryInv, LastLine, StoreSignature(Updater)
    PROVE  LastLine'
<1> DEFINE k0 == KeyOrder[at[Updater]]
<1>1. /\ pc[Updater] = "signing"
      /\ UNCHANGED <<records, before, journal, pc>>
  BY DEF StoreSignature, zoneVars
<1>2. /\ SignedBy(signatures', records, k0)
      /\ \A k \in RRKeys : k # k0 => signatures'[k] = signatures[k]
  BY StoredAsItStands
<1>3. ASSUME NEW k \in Present(before)
      PROVE  SignedBy(signatures', before, k) \/ SignedBy(signatures', records, k)
  <2>1. k \in RRKeys
    BY DEF Present
  <2>2. SignedBy(signatures, before, k) \/ SignedBy(signatures, records, k)
    BY <1>1 DEF LastLine
  <2> HIDE DEF k0
  <2> QED BY <1>2, <2>1, <2>2 DEF SignedBy
<1> QED BY <1>1, <1>3 DEF LastLine

\* What a query reads is what the zone was at a point since it began, or what
\* the query saw is.
LEMMA ReadIsCurrent ==
    ASSUME TypeInv, HistoryInv, RestInv, CurrentInv, NEW q \in Queriers,
           result[q] = "looked", signatures[asked[q]] # None
    PROVE  \/ Current(signatures[asked[q]].covers, asked[q], since[q], journal)
           \/ Current(Payload(seen[q]), asked[q], since[q], journal)
<1> DEFINE k == asked[q]
           N == Len(journal)
<1>1. k \in RRKeys /\ since[q] \in 0..N /\ N \in Nat
  BY DEF TypeInv, TypeOK, Placed
<1>2. N \in since[q]..N
  BY <1>1
<1>3. ASSUME NEW st, st = Standing(journal), \A x \in Present(st) : SignedBy(signatures, st, x)
      PROVE  Current(signatures[k].covers, k, since[q], journal)
  <2>1. CASE st[k] = << >>
    BY <1>2, <1>3, <2>1 DEF Current, Standing
  <2>2. CASE st[k] # << >>
    <3>1. SignedBy(signatures, st, k)
      BY <1>1, <1>3, <2>2 DEF Present
    <3> QED BY <1>2, <1>3, <3>1 DEF Current, Standing, SignedBy
  <2> QED BY <2>1, <2>2
<1>4. CASE pc[Updater] = "idle"
  BY <1>3, <1>4 DEF RestInv, HistoryInv, ZoneSound
<1>5. CASE pc[Updater] = "staged"
  BY <1>3, <1>5 DEF RestInv, HistoryInv, ZoneSound
<1>6. CASE pc[Updater] = "signing"
  <2>1. records = Standing(journal)
    BY <1>6 DEF HistoryInv, ZoneSound
  <2>2. CASE records[k] = << >>
    BY <1>2, <2>1, <2>2 DEF Current, Standing
  <2>3. CASE SignedBy(signatures, records, k)
    BY <1>2, <2>1, <2>3 DEF Current, Standing, SignedBy
  <2>4. CASE since[q] = N
    <3>1. seen[q] = records[k]
      BY <1>6, <2>4 DEF CurrentInv, QueriesCurrent
    <3> QED BY <1>2, <2>1, <3>1 DEF Current, Standing
  <2>5. CASE since[q] # N /\ ~ SignedBy(signatures, records, k)
    <3>1. N - 1 \in since[q]..N
      BY <1>1, <2>5
    <3>2. before = ReplayUpTo(journal)[N - 1]
      BY <1>6 DEF CurrentInv, LastLine
    <3>3. CASE before[k] = << >>
      BY <3>1, <3>2, <3>3 DEF Current
    <3>4. CASE before[k] # << >>
      <4>1. SignedBy(signatures, before, k)
        BY <1>1, <1>6, <2>5, <3>4 DEF CurrentInv, LastLine, Present
      <4> QED BY <3>1, <3>2, <4>1 DEF Current, SignedBy
    <3> QED BY <3>3, <3>4
  <2> QED BY <2>3, <2>4, <2>5
<1>7. pc[Updater] \in {"idle", "staged", "signing"}
  BY DEF TypeInv, Placed
<1> QED BY <1>4, <1>5, <1>6, <1>7

LEMMA CurrentQuery ==
    ASSUME TypeInv, HistoryInv, RestInv, CurrentInv, NEW q \in Queriers, Query(q)
    PROVE  CurrentInv'
<1>1. /\ asked \in [Queriers -> RRKeys \cup {None}]
      /\ seen \in [Queriers -> Seq(Record)]
      /\ found \in [Queriers -> Signature \cup {None}]
      /\ result \in [Queriers -> Ended \cup {"looked", "signed"}]
      /\ since \in [Queriers -> 0..Len(journal)]
  BY DEF TypeInv, TypeOK
<1>2. UNCHANGED <<records, journal, before, signatures, pc>>
  BY DEF Query, LookUp, ReadSignature, Answer, zoneVars, signVars
<1>3. \A o \in Queriers \ {q} :
         /\ result'[o] = result[o] /\ asked'[o] = asked[o] /\ since'[o] = since[o]
         /\ seen'[o] = seen[o] /\ found'[o] = found[o]
  BY <1>1 DEF Query, LookUp, ReadSignature, Answer
<1>4. /\ result'[q] = "looked" => seen'[q] = records[asked'[q]]
      /\ found'[q] # None =>
            \/ Current(found'[q].covers, asked'[q], since'[q], journal)
            \/ Current(Payload(seen'[q]), asked'[q], since'[q], journal)
  <2>1. ASSUME NEW k \in RRKeys, LookUp(q, k)
        PROVE  found'[q] = None /\ seen'[q] = records[asked'[q]]
    BY <1>1, <2>1 DEF LookUp
  <2>2. CASE ReadSignature(q)
    <3>1. /\ result[q] = "looked" /\ result'[q] # "looked"
          /\ asked'[q] = asked[q] /\ seen'[q] = seen[q] /\ since'[q] = since[q]
          /\ found'[q] = signatures[asked[q]]
      BY <1>1, <2>2 DEF ReadSignature
    <3> QED BY <3>1, ReadIsCurrent
  <2>3. CASE Answer(q)
    <3>1. /\ result'[q] # "looked"
          /\ asked'[q] = asked[q] /\ seen'[q] = seen[q] /\ since'[q] = since[q]
          /\ found'[q] = found[q]
      BY <1>1, <2>3 DEF Answer
    <3> QED BY <3>1 DEF CurrentInv, QueriesCurrent
  <2> QED BY <2>1, <2>2, <2>3 DEF Query
<1>5. QueriesCurrent'
  <2> SUFFICES ASSUME NEW o \in Queriers
               PROVE  /\ result'[o] = "looked" /\ pc'[Updater] = "signing"
                            /\ since'[o] = Len(journal') => seen'[o] = records'[asked'[o]]
                      /\ found'[o] # None =>
                            \/ Current(found'[o].covers, asked'[o], since'[o], journal')
                            \/ Current(Payload(seen'[o]), asked'[o], since'[o], journal')
    BY DEF QueriesCurrent
  <2>1. CASE o = q
    BY <1>2, <1>4, <2>1
  <2>2. CASE o # q
    BY <1>2, <1>3, <2>2 DEF CurrentInv, QueriesCurrent
  <2> QED BY <2>1, <2>2
<1>6. LastLine'
  BY <1>2 DEF CurrentInv, LastLine
<1> QED BY <1>5, <1>6 DEF CurrentInv

\* An update leaves every query what it has, and a new line leaves it current.
LEMMA CurrentUpdate ==
    ASSUME Undisturbed, TypeInv, QueriesCurrent, Update
    PROVE  QueriesCurrent'
<1>0. /\ Updater \in Resigners
      /\ pc \in [Resigners -> {"idle", "staged", "reading", "signing", "done"}]
      /\ journal \in Seq(Changes)
      /\ since \in [Queriers -> 0..Len(journal)]
      /\ UNCHANGED queryVars
  BY Basics DEF TypeInv, TypeOK, Update, Stage, AppendRefused, AppendAndCollect, HookFails,
                UpdateDone
<1>1. CASE (\E ch \in Changes : Stage(ch)) \/ AppendRefused \/ UpdateDone
  <2>1. pc'[Updater] # "signing" /\ UNCHANGED journal
    BY <1>0, <1>1 DEF Stage, AppendRefused, UpdateDone, Finish
  <2> QED BY <1>0, <2>1 DEF QueriesCurrent, queryVars
<1>2. CASE AppendAndCollect
  <2>1. change \in Changes /\ journal' = Append(journal, change)
    BY <1>2 DEF AppendAndCollect, TypeInv, Placed
  <2>2. Len(journal') = Len(journal) + 1 /\ Len(journal) \in Nat
    BY <1>0, <2>1
  <2>3. \A q \in Queriers : since[q] # Len(journal')
    BY <1>0, <2>2
  <2>4. ASSUME NEW q \in Queriers, NEW covers, Current(covers, asked[q], since[q], journal)
        PROVE  Current(covers, asked[q], since[q], journal')
    BY <1>0, <2>1, <2>4, CurrentGrows
  <2> QED BY <1>0, <2>3, <2>4 DEF QueriesCurrent, queryVars
<1> QED BY <1>1, <1>2 DEF Update, HookFails, Undisturbed, Alone

LEMMA StepCurrent ==
    Undisturbed =>
        (TypeInv /\ HistoryInv /\ RestInv /\ CurrentInv /\ [Next]_vars => CurrentInv')
<1> SUFFICES ASSUME Undisturbed, TypeInv, HistoryInv, RestInv, CurrentInv, [Next]_vars
             PROVE  CurrentInv'
  OBVIOUS
<1> USE DEF zoneVars, signVars, queryVars
<1>1. CASE UNCHANGED <<records, journal, before, signatures, pc, queryVars>>
  BY <1>1 DEF CurrentInv, LastLine, QueriesCurrent
<1>2. Resigners = {Updater} /\ Reloaders = {} /\ "restart" \notin Faults
  BY DEF Undisturbed, Alone, Resigners
<1>3. CASE Next
  <2>1. CASE FetchKey(Updater) \/ Tick \/ \E id \in KeyIds : Rollover(id)
    BY <1>1, <2>1 DEF FetchKey, Tick, Rollover
  <2>2. CASE Update
    BY <2>2, LastLineUpdate, CurrentUpdate DEF CurrentInv
  <2>3. CASE StoreSignature(Updater)
    <3>1. UNCHANGED <<records, journal, pc, queryVars>>
      BY <2>3 DEF StoreSignature
    <3> QED BY <2>3, <3>1, LastLineStore DEF CurrentInv, QueriesCurrent
  <2> QED BY <1>2, <1>3, <2>1, <2>2, <2>3, CurrentQuery DEF Next, Resign, Restart
<1> QED BY <1>1, <1>3 DEF vars

LEMMA InitCurrent == Init => CurrentInv
BY Basics DEF Init, CurrentInv, LastLine, QueriesCurrent

\* While no reload runs, signing does not fail, the process is not restarted and
\* upserts are written in lower case, no query is answered with records that an
\* update had already replaced on disk when it began, nor with records that are
\* not there yet: what is answered was the RRset on disk at a moment of the
\* query, unless there was none, across any rollover, for any number of keys and
\* queries.
THEOREM AnswersCurrent == Undisturbed => (Spec => []AnswersAreCurrent)
<1> SUFFICES ASSUME Undisturbed PROVE Spec => []AnswersAreCurrent
  OBVIOUS
<1>0. Alone
  BY DEF Undisturbed
<1>1. HistoryInv /\ CurrentInv => AnswersAreCurrent
  <2> SUFFICES ASSUME HistoryInv, CurrentInv, NEW q \in Queriers, result[q] = "answered"
               PROVE  Current(Payload(seen[q]), asked[q], since[q], journal)
    BY DEF AnswersAreCurrent, Current
  <2>1. found[q] # None /\ found[q].covers = Payload(seen[q])
    BY DEF HistoryInv, AnswersSound
  <2> QED BY <2>1 DEF CurrentInv, QueriesCurrent
<1>2. TypeInv /\ HistoryInv /\ RestInv /\ CurrentInv /\ [Next]_vars =>
         TypeInv' /\ HistoryInv' /\ RestInv' /\ CurrentInv'
  BY <1>0, StepType, StepHistory, StepRest, StepCurrent
<1>3. Init => TypeInv /\ HistoryInv /\ RestInv /\ CurrentInv
  BY InitType, InitHistory, InitRest, InitCurrent
<1> QED BY <1>1, <1>2, <1>3, PTL DEF Spec
=============================================================================
