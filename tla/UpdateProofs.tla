---------------------------- MODULE UpdateProofs ----------------------------
(***************************************************************************)
(* Proofs about the update path for every set of clients, zones, names,    *)
(* values and requests, and any number of calls and stops.                 *)
(***************************************************************************)
EXTENDS UpdateProperties, RecordFacts

-----------------------------------------------------------------------------
(***************************************************************************)
(* What a log makes of a zone.                                             *)
(***************************************************************************)

Logs == Seq(Entry \cup {Torn})

\* What one line of a log makes of a store.
Effect(z, undone, st, e) ==
    IF e = Torn THEN st
    ELSE IF e.zone # z \/ e.id \in undone THEN st
    ELSE ApplyChange(st, e.change)

\* A journal line has a store as its effect on a store.
LEMMA EffectType ==
    ASSUME NEW z, NEW undone, NEW st \in Stores, NEW e \in Entry \cup {Torn}
    PROVE  Effect(z, undone, st, e) \in Stores
<1>1. CASE e = Torn
  BY <1>1 DEF Effect
<1>2. CASE e # Torn
  <2>1. e.change \in Change
    BY <1>2 DEF Entry
  <2> QED BY <1>2, <2>1, ApplyChangeType DEF Effect
<1> QED BY <1>1, <1>2

ReplayStep(z, log, undone, f, n) ==
    IF n = 0 THEN Seeds[z] ELSE Effect(z, undone, f[n - 1], log[n])

\* ReplayUpTo is the recursion it is written as, and its values are stores.
LEMMA ReplaySolves ==
    ASSUME NEW z \in Zones, NEW log \in Logs, NEW undone
    PROVE  /\ \A n \in 0..Len(log) :
                 ReplayUpTo(z, log, undone)[n] =
                     ReplayStep(z, log, undone, ReplayUpTo(z, log, undone), n)
           /\ \A n \in 0..Len(log) : ReplayUpTo(z, log, undone)[n] \in Stores
<1> DEFINE N == Len(log)
           Solves(f) == f = [n \in 0..N |-> ReplayStep(z, log, undone, f, n)]
           step == [p \in (1..N) \X Stores |-> Effect(z, undone, p[2], log[p[1]])]
<1>0. N \in Nat
  BY DEF Logs
<1>1. \A n \in 1..N : log[n] \in Entry \cup {Torn}
  BY ElementOfSeq DEF Logs
<1>2. Seeds[z] \in Stores
  BY UpdateAssumption
<1>3. step \in StepsOn(N, Stores)
  <2>1. ASSUME NEW p \in (1..N) \X Stores
        PROVE  Effect(z, undone, p[2], log[p[1]]) \in Stores
    BY <1>1, EffectType
  <2> QED BY <2>1 DEF StepsOn
<1>4. PICK g \in [0..N -> Stores] : \A n \in 0..N : g[n] = Fold(Seeds[z], step, g, n)
  <2>1. HasSolution(N, Stores, Seeds[z], step)
    <3> HIDE DEF N, step
    <3> QED BY <1>0, <1>2, <1>3, FoldExists
  <2> QED BY <2>1 DEF HasSolution
<1>5. ASSUME NEW n \in 0..N
      PROVE  Fold(Seeds[z], step, g, n) = ReplayStep(z, log, undone, g, n)
  <2>1. CASE n = 0
    BY <2>1 DEF Fold, ReplayStep
  <2>2. CASE n # 0
    <3>1. n \in 1..N /\ n - 1 \in 0..N
      BY <2>2, <1>0
    <3>2. <<n, g[n - 1]>> \in (1..N) \X Stores
      BY <3>1, <1>4
    <3> QED BY <2>2, <3>2 DEF Fold, ReplayStep
  <2> QED BY <2>1, <2>2
<1>6. Solves(g)
  <2> HIDE DEF N, step
  <2> QED BY <1>4, <1>5
<1>7. ReplayUpTo(z, log, undone) = CHOOSE f : Solves(f)
  BY DEF ReplayUpTo, ReplayStep, Effect
<1>8. Solves(ReplayUpTo(z, log, undone))
  <2> HIDE DEF Solves
  <2> QED BY <1>6, <1>7
<1>9. \A n \in 0..N : ReplayUpTo(z, log, undone)[n] =
          ReplayStep(z, log, undone, ReplayUpTo(z, log, undone), n)
  BY <1>8
<1> DEFINE S == {n \in 0..N : ReplayUpTo(z, log, undone)[n] \in Stores}
<1>10. 0 \in S
  <2>1. 0 \in 0..N
    BY <1>0
  <2>2. ReplayUpTo(z, log, undone)[0] = Seeds[z]
    BY <2>1, <1>9 DEF ReplayStep
  <2> QED BY <1>2, <2>1, <2>2
<1>11. ASSUME NEW n \in 1..N, n - 1 \in S PROVE n \in S
  <2>1. n \in 0..N /\ n # 0 /\ ReplayUpTo(z, log, undone)[n - 1] \in Stores
    BY <1>0, <1>11
  <2>2. ReplayUpTo(z, log, undone)[n] =
            Effect(z, undone, ReplayUpTo(z, log, undone)[n - 1], log[n])
    BY <2>1, <1>9 DEF ReplayStep
  <2> QED BY <2>1, <2>2, <1>1, EffectType
<1>12. \A n \in 0..N : n \in S
  <2> HIDE DEF S, N
  <2> QED BY <1>0, <1>10, <1>11, IntervalInduction
<1> QED BY <1>9, <1>12

\* A longer log agrees with a shorter one it begins with.
LEMMA ReplayPrefix ==
    ASSUME NEW z \in Zones, NEW log \in Logs, NEW e \in Entry \cup {Torn}, NEW undone,
           NEW n \in 0..Len(log)
    PROVE  ReplayUpTo(z, Append(log, e), undone)[n] = ReplayUpTo(z, log, undone)[n]
<1> DEFINE longer == Append(log, e)
           S == {k \in 0..Len(log) :
                    ReplayUpTo(z, longer, undone)[k] = ReplayUpTo(z, log, undone)[k]}
<1>1. /\ Len(log) \in Nat /\ longer \in Logs /\ Len(longer) = Len(log) + 1
      /\ \A k \in 1..Len(log) : longer[k] = log[k]
  BY DEF Logs
<1>2. \A k \in 0..Len(log) :
        /\ ReplayUpTo(z, longer, undone)[k] =
              ReplayStep(z, longer, undone, ReplayUpTo(z, longer, undone), k)
        /\ ReplayUpTo(z, log, undone)[k] =
              ReplayStep(z, log, undone, ReplayUpTo(z, log, undone), k)
  <2> HIDE DEF longer
  <2> QED BY <1>1, ReplaySolves
<1> HIDE DEF longer
<1>3. 0 \in S
  BY <1>1, <1>2 DEF ReplayStep
<1>4. ASSUME NEW k \in 1..Len(log), k - 1 \in S PROVE k \in S
  <2>1. k \in 0..Len(log) /\ k # 0 /\ longer[k] = log[k]
    BY <1>1
  <2>2. ReplayUpTo(z, longer, undone)[k - 1] = ReplayUpTo(z, log, undone)[k - 1]
    BY <1>4
  <2>3. ReplayUpTo(z, longer, undone)[k] = ReplayUpTo(z, log, undone)[k]
    BY <1>2, <2>1, <2>2 DEF ReplayStep
  <2> QED BY <2>1, <2>3
<1>5. \A k \in 0..Len(log) : k \in S
  <2> HIDE DEF S
  <2> QED BY <1>1, <1>3, <1>4, IntervalInduction
<1> QED BY <1>5 DEF longer

\* One more line has its effect on what the log made before.
LEMMA ReplayAppend ==
    ASSUME NEW z \in Zones, NEW log \in Logs, NEW e \in Entry \cup {Torn}, NEW undone
    PROVE  ReplayOf(z, Append(log, e), undone) =
               Effect(z, undone, ReplayOf(z, log, undone), e)
<1> DEFINE longer == Append(log, e)
<1>1. /\ Len(log) \in Nat /\ longer \in Logs
      /\ Len(longer) = Len(log) + 1 /\ longer[Len(log) + 1] = e
  BY DEF Logs
<1> HIDE DEF longer
<1>2. Len(longer) \in 0..Len(longer) /\ Len(longer) # 0 /\ Len(longer) - 1 = Len(log)
  BY <1>1
<1>3. ReplayUpTo(z, longer, undone)[Len(longer)] =
          ReplayStep(z, longer, undone, ReplayUpTo(z, longer, undone), Len(longer))
  BY <1>1, <1>2, ReplaySolves
<1>4. ReplayUpTo(z, longer, undone)[Len(longer)] =
          Effect(z, undone, ReplayUpTo(z, longer, undone)[Len(log)], e)
  BY <1>1, <1>2, <1>3 DEF ReplayStep
<1>5. ReplayUpTo(z, longer, undone)[Len(log)] = ReplayUpTo(z, log, undone)[Len(log)]
  BY <1>1, ReplayPrefix DEF longer
<1> QED BY <1>4, <1>5 DEF ReplayOf, longer

\* Two logs of one length make the same of a zone when each line of one has the
\* effect of the line of the other.
LEMMA SameEffects ==
    ASSUME NEW z \in Zones, NEW one \in Logs, NEW two \in Logs, NEW undone,
           Len(one) = Len(two),
           \A i \in 1..Len(one) : \A st :
               Effect(z, undone, st, one[i]) = Effect(z, undone, st, two[i])
    PROVE  ReplayOf(z, one, undone) = ReplayOf(z, two, undone)
<1> DEFINE S == {k \in 0..Len(one) :
                    ReplayUpTo(z, one, undone)[k] = ReplayUpTo(z, two, undone)[k]}
<1>1. Len(one) \in Nat
  BY DEF Logs
<1>2. \A k \in 0..Len(one) :
        /\ ReplayUpTo(z, one, undone)[k] =
              ReplayStep(z, one, undone, ReplayUpTo(z, one, undone), k)
        /\ ReplayUpTo(z, two, undone)[k] =
              ReplayStep(z, two, undone, ReplayUpTo(z, two, undone), k)
  BY ReplaySolves
<1>3. 0 \in S
  BY <1>1, <1>2 DEF ReplayStep
<1>4. ASSUME NEW k \in 1..Len(one), k - 1 \in S PROVE k \in S
  <2>1. k \in 0..Len(one) /\ k # 0
    BY <1>1
  <2>2. ReplayUpTo(z, one, undone)[k - 1] = ReplayUpTo(z, two, undone)[k - 1]
    BY <1>4
  <2>3. ReplayUpTo(z, one, undone)[k] = ReplayUpTo(z, two, undone)[k]
    BY <1>2, <2>1, <2>2 DEF ReplayStep
  <2> QED BY <2>1, <2>3
<1>5. \A k \in 0..Len(one) : k \in S
  <2> HIDE DEF S
  <2> QED BY <1>1, <1>3, <1>4, IntervalInduction
<1>6. Len(one) \in 0..Len(one)
  BY <1>1
<1> QED BY <1>5, <1>6 DEF ReplayOf

-----------------------------------------------------------------------------
(***************************************************************************)
(* What JSON makes of a log.                                               *)
(***************************************************************************)

\* A change that was read is a change, and is read again as it is.
LEMMA DecodedType ==
    ASSUME NEW ch \in Change
    PROVE  /\ Decoded(ch) \in Change
           /\ Decoded(Decoded(ch)) = Decoded(ch)
<1>1. /\ NameText[ch.name] \in Spellings
      /\ NameText[NameText[ch.name]] = NameText[ch.name]
  BY TextAssumption DEF Change
<1>2. /\ DataText[ch.rdata] \in RDatas
      /\ DataText[DataText[ch.rdata]] = DataText[ch.rdata]
  BY TextAssumption DEF Change
<1> QED BY <1>1, <1>2 DEF Decoded, Change

\* An entry that was read keeps what JSON does not touch.
LEMMA ReadType ==
    ASSUME NEW e \in Entry
    PROVE  /\ Read(e) \in Entry
           /\ Read(e) # Torn
           /\ Read(e).id = e.id
           /\ Read(e).zone = e.zone
           /\ Read(e).change = Decoded(e.change)
<1>1. e # Torn /\ e.change \in Change
  BY UpdateAssumption DEF Entry
<1>2. Decoded(e.change) \in Change
  BY <1>1, DecodedType
<1>3. Read(e) = [e EXCEPT !.change = Decoded(e.change)]
  BY <1>1 DEF Read
<1>4. Read(e) \in Entry
  BY <1>2, <1>3 DEF Entry
<1> QED BY <1>3, <1>4, UpdateAssumption DEF Entry

\* A log read in part is a log of the same length.
LEMMA AsReadType ==
    ASSUME NEW log \in Logs, NEW n
    PROVE  /\ AsRead(log, n) \in Logs
           /\ Len(AsRead(log, n)) = Len(log)
           /\ \A i \in 1..Len(log) :
                 AsRead(log, n)[i] = IF i <= n THEN Read(log[i]) ELSE log[i]
<1> DEFINE L == Entry \cup {Torn}
           read == AsRead(log, n)
<1>1. log \in Seq(L) /\ Len(log) \in Nat
  BY DEF Logs
<1>2. \A i \in 1..Len(log) : log[i] \in L
  <2> HIDE DEF L
  <2> QED BY <1>1, ElementOfSeq
<1>3. ASSUME NEW i \in 1..Len(log)
      PROVE  (IF i <= n THEN Read(log[i]) ELSE log[i]) \in L
  <2>1. CASE log[i] = Torn
    BY <2>1 DEF Read
  <2>2. CASE log[i] # Torn
    BY <1>2, <2>2, ReadType
  <2> QED BY <2>1, <2>2
<1> HIDE DEF L
<1>4. read \in [1..Len(log) -> L]
  BY <1>3 DEF AsRead
<1>5. read \in Seq(L)
  BY <1>1, <1>4, SeqDef
<1>6. Len(read) = Len(log)
  BY <1>1, <1>4, <1>5, LenProperties
<1>7. \A i \in 1..Len(log) : read[i] = IF i <= n THEN Read(log[i]) ELSE log[i]
  BY DEF AsRead
<1> HIDE DEF read
<1>8. read \in Logs
  BY <1>5 DEF L, Logs
<1> QED BY <1>6, <1>7, <1>8 DEF read

\* One more line, behind those that are read or with all of them.
LEMMA AsReadAppend ==
    ASSUME NEW log \in Logs, NEW e \in Entry \cup {Torn}
    PROVE  /\ \A n \in 0..Len(log) : AsRead(Append(log, e), n) = Append(AsRead(log, n), e)
           /\ AsRead(Append(log, e), Len(log) + 1) =
                  Append(AsRead(log, Len(log)), Read(e))
<1> DEFINE L == Entry \cup {Torn}
<1>1. /\ Append(log, e) \in Logs /\ Len(log) \in Nat
      /\ Len(Append(log, e)) = Len(log) + 1 /\ Append(log, e)[Len(log) + 1] = e
      /\ \A i \in 1..Len(log) : Append(log, e)[i] = log[i]
  BY DEF Logs
<1>2. Read(e) \in L
  BY ReadType DEF Read
<1>3. ASSUME NEW n \in Nat, NEW d \in L, d = IF Len(log) + 1 <= n THEN Read(e) ELSE e
      PROVE  AsRead(Append(log, e), n) = Append(AsRead(log, n), d)
  <2> DEFINE left == AsRead(Append(log, e), n)
             short == AsRead(log, n)
  <2>1. /\ left \in Logs /\ Len(left) = Len(log) + 1
        /\ \A i \in 1..(Len(log) + 1) :
              left[i] = IF i <= n THEN Read(Append(log, e)[i]) ELSE Append(log, e)[i]
    BY <1>1, AsReadType
  <2>2. /\ short \in Logs /\ Len(short) = Len(log)
        /\ \A i \in 1..Len(log) : short[i] = IF i <= n THEN Read(log[i]) ELSE log[i]
    BY AsReadType
  <2> HIDE DEF left, short
  <2>3. /\ Append(short, d) \in Logs /\ Len(Append(short, d)) = Len(log) + 1
        /\ Append(short, d)[Len(log) + 1] = d
        /\ \A i \in 1..Len(log) : Append(short, d)[i] = short[i]
    BY <2>2 DEF Logs
  <2>4. ASSUME NEW i \in 1..Len(left)
        PROVE  left[i] = Append(short, d)[i]
    <3>1. CASE i = Len(log) + 1
      BY <1>1, <1>3, <2>1, <2>3, <2>4, <3>1
    <3>2. CASE i # Len(log) + 1
      <4>1. i \in 1..Len(log)
        BY <1>1, <2>1, <2>4, <3>2
      <4>2. i \in 1..(Len(log) + 1)
        BY <1>1, <4>1
      <4> QED BY <1>1, <2>1, <2>2, <2>3, <4>1, <4>2
    <3> QED BY <3>1, <3>2
  <2>5. left \in Seq(L) /\ Append(short, d) \in Seq(L)
    BY <2>1, <2>3 DEF Logs
  <2> HIDE DEF L
  <2>6. left = Append(short, d)
    BY <2>1, <2>3, <2>4, <2>5, SeqEqual
  <2> QED BY <2>6 DEF left, short
<1>4. ASSUME NEW n \in 0..Len(log)
      PROVE  AsRead(Append(log, e), n) = Append(AsRead(log, n), e)
  <2>1. n \in Nat /\ ~ (Len(log) + 1 <= n) /\ e \in L
    BY <1>1
  <2> HIDE DEF L
  <2> QED BY <1>3, <2>1
<1>5. AsRead(Append(log, e), Len(log) + 1) = Append(AsRead(log, Len(log) + 1), Read(e))
  <2>1. Len(log) + 1 \in Nat /\ Len(log) + 1 <= Len(log) + 1
    BY <1>1
  <2> HIDE DEF L
  <2> QED BY <1>2, <1>3, <2>1
<1>6. AsRead(log, Len(log) + 1) = AsRead(log, Len(log))
  <2>1. \A i \in 1..Len(log) : i <= Len(log) /\ i <= Len(log) + 1
    BY <1>1
  <2> QED BY <2>1 DEF AsRead
<1> QED BY <1>4, <1>5, <1>6

-----------------------------------------------------------------------------
(***************************************************************************)
(* Type correctness.                                                       *)
(***************************************************************************)

TypeInv == TypeOK /\ Control

\* A write, whole or not, leaves a list of lines that is no shorter.
LEMMA WriteType ==
    ASSUME lines \in Logs, NEW e \in Entry, WholeLine(e) \/ PartOfLine(e)
    PROVE  lines' \in Logs /\ unended' \in BOOLEAN /\ Len(lines') >= Len(lines)
<1> DEFINE L == Entry \cup {Torn}
<1>1. e \in L /\ Torn \in L /\ lines \in Seq(L)
  BY DEF Logs
<1>2. ASSUME NEW l \in L
      PROVE  Append(lines, l) \in Seq(L) /\ Len(Append(lines, l)) >= Len(lines)
  <2> HIDE DEF L
  <2> QED BY <1>1
<1>3. /\ [lines EXCEPT ![Len(lines)] = Torn] \in Seq(L)
      /\ Len([lines EXCEPT ![Len(lines)] = Torn]) = Len(lines)
  <2> HIDE DEF L
  <2>1. Len(lines) \in Nat /\ lines \in [1..Len(lines) -> L]
    BY <1>1
  <2>2. CASE Len(lines) = 0
    <3>1. [lines EXCEPT ![Len(lines)] = Torn] = lines
      BY <2>1, <2>2
    <3> QED BY <3>1, <1>1
  <2>3. CASE Len(lines) # 0
    <3>1. Len(lines) \in 1..Len(lines)
      BY <2>1, <2>3
    <3> QED BY <3>1, <1>1, ExceptSeq
  <2> QED BY <2>2, <2>3
<1>4. /\ unended' \in BOOLEAN
      /\ \/ lines' = [lines EXCEPT ![Len(lines)] = Torn]
         \/ \E l \in L : lines' = Append(lines, l)
  BY DEF WholeLine, PartOfLine
<1> QED
  <2> HIDE DEF L
  <2>1. Len(lines) \in Nat
    BY <1>1
  <2>2. lines' \in Seq(L) /\ Len(lines') >= Len(lines)
    BY <1>2, <1>3, <1>4, <2>1
  <2> QED BY <1>4, <2>2 DEF L, Logs

\* The entry of a call that is inside Apply.
LEMMA EntryType ==
    ASSUME TypeInv, NEW c \in Clients, pc[c] \in Inside
    PROVE  EntryOf(c) \in Entry /\ ZoneAt(c) \in Zones /\ Asked(c).change \in Change
<1>1. call[c] \in Ids /\ Asked(c) \in Requests /\ Accepted(Asked(c))
  BY DEF TypeInv, Control, Inside
<1>2. Asked(c).change \in Change /\ ZoneAt(c) \in Zones
  BY <1>1, UpdateAssumption DEF Accepted, ZoneAt
<1>3. serial[ZoneAt(c)] \in Nat
  BY <1>2 DEF TypeInv, TypeOK
<1> QED BY <1>1, <1>2, <1>3 DEF EntryOf, Entry

\* A call that goes from one place inside Apply to another, with everything
\* Control speaks of left as it is.
LEMMA MoveType ==
    ASSUME TypeInv, NEW c \in Clients, NEW from \in Inside, NEW to \in Inside,
           Step(c, from, to),
           UNCHANGED <<mode, lock, call, staged, request>>
    PROVE  /\ pc' \in [Clients -> Places]
           /\ Control'
           /\ pc[c] \in Inside
<1> USE DEF TypeInv
<1>1. pc[c] = from /\ pc' = [pc EXCEPT ![c] = to] /\ pc \in [Clients -> Places]
  BY DEF Step, TypeOK
<1>2. pc' \in [Clients -> Places] /\ pc[c] \in Inside /\ pc[c] # "idle"
  BY <1>1 DEF Inside
<1>3. mode \notin {"down", "replaying", "fatal"}
  BY <1>2 DEF Control
<1>4. ASSUME NEW d \in Clients
      PROVE  /\ pc'[d] # "idle" => call'[d] \in Ids /\ Asked(d)' \in Requests
             /\ pc'[d] \in Inside =>
                   lock' = d /\ Accepted(Asked(d)') /\ staged'[d] \in StagedChange
  <2>1. Asked(d)' = Asked(d)
    BY DEF Asked
  <2>2. CASE d = c
    BY <1>2, <2>1, <2>2 DEF Control
  <2>3. CASE d # c
    <3>1. pc'[d] = pc[d]
      BY <1>1, <2>3
    <3> QED BY <2>1, <3>1 DEF Control
  <2> QED BY <2>2, <2>3
<1>5. Control'
  BY <1>3, <1>4 DEF Control
<1> QED BY <1>2, <1>5

\* Apply returns to its caller and leaves the mutex free.
LEMMA ReturnType ==
    ASSUME TypeInv, NEW c \in Clients, NEW from \in Places \ {"idle"},
           NEW answer \in Outcomes, Return(c, from, answer),
           from \in Inside \/ lock = None,
           UNCHANGED <<mode, request>>
    PROVE  /\ pc' \in [Clients -> Places]
           /\ lock' = None
           /\ staged' \in [Clients -> StagedChange \cup {None}]
           /\ call' \in [Clients -> Ids \cup {0}]
           /\ outcome' \in [Ids -> Outcomes]
           /\ Control'
<1> USE DEF TypeInv
<1>1. /\ pc[c] = from /\ pc' = [pc EXCEPT ![c] = "idle"]
      /\ pc \in [Clients -> Places]
  BY DEF Return, Step, TypeOK
<1>2. pc' \in [Clients -> Places] /\ pc[c] # "idle"
  BY <1>1 DEF Places
<1>3. /\ lock' = None
      /\ staged' = [staged EXCEPT ![c] = None]
      /\ call' = [call EXCEPT ![c] = 0]
      /\ outcome' = [outcome EXCEPT ![call[c]] = answer]
  BY DEF Return
<1>4. /\ staged' \in [Clients -> StagedChange \cup {None}]
      /\ call' \in [Clients -> Ids \cup {0}]
      /\ outcome' \in [Ids -> Outcomes]
  BY <1>3 DEF TypeOK
<1>5. mode \notin {"down", "replaying", "fatal"}
  BY <1>2 DEF Control
<1>6. ASSUME NEW d \in Clients
      PROVE  /\ pc'[d] # "idle" => call'[d] \in Ids /\ Asked(d)' \in Requests
             /\ pc'[d] \in Inside =>
                   lock' = d /\ Accepted(Asked(d)') /\ staged'[d] \in StagedChange
  <2>1. CASE d = c
    BY <1>1, <2>1 DEF Inside
  <2>2. CASE d # c
    <3>1. pc'[d] = pc[d] /\ call'[d] = call[d]
      BY <1>1, <1>3, <2>2 DEF TypeOK
    <3>2. Asked(d)' = Asked(d)
      BY <3>1 DEF Asked
    <3>3. pc[d] \notin Inside
      BY <1>1, <2>2, UpdateAssumption DEF Control
    <3> QED BY <3>1, <3>2, <3>3 DEF Control
  <2> QED BY <2>1, <2>2
<1>7. Control'
  BY <1>5, <1>6 DEF Control
<1> QED BY <1>2, <1>3, <1>4, <1>7

\* What a fresh process holds.
LEMMA FreshMemoryType ==
    ASSUME TypeInv, FreshMemory, mode' = "down"
    PROVE  /\ records' \in [Zones -> Stores]
           /\ serial' \in [Zones -> Nat]
           /\ version' \in [Zones -> Nat]
           /\ history' \in [Zones -> Seq(Entry)]
           /\ xfer' \in [Zones -> TransferStates]
           /\ events' \in Seq(Event)
           /\ replayed' = 0
           /\ lock' = None
           /\ pc' \in [Clients -> Places]
           /\ call' \in [Clients -> Ids \cup {0}]
           /\ staged' \in [Clients -> StagedChange \cup {None}]
           /\ Control'
<1>1. \A c \in Clients : pc'[c] = "idle"
  BY DEF FreshMemory
<1>2. Control'
  BY <1>1 DEF Control, Inside
<1> QED BY <1>2, UpdateAssumption DEF FreshMemory, TransferStates, Places

\* The callers of a process that is gone are told nothing.
LEMMA LoseCallersType ==
    ASSUME TypeInv, LoseCallers
    PROVE  outcome' \in [Ids -> Outcomes]
BY DEF TypeInv, TypeOK, LoseCallers, Outcomes

\* A notification, sent or not, leaves a state and a list of events.
LEMMA NotifyType ==
    ASSUME TypeInv, NEW c \in Clients, pc[c] \in Inside, NEW sent \in BOOLEAN,
           Notify(c, sent)
    PROVE  xfer' \in [Zones -> TransferStates] /\ events' \in Seq(Event)
<1>1. ZoneAt(c) \in Zones /\ call[c] \in Ids
  BY EntryType DEF TypeInv, Control, Inside
<1>2. serial[ZoneAt(c)] \in Nat
  BY <1>1 DEF TypeInv, TypeOK
<1>3. [id |-> call[c], zone |-> ZoneAt(c), serial |-> serial[ZoneAt(c)]] \in Event
  BY <1>1, <1>2 DEF Event
<1>4. events' \in Seq(Event)
  BY <1>3 DEF Notify, TypeInv, TypeOK
<1>5. xfer' \in [Zones -> TransferStates]
  BY <1>1 DEF Notify, TransferStates, TypeInv, TypeOK
<1> QED BY <1>4, <1>5

\* Every step of a call that was made keeps the types.
LEMMA ApplyStepType ==
    ASSUME TypeInv, NEW c \in Clients, ApplyStep(c)
    PROVE  TypeInv'
<1> USE DEF zoneVars, senderVars, journalVars, processVars, callVars
<1>1. CASE Reject(c)
  <2>1. Return(c, "entered", "rejected") /\ lock = None
    BY <1>1 DEF Reject, MutexFree
  <2>2. UNCHANGED <<zoneVars, senderVars, journalVars, processVars, request>>
    BY <1>1 DEF Reject
  <2>3. "entered" \in Places \ {"idle"} /\ "rejected" \in Outcomes
    BY DEF Places, Outcomes
  <2> QED BY <2>1, <2>2, <2>3, ReturnType DEF TypeInv, TypeOK
<1>2. CASE Stage(c)
  <2>1. /\ pc[c] = "entered" /\ pc' = [pc EXCEPT ![c] = "staged"]
        /\ lock = None /\ lock' = c
        /\ Accepted(Asked(c))
        /\ UNCHANGED <<serial, version, history, senderVars, journalVars,
                       processVars, call, callVars>>
    BY <1>2 DEF Stage, Step, MutexFree
  <2>2. ZoneAt(c) \in Zones /\ Asked(c) \in Requests /\ call[c] \in Ids
    BY <2>1 DEF TypeInv, Control, Accepted, ZoneAt
  <2>3. /\ records[ZoneAt(c)] \in Stores
        /\ serial[ZoneAt(c)] \in Nat
        /\ version[ZoneAt(c)] \in Nat
    BY <2>2 DEF TypeInv, TypeOK
  <2>4. ApplyChange(records[ZoneAt(c)], Asked(c).change) \in Stores
    BY <2>2, <2>3, UpdateAssumption, ApplyChangeType
  <2>5. records' \in [Zones -> Stores]
    BY <1>2, <2>4 DEF Stage, TypeInv, TypeOK
  <2>6. /\ staged'[c] \in StagedChange
        /\ staged' \in [Clients -> StagedChange \cup {None}]
        /\ \A d \in Clients : d # c => staged'[d] = staged[d]
    BY <1>2, <2>3 DEF Stage, StagedChange, TypeInv, TypeOK
  <2>7. pc' \in [Clients -> Places]
    BY <2>1 DEF TypeInv, TypeOK, Places
  <2>8. mode \notin {"down", "replaying", "fatal"}
    BY <2>1 DEF TypeInv, Control
  <2>9. ASSUME NEW d \in Clients
        PROVE  /\ pc'[d] # "idle" => call'[d] \in Ids /\ Asked(d)' \in Requests
               /\ pc'[d] \in Inside =>
                     lock' = d /\ Accepted(Asked(d)') /\ staged'[d] \in StagedChange
    <3>1. Asked(d)' = Asked(d) /\ call'[d] = call[d]
      BY <2>1 DEF Asked
    <3>2. CASE d = c
      BY <2>1, <2>2, <2>6, <3>1, <3>2
    <3>3. CASE d # c
      <4>1. pc'[d] = pc[d]
        BY <2>1, <3>3 DEF TypeInv, TypeOK
      <4>2. pc[d] \notin Inside
        BY <2>1, UpdateAssumption DEF TypeInv, Control
      <4> QED BY <3>1, <4>1, <4>2 DEF TypeInv, Control
    <3> QED BY <3>2, <3>3
  <2>10. Control'
    BY <2>1, <2>8, <2>9 DEF Control
  <2> QED BY <2>1, <2>5, <2>6, <2>7, <2>10 DEF TypeInv, TypeOK
<1>3. CASE AppendJournal(c)
  <2>1. \E to \in Inside : Step(c, "staged", to)
    BY <1>3 DEF AppendJournal, AppendWritten, AppendWithoutFile, AppendRefused,
                AppendUnsynced, AppendTorn, Inside, Places
  <2>2. UNCHANGED <<zoneVars, senderVars, processVars, lock, call, staged, callVars>>
    BY <1>3 DEF AppendJournal, AppendWritten, AppendWithoutFile, AppendRefused,
                AppendUnsynced, AppendTorn
  <2>3. "staged" \in Inside
    BY DEF Inside, Places
  <2>4. pc' \in [Clients -> Places] /\ Control' /\ pc[c] \in Inside
    BY <2>1, <2>2, <2>3, MoveType
  <2>5. EntryOf(c) \in Entry
    BY <2>4, EntryType
  <2>6. \/ UNCHANGED journalVars
        \/ WholeLine(EntryOf(c)) \/ PartOfLine(EntryOf(c))
    BY <1>3 DEF AppendJournal, AppendWritten, AppendWithoutFile, AppendRefused,
                AppendUnsynced, AppendTorn
  <2>7. lines' \in Logs /\ unended' \in BOOLEAN /\ Len(lines') >= Len(lines)
    BY <2>5, <2>6, WriteType DEF TypeInv, TypeOK, Logs
  <2>8. replayed' \in 0..Len(lines')
    BY <2>2, <2>7 DEF TypeInv, TypeOK, Logs
  <2> QED BY <2>2, <2>4, <2>7, <2>8 DEF TypeInv, TypeOK, Logs
<1>4. CASE Rollback(c)
  <2>1. Return(c, "undo", "failed") /\ pc[c] = "undo"
    BY <1>4 DEF Rollback, Return, Step
  <2>2. "undo" \in Inside /\ "undo" \in Places \ {"idle"} /\ "failed" \in Outcomes
    BY DEF Inside, Places, Outcomes
  <2>3. UNCHANGED <<history, senderVars, journalVars, processVars, request>>
    BY <1>4 DEF Rollback
  <2>4. staged[c] \in StagedChange /\ ZoneAt(c) \in Zones
    BY <2>1, <2>2, EntryType DEF TypeInv, Control
  <2>5. /\ records' \in [Zones -> Stores]
        /\ serial' \in [Zones -> Nat]
        /\ version' \in [Zones -> Nat]
    BY <1>4, <2>4 DEF Rollback, Restored, StagedChange, TypeInv, TypeOK
  <2> QED BY <2>1, <2>2, <2>3, <2>5, ReturnType DEF TypeInv, TypeOK
<1>5. CASE CommitZone(c)
  <2>1. Step(c, "journaled", "resigning")
    BY <1>5 DEF CommitZone
  <2>2. "journaled" \in Inside /\ "resigning" \in Inside
    BY DEF Inside, Places
  <2>3. UNCHANGED <<records, serial, senderVars, journalVars, processVars, lock,
                    call, staged, callVars>>
    BY <1>5 DEF CommitZone
  <2>4. pc' \in [Clients -> Places] /\ Control' /\ pc[c] \in Inside
    BY <2>1, <2>2, <2>3, MoveType
  <2>5. EntryOf(c) \in Entry /\ ZoneAt(c) \in Zones
    BY <2>4, EntryType
  <2>6. Append(history[ZoneAt(c)], EntryOf(c)) \in Seq(Entry)
    BY <2>5 DEF TypeInv, TypeOK
  <2>7. history' \in [Zones -> Seq(Entry)] /\ version' \in [Zones -> Nat]
    BY <1>5, <2>5, <2>6 DEF CommitZone, TypeInv, TypeOK
  <2> QED BY <2>3, <2>4, <2>7 DEF TypeInv, TypeOK
<1>6. CASE Resigned(c) \/ ResignFailed(c)
  <2>1. \E to \in Inside : Step(c, "resigning", to)
    BY <1>6 DEF Resigned, ResignFailed, Inside, Places
  <2>2. "resigning" \in Inside
    BY DEF Inside, Places
  <2>3. UNCHANGED <<zoneVars, senderVars, journalVars, processVars, lock, call,
                    staged, callVars>>
    BY <1>6 DEF Resigned, ResignFailed
  <2>4. pc' \in [Clients -> Places] /\ Control'
    BY <2>1, <2>2, <2>3, MoveType
  <2> QED BY <2>3, <2>4 DEF TypeInv, TypeOK
<1>7. CASE NotifyInCommit(c)
  <2>1. Step(c, "committing", "committed")
    BY <1>7 DEF NotifyInCommit
  <2>2. "committing" \in Inside /\ "committed" \in Inside
    BY DEF Inside, Places
  <2>3. UNCHANGED <<zoneVars, journalVars, processVars, lock, call, staged, callVars>>
    BY <1>7 DEF NotifyInCommit
  <2>4. pc' \in [Clients -> Places] /\ Control' /\ pc[c] \in Inside
    BY <2>1, <2>2, <2>3, MoveType
  <2>5. PICK sent \in BOOLEAN : Notify(c, sent)
    BY <1>7 DEF NotifyInCommit, NotifyOutcomes
  <2>6. xfer' \in [Zones -> TransferStates] /\ events' \in Seq(Event)
    BY <2>4, <2>5, NotifyType
  <2> QED BY <2>3, <2>4, <2>6 DEF TypeInv, TypeOK
<1>8. CASE NotifyAndReturn(c)
  <2>1. PICK sent \in BOOLEAN :
          /\ Return(c, "committed", IF sent THEN "ok" ELSE "notify-failed")
          /\ Notify(c, sent)
    BY <1>8 DEF NotifyAndReturn, NotifyOutcomes
  <2>2. /\ "committed" \in Inside /\ "committed" \in Places \ {"idle"}
        /\ (IF sent THEN "ok" ELSE "notify-failed") \in Outcomes
    BY DEF Inside, Places, Outcomes
  <2>3. UNCHANGED <<zoneVars, journalVars, processVars, request>>
    BY <1>8 DEF NotifyAndReturn
  <2>4. pc[c] \in Inside
    BY <2>1, <2>2 DEF Return, Step
  <2>5. xfer' \in [Zones -> TransferStates] /\ events' \in Seq(Event)
    BY <2>1, <2>4, NotifyType
  <2> QED BY <2>1, <2>2, <2>3, <2>5, ReturnType DEF TypeInv, TypeOK
<1> QED BY <1>1, <1>2, <1>3, <1>4, <1>5, <1>6, <1>7, <1>8 DEF ApplyStep

\* A new call keeps the types.
LEMMA CallType ==
    ASSUME TypeInv, NEW c \in Clients, NEW r \in Requests, Call(c, r)
    PROVE  TypeInv'
<1> USE DEF zoneVars, senderVars, journalVars, processVars, callVars
<1>1. PICK id \in Ids :
        /\ request[id] = None
        /\ request' = [request EXCEPT ![id] = r]
        /\ outcome' = [outcome EXCEPT ![id] = "pending"]
        /\ call' = [call EXCEPT ![c] = id]
  BY DEF Call
<1>2. /\ mode = "serving" /\ pc[c] = "idle"
      /\ pc' = [pc EXCEPT ![c] = "entered"]
      /\ UNCHANGED <<zoneVars, senderVars, journalVars, processVars, lock, staged>>
  BY DEF Call, Step
<1>3. /\ request' \in [Ids -> Requests \cup {None}]
      /\ outcome' \in [Ids -> Outcomes]
      /\ call' \in [Clients -> Ids \cup {0}]
      /\ pc' \in [Clients -> Places]
  BY <1>1, <1>2 DEF TypeInv, TypeOK, Outcomes, Places
<1>4. ASSUME NEW d \in Clients
      PROVE  /\ pc'[d] # "idle" => call'[d] \in Ids /\ Asked(d)' \in Requests
             /\ pc'[d] \in Inside =>
                   lock' = d /\ Accepted(Asked(d)') /\ staged'[d] \in StagedChange
  <2>1. CASE d = c
    <3>1. pc'[d] = "entered" /\ call'[d] = id
      BY <1>1, <1>2, <2>1 DEF TypeInv, TypeOK
    <3>2. Asked(d)' = r
      BY <3>1, <1>1 DEF Asked, TypeInv, TypeOK
    <3> QED BY <3>1, <3>2 DEF Inside
  <2>2. CASE d # c
    <3>1. pc'[d] = pc[d] /\ call'[d] = call[d]
      BY <1>1, <1>2, <2>2 DEF TypeInv, TypeOK
    <3>2. CASE pc[d] = "idle"
      BY <3>1, <3>2 DEF Inside
    <3>3. CASE pc[d] # "idle"
      <4>1. call[d] \in Ids /\ request[call[d]] \in Requests
        BY <3>3 DEF TypeInv, Control, Asked
      <4>2. call[d] # id
        BY <4>1, <1>1, UpdateAssumption
      <4>3. Asked(d)' = Asked(d)
        BY <1>1, <3>1, <4>1, <4>2 DEF Asked, TypeInv, TypeOK
      <4> QED BY <1>2, <3>1, <4>3 DEF TypeInv, Control
    <3> QED BY <3>2, <3>3
  <2> QED BY <2>1, <2>2
<1>5. Control'
  BY <1>2, <1>4 DEF Control
<1> QED BY <1>2, <1>3, <1>5 DEF TypeInv, TypeOK

\* Control only looks at the calls, the mutex, the mode and, while the journal
\* is being replayed, at the lines.
LEMMA ControlKept ==
    ASSUME TypeInv, UNCHANGED <<lock, pc, call, staged, request>>,
           mode' \in {"down", "replaying", "fatal"} =>
               \A c \in Clients : pc[c] = "idle",
           mode' = "replaying" => \A i \in 1..Len(lines') : lines'[i] # Torn
    PROVE  Control'
<1>1. \A c \in Clients : Asked(c)' = Asked(c)
  BY DEF Asked
<1> QED BY <1>1 DEF TypeInv, Control

\* Start, replay and the end of the start keep the types.
LEMMA BootType ==
    ASSUME TypeInv, Boot
    PROVE  TypeInv'
<1> USE DEF zoneVars, senderVars, journalVars, processVars, callVars
<1>1. CASE Start
  <2>1. /\ mode = "down" /\ mode' \in Modes
        /\ mode' = "replaying" => \A i \in 1..Len(lines) : lines[i] # Torn
        /\ UNCHANGED <<zoneVars, senderVars, journalVars, stops, replayed, lock,
                       pc, call, staged, callVars>>
    BY <1>1 DEF Start, Decodes, Modes
  <2>2. Control'
    BY <2>1, ControlKept DEF TypeInv, Control
  <2> QED BY <2>1, <2>2 DEF TypeInv, TypeOK
<1>2. CASE ReplayEntry
  <2>1. /\ mode = "replaying" /\ replayed < Len(lines)
        /\ UNCHANGED <<serial, senderVars, journalVars, mode, stops, lock, pc,
                       call, staged, callVars>>
        /\ replayed' = replayed + 1
    BY <1>2 DEF ReplayEntry
  <2>2. lines \in Logs /\ replayed \in 0..Len(lines) /\ Len(lines) \in Nat
    BY DEF TypeInv, TypeOK, Logs
  <2>3. replayed + 1 \in 1..Len(lines)
    BY <2>1, <2>2
  <2> DEFINE e == Read(lines[replayed + 1])
  <2>4. e \in Entry
    <3>1. lines[replayed + 1] \in Entry
      BY <2>1, <2>2, <2>3, ElementOfSeq DEF TypeInv, Control, Logs
    <3> QED BY <3>1, ReadType
  <2>5. /\ e.zone \in Zones /\ e.change \in Change
        /\ [e EXCEPT !.serial = serial[e.zone]] \in Entry
    BY <2>4 DEF Entry, TypeInv, TypeOK
  <2>6. /\ records' = [records EXCEPT ![e.zone] = ApplyChange(@, e.change)]
        /\ version' = [version EXCEPT ![e.zone] = @ + 1]
        /\ history' = [history EXCEPT ![e.zone] =
              Append(@, [e EXCEPT !.serial = serial[e.zone]])]
    BY <1>2 DEF ReplayEntry, NextToReplay
  <2> HIDE DEF e
  <2>7. records' \in [Zones -> Stores]
    <3>1. ApplyChange(records[e.zone], e.change) \in Stores
      BY <2>5, ApplyChangeType DEF TypeInv, TypeOK
    <3> QED BY <2>6, <3>1 DEF TypeInv, TypeOK
  <2>8. version' \in [Zones -> Nat]
    BY <2>5, <2>6 DEF TypeInv, TypeOK
  <2>9. history' \in [Zones -> Seq(Entry)]
    <3>1. Append(history[e.zone], [e EXCEPT !.serial = serial[e.zone]]) \in Seq(Entry)
      BY <2>5 DEF TypeInv, TypeOK
    <3> QED BY <2>6, <3>1 DEF TypeInv, TypeOK
  <2>10. Control'
    BY <2>1, ControlKept DEF TypeInv, Control
  <2>11. replayed' \in 0..Len(lines')
    BY <2>1, <2>2, <2>3
  <2> QED BY <2>1, <2>7, <2>8, <2>9, <2>10, <2>11 DEF TypeInv, TypeOK
<1>3. CASE ReplayFails
  <2>1. /\ mode = "replaying" /\ mode' = "fatal"
        /\ UNCHANGED <<zoneVars, senderVars, journalVars, stops, replayed, lock,
                       pc, call, staged, callVars>>
    BY <1>3 DEF ReplayFails
  <2>2. Control'
    BY <2>1, ControlKept DEF TypeInv, Control
  <2> QED BY <2>1, <2>2 DEF TypeInv, TypeOK, Modes
<1>4. CASE Serve
  <2>1. /\ mode' = "serving"
        /\ UNCHANGED <<zoneVars, senderVars, journalVars, stops, replayed, lock,
                       pc, call, staged, callVars>>
    BY <1>4 DEF Serve
  <2>2. Control'
    BY <2>1, ControlKept
  <2> QED BY <2>1, <2>2 DEF TypeInv, TypeOK, Modes
<1> QED BY <1>1, <1>2, <1>3, <1>4 DEF Boot

\* A crash or an orderly end keeps the types.
LEMMA StopType ==
    ASSUME TypeInv, Stop
    PROVE  TypeInv'
<1> USE DEF zoneVars, senderVars, journalVars, processVars, callVars
<1>1. CASE Crash
  <2>1. /\ FreshMemory /\ LoseCallers /\ CrashLeaves
        /\ mode' = "down" /\ stops < MaxStops /\ stops' = stops + 1
        /\ request' = request
    BY <1>1 DEF Crash
  <2>2. lines' \in Logs /\ unended' \in BOOLEAN
    <3>1. CASE UNCHANGED journalVars
      BY <3>1 DEF TypeInv, TypeOK, Logs
    <3>2. CASE \E c \in Clients : /\ pc[c] = "staged"
                                  /\ WholeLine(EntryOf(c)) \/ PartOfLine(EntryOf(c))
      <4>1. PICK c \in Clients : /\ pc[c] = "staged"
                                 /\ WholeLine(EntryOf(c)) \/ PartOfLine(EntryOf(c))
        BY <3>2
      <4>2. EntryOf(c) \in Entry
        BY <4>1, EntryType DEF Inside, Places
      <4> QED BY <4>1, <4>2, WriteType DEF TypeInv, TypeOK, Logs
    <3> QED BY <2>1, <3>1, <3>2 DEF CrashLeaves
  <2>3. 0 \in 0..Len(lines')
    BY <2>2 DEF Logs
  <2>4. stops' \in 0..MaxStops
    BY <2>1, UpdateAssumption DEF TypeInv, TypeOK
  <2> QED BY <2>1, <2>2, <2>3, <2>4, FreshMemoryType, LoseCallersType
          DEF TypeInv, TypeOK, Logs, Modes
<1>2. CASE Shutdown
  <2>1. /\ mode' = "draining" /\ stops < MaxStops /\ stops' = stops + 1
        /\ UNCHANGED <<zoneVars, senderVars, journalVars, replayed, lock, pc,
                       call, staged, callVars>>
    BY <1>2 DEF Shutdown
  <2>2. Control'
    BY <2>1, ControlKept
  <2>3. stops' \in 0..MaxStops
    BY <2>1, UpdateAssumption DEF TypeInv, TypeOK
  <2> QED BY <2>1, <2>2, <2>3 DEF TypeInv, TypeOK, Modes
<1>3. CASE CloseJournal
  <2>1. /\ mode' = "closed"
        /\ UNCHANGED <<zoneVars, senderVars, journalVars, stops, replayed, lock,
                       pc, call, staged, callVars>>
    BY <1>3 DEF CloseJournal
  <2>2. Control'
    BY <2>1, ControlKept
  <2> QED BY <2>1, <2>2 DEF TypeInv, TypeOK, Modes
<1>4. CASE Exit
  <2>1. /\ FreshMemory /\ LoseCallers /\ mode' = "down"
        /\ UNCHANGED <<journalVars, stops, request>>
    BY <1>4 DEF Exit
  <2>2. 0 \in 0..Len(lines')
    BY <2>1 DEF TypeInv, TypeOK
  <2> QED BY <2>1, <2>2, FreshMemoryType, LoseCallersType DEF TypeInv, TypeOK, Modes
<1> QED BY <1>1, <1>2, <1>3, <1>4 DEF Stop

\* The types hold at first.
LEMMA InitType == Init => TypeInv
<1> SUFFICES ASSUME Init PROVE TypeInv
  OBVIOUS
<1>1. TypeOK
  <2>1. /\ mode \in Modes /\ stops \in 0..MaxStops
        /\ xfer \in [Zones -> TransferStates] /\ outcome \in [Ids -> Outcomes]
        /\ pc \in [Clients -> Places]
    BY UpdateAssumption DEF Init, Modes, Places, TransferStates, Outcomes
  <2>2. lines = << >> /\ lines \in Seq(Entry \cup {Torn}) /\ replayed \in 0..Len(lines)
    BY DEF Init
  <2>3. events \in Seq(Event) /\ history \in [Zones -> Seq(Entry)]
    BY DEF Init
  <2> QED BY <2>1, <2>2, <2>3, UpdateAssumption DEF Init, TypeOK
<1>2. Control
  BY DEF Init, Control, Inside
<1> QED BY <1>1, <1>2 DEF TypeInv

\* Every step keeps the types.
LEMMA StepType == TypeInv /\ [Next]_vars => TypeInv'
<1> SUFFICES ASSUME TypeInv, [Next]_vars PROVE TypeInv'
  OBVIOUS
<1>1. CASE UNCHANGED vars
  <2>1. UNCHANGED <<mode, stops, records, serial, version, history, xfer, events,
                    lines, unended, replayed, lock, pc, call, staged, request,
                    outcome>>
    BY <1>1 DEF vars, zoneVars, senderVars, journalVars, processVars, callVars
  <2>2. Control'
    BY <2>1, ControlKept DEF TypeInv, Control
  <2> QED BY <2>1, <2>2 DEF TypeInv, TypeOK
<1>2. CASE Next
  BY <1>2, CallType, ApplyStepType, BootType, StopType DEF Next
<1> QED BY <1>1, <1>2

\* The variables of the update path have their types in every state, whatever the
\* constants and whatever fails.
THEOREM TypeCorrect == Spec => []TypeOK
<1>1. TypeInv => TypeOK
  BY DEF TypeInv
<1> QED BY InitType, StepType, <1>1, PTL DEF Spec

\* One call at most is inside Apply, it holds the mutex, and it has what it needs
\* to commit or to roll back.
THEOREM OneInside == Spec => []Control
<1>1. TypeInv => Control
  BY DEF TypeInv
<1> QED BY InitType, StepType, <1>1, PTL DEF Spec

-----------------------------------------------------------------------------
(***************************************************************************)
(* A zone is what its journal says.                                        *)
(***************************************************************************)

\* The file takes whole lines or none and an update that has its line is not
\* undone; calls may be refused and the process may die at any step.
Dependable == Durable /\ Faults \subseteq {"refuse", "notify", "crash"}

\* The places between the staging of an update and its line.
Unwritten == {"staged", "undo"}

\* A step that touches neither the zones, the file nor an unwritten update.
LEMMA SyncedKept ==
    ASSUME TypeInv, Synced,
           UNCHANGED <<records, lines, unended, replayed>>,
           mode \in {"serving", "draining"}, mode' \in {"serving", "draining"},
           \A c \in Clients : pc'[c] \in Unwritten <=> pc[c] \in Unwritten,
           \A c \in Clients : pc[c] \in Unwritten =>
               staged'[c] = staged[c] /\ Asked(c)' = Asked(c)
    PROVE  Synced'
<1>1. \A z \in Zones : InMemory(z)' = InMemory(z)
  BY DEF InMemory, AsTaken
<1>2. \A c \in Clients : pc[c] \in Unwritten => ZoneAt(c)' = ZoneAt(c)
  BY DEF ZoneAt
<1>3. ASSUME NEW z \in Zones
      PROVE  \/ records'[z] = InMemory(z)'
             \/ \E c \in Clients : pc'[c] \in Unwritten /\ ZoneAt(c)' = z
  BY <1>1, <1>2 DEF Synced, Unwritten
<1>4. ASSUME NEW c \in Clients, pc'[c] \in Unwritten
      PROVE  /\ staged'[c].before = InMemory(ZoneAt(c))'
             /\ records'[ZoneAt(c)'] = ApplyChange(staged'[c].before, Asked(c)'.change)
  <2>1. pc[c] \in Unwritten /\ ZoneAt(c)' = ZoneAt(c)
    BY <1>2, <1>4
  <2>2. InMemory(ZoneAt(c))' = InMemory(ZoneAt(c))
    BY <2>1 DEF InMemory, AsTaken
  <2> QED BY <2>1, <2>2 DEF Synced, Unwritten
<1> QED BY <1>3, <1>4 DEF Synced, Unwritten

\* Only the holder of the mutex has an unwritten update.
LEMMA OneUnwritten ==
    ASSUME TypeInv, NEW c \in Clients, pc[c] \in Inside \/ lock = None,
           NEW d \in Clients, d # c
    PROVE  pc[d] \notin Inside
BY UpdateAssumption DEF TypeInv, Control

\* Staging a change remembers what the journal says of the zone.
LEMMA SyncedStage ==
    ASSUME TypeInv, Synced, NEW c \in Clients, Stage(c)
    PROVE  Synced'
<1> USE DEF journalVars, processVars, callVars
<1>1. /\ pc[c] = "entered" /\ pc' = [pc EXCEPT ![c] = "staged"]
      /\ lock = None /\ Accepted(Asked(c))
      /\ UNCHANGED <<journalVars, processVars, call, callVars>>
      /\ staged'[c].before = records[ZoneAt(c)]
      /\ records' = [records EXCEPT ![ZoneAt(c)] = ApplyChange(@, Asked(c).change)]
  BY DEF Stage, Step, MutexFree, TypeInv, TypeOK
<1>2. \A d \in Clients : pc[d] \notin Inside
  BY <1>1, UpdateAssumption DEF TypeInv, Control
<1>3. \A d \in Clients : d # c => pc'[d] \notin Unwritten
  BY <1>1, <1>2 DEF TypeInv, TypeOK, Inside, Places, Unwritten
<1>4. mode \in {"serving", "draining", "closed"} /\ mode # "closed"
  BY <1>1 DEF TypeInv, TypeOK, Control, Modes, Synced
<1>5. \A z \in Zones : records[z] = InMemory(z)
  BY <1>2, <1>4 DEF Synced, Inside, Places
<1>6. ZoneAt(c) \in Zones
  BY <1>1 DEF Accepted, ZoneAt
<1>7. /\ Asked(c)' = Asked(c) /\ ZoneAt(c)' = ZoneAt(c)
      /\ \A z \in Zones : InMemory(z)' = InMemory(z)
  BY <1>1 DEF Asked, ZoneAt, InMemory, AsTaken
<1>8. /\ staged'[c].before = InMemory(ZoneAt(c))
      /\ records'[ZoneAt(c)] = ApplyChange(staged'[c].before, Asked(c).change)
      /\ \A z \in Zones : z # ZoneAt(c) => records'[z] = InMemory(z)
  BY <1>1, <1>5, <1>6 DEF TypeInv, TypeOK
<1>9. pc'[c] = "staged"
  BY <1>1 DEF TypeInv, TypeOK
<1>10. \A z \in Zones : \/ records'[z] = InMemory(z)'
                        \/ pc'[c] \in Unwritten /\ ZoneAt(c)' = z
  BY <1>7, <1>8, <1>9 DEF Unwritten
<1>11. InMemory(ZoneAt(c))' = InMemory(ZoneAt(c))
  BY <1>1, <1>7 DEF InMemory, AsTaken
<1>12. ASSUME NEW d \in Clients, pc'[d] \in Unwritten
       PROVE  /\ staged'[d].before = InMemory(ZoneAt(d))'
              /\ records'[ZoneAt(d)'] = ApplyChange(staged'[d].before, Asked(d)'.change)
  <2>1. d = c
    BY <1>3, <1>12
  <2> QED BY <2>1, <1>7, <1>8, <1>11
<1> QED BY <1>1, <1>4, <1>10, <1>12 DEF Synced, Unwritten

\* A line written brings the journal level with the zone; a line refused
\* leaves the update unwritten.
LEMMA SyncedAppend ==
    ASSUME Dependable, TypeInv, Synced, NEW c \in Clients, AppendJournal(c)
    PROVE  Synced'
<1> USE DEF zoneVars, journalVars, processVars, callVars
<1>1. /\ pc[c] = "staged" /\ pc \in [Clients -> Places]
      /\ UNCHANGED <<zoneVars, processVars, lock, call, staged, callVars>>
  BY DEF AppendJournal, AppendWritten, AppendWithoutFile, AppendRefused,
         AppendUnsynced, AppendTorn, Step, TypeInv, TypeOK
<1>2. mode \in {"serving", "draining"}
  BY <1>1 DEF TypeInv, TypeOK, Control, Modes, Synced
<1>3. pc[c] \in Inside /\ pc[c] \in Unwritten
  BY <1>1 DEF Inside, Places, Unwritten
<1>4. \A d \in Clients : Asked(d)' = Asked(d) /\ ZoneAt(d)' = ZoneAt(d)
  BY <1>1 DEF Asked, ZoneAt
<1>5. CASE AppendRefused(c)
  <2>1. pc' = [pc EXCEPT ![c] = "undo"] /\ UNCHANGED journalVars
    BY <1>5 DEF AppendRefused, Step
  <2>2. \A d \in Clients : pc'[d] \in Unwritten <=> pc[d] \in Unwritten
    BY <1>1, <2>1 DEF Unwritten
  <2> QED BY <1>1, <1>2, <1>4, <2>1, <2>2, SyncedKept
<1>6. CASE AppendWritten(c)
  <2> DEFINE e == EntryOf(c)
  <2>1. e \in Entry /\ ZoneAt(c) \in Zones /\ e # Torn
        /\ e.zone = ZoneAt(c) /\ e.change = Asked(c).change
    BY <1>3, EntryType, UpdateAssumption DEF EntryOf
  <2>2. lines \in Logs /\ unended = FALSE
    BY DEF TypeInv, TypeOK, Logs, Synced
  <2>3. lines' = Append(lines, e) /\ unended' = FALSE
        /\ pc' = [pc EXCEPT ![c] = "journaled"]
    BY <1>6, <2>2 DEF AppendWritten, WholeLine, Step
  <2> HIDE DEF e
  <2>4. \A i \in 1..Len(lines') : lines'[i] # Torn
    BY <2>1, <2>2, <2>3 DEF Synced, Logs
  <2>5. \A d \in Clients : pc'[d] \notin Unwritten
    <3> TAKE d \in Clients
    <3>1. CASE d = c
      BY <1>1, <2>3, <3>1 DEF Unwritten
    <3>2. CASE d # c
      BY <1>1, <1>3, <2>3, <3>2, OneUnwritten DEF Unwritten, Inside, Places
    <3> QED BY <3>1, <3>2
  <2>6. ASSUME NEW z \in Zones PROVE records'[z] = InMemory(z)'
    <3>1. InMemory(z)' = Effect(z, {}, InMemory(z), e)
      <4>1. AsTaken' = Append(AsTaken, e)
        <5>1. replayed \in 0..Len(lines) /\ replayed' = replayed
          BY <1>1 DEF TypeInv, TypeOK
        <5> QED BY <2>1, <2>2, <2>3, <5>1, AsReadAppend DEF AsTaken
      <4>2. AsTaken \in Logs
        BY <2>2, AsReadType DEF AsTaken
      <4> QED BY <2>1, <4>1, <4>2, ReplayAppend DEF InMemory
    <3>2. CASE z = ZoneAt(c)
      <4>1. InMemory(z)' = ApplyChange(InMemory(z), Asked(c).change)
        BY <3>1, <3>2, <2>1 DEF Effect
      <4> QED BY <4>1, <3>2, <1>1, <1>3 DEF Synced, Unwritten
    <3>3. CASE z # ZoneAt(c)
      <4>1. InMemory(z)' = InMemory(z)
        BY <3>1, <3>3, <2>1 DEF Effect
      <4>2. \A d \in Clients : pc[d] \in Unwritten => d = c
        BY <1>3, OneUnwritten DEF Unwritten, Inside, Places
      <4>3. records[z] = InMemory(z)
        BY <4>2, <3>3, <1>2 DEF Synced, Unwritten
      <4> QED BY <4>1, <4>3, <1>1
    <3> QED BY <3>2, <3>3
  <2> QED BY <1>1, <1>2, <2>3, <2>4, <2>5, <2>6 DEF Synced, Unwritten
<1>7. ~ AppendWithoutFile(c) /\ ~ AppendUnsynced(c) /\ ~ AppendTorn(c)
  BY <1>2 DEF AppendWithoutFile, AppendUnsynced, AppendTorn, FileOpen, Dependable
<1> QED BY <1>5, <1>6, <1>7 DEF AppendJournal

\* A rollback puts back what the journal says of the zone.
LEMMA SyncedRollback ==
    ASSUME TypeInv, Synced, NEW c \in Clients, Rollback(c)
    PROVE  Synced'
<1> USE DEF journalVars, processVars
<1>1. /\ pc[c] = "undo" /\ pc \in [Clients -> Places]
      /\ pc' = [pc EXCEPT ![c] = "idle"]
      /\ records' = [records EXCEPT ![ZoneAt(c)] = staged[c].before]
      /\ UNCHANGED <<journalVars, processVars>>
  BY DEF Rollback, Return, Restored, Step, TypeInv, TypeOK
<1>2. pc[c] \in Inside /\ pc[c] \in Unwritten
  BY <1>1 DEF Inside, Places, Unwritten
<1>3. mode \in {"serving", "draining"}
  BY <1>1 DEF TypeInv, TypeOK, Control, Modes, Synced
<1>4. \A d \in Clients : pc[d] \in Unwritten => d = c
  BY <1>2, OneUnwritten DEF Unwritten, Inside, Places
<1>5. \A d \in Clients : pc'[d] \notin Unwritten
  BY <1>1, <1>4 DEF Unwritten
<1>6. ASSUME NEW z \in Zones PROVE records'[z] = InMemory(z)'
  <2>1. InMemory(z)' = InMemory(z)
    BY <1>1 DEF InMemory, AsTaken
  <2>2. CASE z = ZoneAt(c)
    BY <1>1, <1>2, <2>1, <2>2 DEF Synced, Unwritten, TypeInv, TypeOK
  <2>3. CASE z # ZoneAt(c)
    <3>1. records[z] = InMemory(z)
      BY <1>3, <1>4, <2>3 DEF Synced, Unwritten
    <3> QED BY <1>1, <2>1, <2>3, <3>1 DEF TypeInv, TypeOK
  <2> QED BY <2>2, <2>3
<1> QED BY <1>1, <1>3, <1>5, <1>6 DEF Synced, Unwritten

\* The steps of a call before it stages and after its line is written.
LEMMA SyncedElsewhere ==
    ASSUME Dependable, TypeInv, Synced, NEW c \in Clients,
           Reject(c) \/ CommitZone(c) \/ Resigned(c) \/ ResignFailed(c)
               \/ NotifyInCommit(c) \/ NotifyAndReturn(c)
    PROVE  Synced'
<1> USE DEF zoneVars, senderVars, journalVars, processVars, callVars
<1>1. PICK from \in Places \ Unwritten, to \in Places \ Unwritten :
        from # "idle" /\ Step(c, from, to)
  BY DEF Reject, CommitZone, Resigned, ResignFailed, NotifyInCommit,
         NotifyAndReturn, Return, Places, Unwritten, Dependable
<1>2. /\ pc[c] = from /\ pc' = [pc EXCEPT ![c] = to] /\ pc \in [Clients -> Places]
  BY <1>1 DEF Step, TypeInv, TypeOK
<1>3. UNCHANGED <<mode, records, lines, unended, replayed, request>>
  BY DEF Reject, CommitZone, Resigned, ResignFailed, NotifyInCommit,
         NotifyAndReturn, Dependable
<1>4. \A d \in Clients : pc'[d] \in Unwritten <=> pc[d] \in Unwritten
  BY <1>1, <1>2
<1>5. mode \in {"serving", "draining"}
  BY <1>1, <1>2 DEF TypeInv, TypeOK, Control, Modes, Synced
<1>6. ASSUME NEW d \in Clients, pc[d] \in Unwritten
      PROVE  staged'[d] = staged[d] /\ Asked(d)' = Asked(d)
  <2>1. d # c
    BY <1>1, <1>2, <1>6
  <2>2. staged'[d] = staged[d] /\ call'[d] = call[d]
    BY <2>1 DEF Reject, CommitZone, Resigned, ResignFailed, NotifyInCommit,
                NotifyAndReturn, Return, TypeInv, TypeOK
  <2> QED BY <1>3, <2>2 DEF Asked
<1> QED BY <1>3, <1>4, <1>5, <1>6, SyncedKept

\* The other steps of clients leave memory and journal in step.
LEMMA SyncedCall ==
    ASSUME TypeInv, Synced, NEW c \in Clients, NEW r \in Requests, Call(c, r)
    PROVE  Synced'
<1> USE DEF zoneVars, journalVars, processVars
<1>1. PICK id \in Ids :
        /\ request[id] = None
        /\ request' = [request EXCEPT ![id] = r]
        /\ call' = [call EXCEPT ![c] = id]
  BY DEF Call
<1>2. /\ mode = "serving" /\ pc[c] = "idle"
      /\ pc' = [pc EXCEPT ![c] = "entered"]
      /\ UNCHANGED <<zoneVars, journalVars, processVars, staged>>
  BY DEF Call, Step
<1>3. \A d \in Clients : pc'[d] \in Unwritten <=> pc[d] \in Unwritten
  BY <1>2 DEF Unwritten, TypeInv, TypeOK
<1>4. ASSUME NEW d \in Clients, pc[d] \in Unwritten
      PROVE  staged'[d] = staged[d] /\ Asked(d)' = Asked(d)
  <2>1. d # c /\ pc[d] # "idle"
    BY <1>2, <1>4 DEF Unwritten
  <2>2. call[d] \in Ids /\ request[call[d]] \in Requests /\ call'[d] = call[d]
    BY <1>1, <2>1 DEF TypeInv, TypeOK, Control, Asked
  <2>3. call[d] # id
    BY <1>1, <2>2, UpdateAssumption
  <2> QED BY <1>1, <1>2, <2>2, <2>3 DEF Asked, TypeInv, TypeOK
<1> QED BY <1>2, <1>3, <1>4, SyncedKept

\* A start rebuilds the zones line by line.
LEMMA SyncedBoot ==
    ASSUME TypeInv, Synced, Boot
    PROVE  Synced'
<1> USE DEF zoneVars, journalVars, callVars
<1>1. /\ mode \in {"down", "replaying"} /\ UNCHANGED <<journalVars, pc>>
  BY DEF Boot, Start, ReplayEntry, ReplayFails, Serve
<1>2. /\ \A c \in Clients : pc'[c] = "idle"
      /\ lines \in Logs /\ Len(lines) \in Nat /\ replayed \in 0..Len(lines)
      /\ OnDisk' = OnDisk
  BY <1>1 DEF TypeInv, TypeOK, Control, OnDisk, Logs
<1> DEFINE disk == OnDisk
<1>7. /\ disk \in Logs /\ Len(disk) = Len(lines) /\ disk' = disk
      /\ \A i \in 1..Len(lines) : disk[i] = Read(lines[i])
  <2>1. \A i \in 1..Len(lines) : i <= Len(lines)
    BY <1>2
  <2> QED BY <1>2, <2>1, AsReadType DEF OnDisk
<1> HIDE DEF disk
<1>3. CASE Start
  <2>1. /\ mode' \in {"fatal", "replaying"} /\ replayed = 0 /\ records = Seeds
        /\ UNCHANGED <<records, replayed>>
    BY <1>3 DEF Start, Synced
  <2>2. ASSUME NEW z \in Zones
        PROVE  records'[z] = ReplayUpTo(z, disk', {})[replayed']
    <3>1. ReplayUpTo(z, disk, {})[0] = Seeds[z]
      BY <1>2, <1>7, ReplaySolves DEF ReplayStep
    <3> QED BY <1>7, <2>1, <3>1
  <2> QED BY <1>1, <1>2, <2>1, <2>2 DEF Synced, disk
<1>4. CASE ReplayEntry
  <2> DEFINE e == Read(lines[replayed + 1])
  <2>1. /\ mode = "replaying" /\ mode' = mode /\ replayed < Len(lines)
        /\ replayed' = replayed + 1
        /\ records' = [records EXCEPT ![e.zone] = ApplyChange(@, e.change)]
    BY <1>4 DEF ReplayEntry, NextToReplay
  <2>2. /\ replayed' \in 0..Len(lines) /\ replayed' # 0
        /\ replayed' - 1 = replayed /\ replayed' \in 1..Len(lines)
        /\ disk[replayed'] = e
    BY <1>2, <1>7, <2>1
  <2>3. e # Torn /\ e \in Entry
    <3>1. lines[replayed + 1] \in Entry
      BY <1>2, <2>1, <2>2, ElementOfSeq DEF Synced, Logs
    <3> QED BY <3>1, ReadType
  <2>4. e.zone \in Zones
    BY <2>3 DEF Entry
  <2> HIDE DEF e
  <2>5. ASSUME NEW z \in Zones
        PROVE  records'[z] = ReplayUpTo(z, disk', {})[replayed']
    <3>1. ReplayUpTo(z, disk, {})[replayed'] =
              ReplayStep(z, disk, {}, ReplayUpTo(z, disk, {}), replayed')
      BY <1>7, <2>2, ReplaySolves
    <3>2. ReplayUpTo(z, disk, {})[replayed'] =
              Effect(z, {}, ReplayUpTo(z, disk, {})[replayed], e)
      BY <2>2, <3>1 DEF ReplayStep
    <3>3. records[z] = ReplayUpTo(z, disk, {})[replayed]
      BY <2>1 DEF Synced, disk
    <3>4. records'[z] = Effect(z, {}, records[z], e)
      BY <2>1, <2>3, <2>4 DEF Effect, TypeInv, TypeOK
    <3> QED BY <1>7, <3>2, <3>3, <3>4
  <2> QED BY <1>1, <1>2, <2>1, <2>5 DEF Synced, disk
<1>5. CASE ReplayFails
  <2>1. mode' = "fatal"
    BY <1>5 DEF ReplayFails
  <2> QED BY <1>1, <1>2, <2>1 DEF Synced
<1>6. CASE Serve
  <2>1. /\ mode = "replaying" /\ mode' = "serving" /\ replayed = Len(lines)
        /\ UNCHANGED <<records, lines, replayed>>
    BY <1>6 DEF Serve, processVars
  <2>2. \A z \in Zones : records'[z] = InMemory(z)'
    <3>1. AsTaken' = OnDisk
      BY <2>1 DEF AsTaken, OnDisk
    <3>2. \A z \in Zones : InMemory(z)' = ReplayOf(z, OnDisk, {})
      BY <3>1 DEF InMemory
    <3>3. \A z \in Zones : records[z] = ReplayOf(z, OnDisk, {})
      BY <1>7, <2>1 DEF Synced, ReplayOf, disk
    <3> QED BY <2>1, <3>2, <3>3
  <2> QED BY <1>1, <1>2, <2>1, <2>2 DEF Synced
<1> QED BY <1>3, <1>4, <1>5, <1>6 DEF Boot

\* A stop leaves the seeds in memory and a file that decodes.
LEMMA SyncedStop ==
    ASSUME Dependable, TypeInv, Synced, Stop
    PROVE  Synced'
<1> USE DEF zoneVars, journalVars, callVars
<1>1. CASE Crash
  <2>1. /\ mode' = "down" /\ records' = Seeds /\ replayed' = 0
        /\ \A c \in Clients : pc'[c] = "idle"
        /\ CrashLeaves
    BY <1>1 DEF Crash, FreshMemory
  <2>2. unended' = FALSE /\ \A i \in 1..Len(lines') : lines'[i] # Torn
    <3>1. CASE UNCHANGED journalVars
      BY <3>1 DEF Synced
    <3>2. CASE \E c \in Clients : pc[c] = "staged" /\ WholeLine(EntryOf(c))
      <4>1. PICK c \in Clients : pc[c] = "staged" /\ WholeLine(EntryOf(c))
        BY <3>2
      <4>2. EntryOf(c) \in Entry /\ EntryOf(c) # Torn
        BY <4>1, EntryType, UpdateAssumption DEF Inside, Places
      <4>3. unended' = FALSE /\ lines' = Append(lines, EntryOf(c))
        BY <4>1 DEF WholeLine, Synced
      <4> QED BY <4>2, <4>3 DEF Synced, TypeInv, TypeOK
    <3> QED BY <2>1, <3>1, <3>2 DEF CrashLeaves, Dependable
  <2> QED BY <2>1, <2>2 DEF Synced
<1>2. CASE Shutdown
  <2>1. /\ mode = "serving" /\ mode' = "draining"
        /\ UNCHANGED <<records, lines, unended, replayed, pc, call, staged, request>>
    BY <1>2 DEF Shutdown
  <2>2. \A c \in Clients : Asked(c)' = Asked(c)
    BY <2>1 DEF Asked
  <2> QED BY <2>1, <2>2, SyncedKept
<1>3. CASE CloseJournal
  <2>1. /\ mode = "draining" /\ mode' = "closed"
        /\ \A c \in Clients : pc[c] = "idle"
        /\ UNCHANGED <<records, lines, unended, replayed, pc, call, staged, request>>
    BY <1>3 DEF CloseJournal, Drained, Dependable
  <2>2. \A z \in Zones : InMemory(z)' = InMemory(z)
    BY <2>1 DEF InMemory, AsTaken
  <2> QED BY <2>1, <2>2 DEF Synced
<1>4. CASE Exit
  BY <1>4 DEF Exit, FreshMemory, Synced
<1> QED BY <1>1, <1>2, <1>3, <1>4 DEF Stop

\* Memory and journal are in step at first.
LEMMA SyncedInit == Init => Synced
BY DEF Init, Synced

\* Every step keeps memory and journal in step.
LEMMA SyncedStep == Dependable => (TypeInv /\ Synced /\ [Next]_vars => Synced')
<1> SUFFICES ASSUME Dependable, TypeInv, Synced, [Next]_vars PROVE Synced'
  OBVIOUS
<1>1. CASE UNCHANGED vars
  <2>1. UNCHANGED <<mode, records, lines, unended, replayed, pc, call, staged, request>>
    BY <1>1 DEF vars, zoneVars, journalVars, processVars, callVars
  <2>2. /\ \A z : InMemory(z)' = InMemory(z)
        /\ OnDisk' = OnDisk
        /\ \A c \in Clients : Asked(c)' = Asked(c) /\ ZoneAt(c)' = ZoneAt(c)
    BY <2>1 DEF InMemory, AsTaken, OnDisk, Asked, ZoneAt
  <2>3. \A c \in Clients : InMemory(ZoneAt(c))' = InMemory(ZoneAt(c))
    BY <2>1, <2>2 DEF InMemory, AsTaken
  <2> QED BY <2>1, <2>2, <2>3 DEF Synced
<1>2. CASE Next
  BY <1>2, SyncedCall, SyncedStage, SyncedAppend, SyncedRollback, SyncedElsewhere,
     SyncedBoot, SyncedStop DEF Next, ApplyStep
<1> QED BY <1>1, <1>2

\* A journal in step is the zone when no update is under way.
LEMMA SyncedMatches == TypeInv /\ Synced => ZoneMatchesJournal
<1> SUFFICES ASSUME TypeInv, Synced, Quiet, NEW z \in Zones, Verbatim(z)
             PROVE  records[z] = Durably(z)
  BY DEF ZoneMatchesJournal
<1>1. \A c \in Clients : pc[c] \notin Unwritten
  BY UpdateAssumption DEF TypeInv, Control, Quiet, Inside, Places, Unwritten
<1>2. records[z] = InMemory(z)
  BY <1>1 DEF Synced, Quiet, Unwritten
<1>3. lines \in Logs /\ Len(lines) \in Nat /\ replayed \in 0..Len(lines)
  BY DEF TypeInv, TypeOK, Logs
<1>4. /\ AsTaken \in Logs /\ Len(AsTaken) = Len(lines)
      /\ \A i \in 1..Len(lines) :
            AsTaken[i] = IF i <= replayed THEN Read(lines[i]) ELSE lines[i]
  BY <1>3, AsReadType DEF AsTaken
<1>5. /\ OnDisk \in Logs /\ Len(OnDisk) = Len(lines)
      /\ \A i \in 1..Len(lines) : OnDisk[i] = Read(lines[i])
  <2>1. \A i \in 1..Len(lines) : i <= Len(lines)
    BY <1>3
  <2> QED BY <1>3, <2>1, AsReadType DEF OnDisk
<1>6. ASSUME NEW i \in 1..Len(lines), NEW st
      PROVE  Effect(z, {}, st, AsTaken[i]) = Effect(z, {}, st, OnDisk[i])
  <2>1. CASE i <= replayed \/ Read(lines[i]) = lines[i]
    BY <1>4, <1>5, <2>1
  <2>2. CASE ~ (i <= replayed) /\ Read(lines[i]) # lines[i]
    <3>1. i \in (replayed + 1)..Len(lines)
      BY <1>3, <2>2
    <3>2. lines[i] # Torn /\ lines[i].zone # z
      BY <2>2, <3>1 DEF Verbatim, Read
    <3>3. lines[i] \in Entry
      BY <1>3, <3>2, ElementOfSeq DEF Logs
    <3>4. Read(lines[i]) # Torn /\ Read(lines[i]).zone # z
      BY <3>2, <3>3, ReadType
    <3> QED BY <1>4, <1>5, <2>2, <3>2, <3>4 DEF Effect
  <2> QED BY <2>1, <2>2
<1>7. ReplayOf(z, AsTaken, {}) = ReplayOf(z, OnDisk, {})
  <2>1. /\ Len(AsTaken) = Len(OnDisk)
        /\ \A i \in 1..Len(AsTaken) : \A st :
              Effect(z, {}, st, AsTaken[i]) = Effect(z, {}, st, OnDisk[i])
    BY <1>4, <1>5, <1>6
  <2> QED BY <1>4, <1>5, <2>1, SameEffects
<1> QED BY <1>2, <1>7 DEF InMemory, Durably

\* With a dependable journal, whenever no update is under way a zone in memory is
\* what a restart would rebuild of it, if JSON changed no text written since the
\* start: no interleaving of updates, failures, crashes, shutdowns and replays
\* makes them drift apart.
THEOREM MemoryMatchesJournal == Dependable => (Spec => []ZoneMatchesJournal)
<1> SUFFICES ASSUME Dependable PROVE Spec => []ZoneMatchesJournal
  OBVIOUS
<1>1. TypeInv /\ Synced => ZoneMatchesJournal
  BY SyncedMatches
<1>2. Init => TypeInv /\ Synced
  BY InitType, SyncedInit
<1>3. TypeInv /\ Synced /\ [Next]_vars => TypeInv' /\ Synced'
  BY StepType, SyncedStep
<1> QED BY <1>1, <1>2, <1>3, PTL DEF Spec

-----------------------------------------------------------------------------
(***************************************************************************)
(* What was acknowledged is in the journal, once.                          *)
(***************************************************************************)

\* Writes are whole, though a sync or a hook may fail after one, and no handler
\* outlives the file.
Whole == "torn" \notin Faults /\ "deadline" \notin Faults

\* What is in the file can be read, and nobody is left to write when it is closed.
FileWhole ==
    /\ unended = FALSE
    /\ \A i \in 1..Len(lines) : lines[i] # Torn
    /\ mode = "closed" => \A c \in Clients : pc[c] = "idle"

\* The places of a call before and after its line is written; one whose append
\* or hook failed may be on either side.
Before == {"entered", "staged"}
After  == {"journaled", "resigning", "committing", "committed"}

\* Every line is of one call that was made, and was written between the staging
\* and the commit of that call; nobody is told of success without one.
Filed ==
    /\ LinesOnce
    /\ \A id \in Ids :
          /\ Journaled(id) => request[id] # None
          /\ Acknowledged(id) => Journaled(id)
    /\ \A c \in Clients :
          /\ pc[c] \in Before => ~ Journaled(call[c])
          /\ pc[c] \in After => Journaled(call[c])
          /\ \A d \in Clients :
                pc[c] # "idle" /\ pc[d] # "idle" /\ call[c] = call[d] => c = d

FiledInv == TypeInv /\ FileWhole /\ Filed

\* A new line with a new identifier.
LEMMA OneMoreLine ==
    ASSUME TypeInv, FileWhole, LinesOnce, NEW e \in Entry, ~ Journaled(e.id),
           lines' = Append(lines, e)
    PROVE  /\ LinesOnce'
           /\ \A id : Journaled(id)' <=> Journaled(id) \/ id = e.id
           /\ \A i \in 1..Len(lines') : lines'[i] # Torn
<1>1. /\ lines \in Logs /\ Len(lines) \in Nat
      /\ Len(lines') = Len(lines) + 1 /\ lines'[Len(lines) + 1] = e
      /\ \A i \in 1..Len(lines) : lines'[i] = lines[i] /\ lines[i] # Torn
  BY DEF TypeInv, TypeOK, Logs, FileWhole
<1>2. \A i \in 1..Len(lines') : i \in 1..Len(lines) \/ i = Len(lines) + 1
  BY <1>1
<1>3. e # Torn
  BY UpdateAssumption
<1>4. \A i \in 1..Len(lines) : lines[i].id # e.id
  BY <1>1 DEF Journaled
<1>5. ASSUME NEW i \in 1..Len(lines'), NEW j \in 1..Len(lines'),
             lines'[i].id = lines'[j].id
      PROVE  i = j
  BY <1>1, <1>2, <1>4, <1>5 DEF LinesOnce
<1>6. ASSUME NEW id
      PROVE  Journaled(id)' <=> Journaled(id) \/ id = e.id
  <2>1. Journaled(id)' => Journaled(id) \/ id = e.id
    BY <1>1, <1>2 DEF Journaled
  <2>2. Journaled(id) => Journaled(id)'
    <3> SUFFICES ASSUME Journaled(id) PROVE Journaled(id)'
      OBVIOUS
    <3>1. PICK i \in 1..Len(lines) : lines[i] # Torn /\ lines[i].id = id
      BY DEF Journaled
    <3>2. i \in 1..Len(lines') /\ lines'[i] = lines[i]
      BY <1>1
    <3> QED BY <3>1, <3>2 DEF Journaled
  <2>3. id = e.id => Journaled(id)'
    <3>1. Len(lines) + 1 \in 1..Len(lines')
      BY <1>1
    <3> QED BY <1>1, <1>3, <3>1 DEF Journaled
  <2> QED BY <2>1, <2>2, <2>3
<1>7. \A i \in 1..Len(lines') : lines'[i] # Torn
  BY <1>1, <1>2, <1>3
<1> QED BY <1>5, <1>6, <1>7 DEF LinesOnce

\* A call returns, fails, or stays on its side of the line.
StaysOnSide(c) ==
    /\ \/ pc'[c] \in {"idle", "undo", pc[c]}
       \/ pc[c] \in Before /\ pc'[c] \in Before
       \/ pc[c] \in After /\ pc'[c] \in After
    /\ pc'[c] # "idle" => pc[c] # "idle" /\ call'[c] = call[c]

\* A step that writes no line, makes no call and acknowledges nothing that is
\* not journaled.
LEMMA FiledKept ==
    ASSUME TypeInv, Filed, UNCHANGED <<lines, request>>,
           \A c \in Clients : StaysOnSide(c),
           \A id \in Ids : Acknowledged(id)' => Acknowledged(id) \/ Journaled(id)
    PROVE  Filed'
<1> USE DEF StaysOnSide
<1>1. \A id : Journaled(id)' <=> Journaled(id)
  BY DEF Journaled
<1>2. \A id \in Ids : /\ Journaled(id)' => request'[id] # None
                      /\ Acknowledged(id)' => Journaled(id)'
  BY <1>1 DEF Filed
<1>3. ASSUME NEW c \in Clients
      PROVE  /\ pc'[c] \in Before => ~ Journaled(call[c])'
             /\ pc'[c] \in After => Journaled(call[c])'
             /\ \A d \in Clients :
                   pc'[c] # "idle" /\ pc'[d] # "idle" /\ call'[c] = call'[d] => c = d
  <2>1. CASE pc'[c] = "idle"
    BY <2>1 DEF Before, After
  <2>2. CASE pc'[c] # "idle"
    <3>1. call'[c] = call[c] /\ (Journaled(call[c])' <=> Journaled(call[c]))
      BY <1>1, <2>2
    <3> QED BY <2>2, <3>1 DEF Filed, Before, After
  <2> QED BY <2>1, <2>2
<1>4. LinesOnce'
  BY DEF Filed, LinesOnce
<1> QED BY <1>2, <1>3, <1>4 DEF Filed

\* A new call has an identifier that no line carries.
LEMMA FiledCall ==
    ASSUME TypeInv, Filed, NEW c \in Clients, NEW r \in Requests, Call(c, r)
    PROVE  Filed'
<1> USE DEF zoneVars, journalVars, processVars
<1>1. PICK id \in Ids :
        /\ request[id] = None
        /\ request' = [request EXCEPT ![id] = r]
        /\ outcome' = [outcome EXCEPT ![id] = "pending"]
        /\ call' = [call EXCEPT ![c] = id]
  BY DEF Call
<1>2. /\ pc[c] = "idle" /\ pc' = [pc EXCEPT ![c] = "entered"]
      /\ UNCHANGED journalVars
  BY DEF Call, Step
<1>3. /\ pc'[c] = "entered" /\ call'[c] = id
      /\ \A d \in Clients : d # c => pc'[d] = pc[d] /\ call'[d] = call[d]
  BY <1>1, <1>2 DEF TypeInv, TypeOK
<1>4. \A i : Journaled(i)' <=> Journaled(i)
  BY <1>2 DEF Journaled
<1>5. ~ Journaled(id)
  BY <1>1 DEF Filed
<1>6. \A i \in Ids : /\ Journaled(i)' => request'[i] # None
                     /\ Acknowledged(i)' => Journaled(i)'
  BY <1>1, <1>4, UpdateAssumption DEF Filed, Acknowledged, TypeInv, TypeOK
<1>7. \A d \in Clients : d # c /\ pc[d] # "idle" => call[d] # id
  BY <1>1, UpdateAssumption DEF TypeInv, Control, Asked
<1>8. ASSUME NEW d \in Clients
      PROVE  /\ pc'[d] \in Before => ~ Journaled(call[d])'
             /\ pc'[d] \in After => Journaled(call[d])'
             /\ \A b \in Clients :
                   pc'[d] # "idle" /\ pc'[b] # "idle" /\ call'[d] = call'[b] => d = b
  <2>1. Journaled(call[d])' <=> Journaled(call'[d])
    BY <1>2 DEF Journaled
  <2>2. CASE d = c
    BY <1>3, <1>5, <1>7, <2>1, <2>2 DEF Before, After
  <2>3. CASE d # c
    BY <1>3, <1>7, <2>1, <2>3 DEF Filed, Before, After
  <2> QED BY <2>2, <2>3
<1>9. LinesOnce'
  BY <1>2 DEF Filed, LinesOnce
<1> QED BY <1>6, <1>8, <1>9 DEF Filed

\* A whole line of a staged call is written, by a step that may be its last.
LEMMA FiledWrite ==
    ASSUME FiledInv, NEW c \in Clients, pc[c] = "staged", WholeLine(EntryOf(c))
    PROVE  /\ LinesOnce' /\ unended' = FALSE
           /\ \A i \in 1..Len(lines') : lines'[i] # Torn
           /\ call[c] \in Ids /\ request[call[c]] # None
           /\ \A id : Journaled(id)' <=> Journaled(id) \/ id = call[c]
<1> USE DEF FiledInv
<1>1. EntryOf(c) \in Entry /\ EntryOf(c).id = call[c]
  BY EntryType DEF EntryOf, Inside, Places
<1>2. ~ Journaled(call[c])
  BY DEF Filed, Before
<1>3. lines' = Append(lines, EntryOf(c)) /\ unended' = FALSE
  BY DEF WholeLine, FileWhole
<1>4. call[c] \in Ids /\ request[call[c]] # None
  BY UpdateAssumption DEF TypeInv, Control, Asked
<1> QED BY <1>1, <1>2, <1>3, <1>4, OneMoreLine DEF Filed

\* Journal.Append writes the line of the call that makes it, once, whether or
\* not the sync that follows succeeds.
LEMMA FiledAppend ==
    ASSUME Durable, Whole, FiledInv, NEW c \in Clients, AppendJournal(c)
    PROVE  Filed'
<1> USE DEF journalVars, processVars, callVars
<1>1. /\ pc[c] = "staged" /\ pc \in [Clients -> Places]
      /\ UNCHANGED <<mode, call, request, outcome>>
  BY DEF AppendJournal, AppendWritten, AppendWithoutFile, AppendRefused,
         AppendUnsynced, AppendTorn, Step, FiledInv, TypeInv, TypeOK
<1>2. mode # "closed"
  BY <1>1 DEF FiledInv, FileWhole
<1>3. CASE AppendRefused(c)
  <2>1. pc' = [pc EXCEPT ![c] = "undo"] /\ UNCHANGED lines
    BY <1>3 DEF AppendRefused, Step
  <2>2. \A d \in Clients : \/ pc'[d] = pc[d]
                           \/ pc[d] = "staged" /\ pc'[d] = "undo"
    BY <1>1, <2>1
  <2>3. \A id \in Ids : Acknowledged(id)' => Acknowledged(id)
    BY <1>1 DEF Acknowledged
  <2>4. \A d \in Clients : StaysOnSide(d)
    BY <1>1, <2>2 DEF StaysOnSide
  <2> QED BY <1>1, <2>1, <2>3, <2>4, FiledKept DEF FiledInv
<1>4. CASE AppendWritten(c) \/ AppendUnsynced(c)
  <2>1. PICK to \in {"journaled", "undo"} : pc' = [pc EXCEPT ![c] = to]
    BY <1>4 DEF AppendWritten, AppendUnsynced, Step
  <2>2. /\ LinesOnce' /\ call[c] \in Ids /\ request[call[c]] # None
        /\ \A id : Journaled(id)' <=> Journaled(id) \/ id = call[c]
    <3>1. WholeLine(EntryOf(c))
      BY <1>4 DEF AppendWritten, AppendUnsynced
    <3> QED BY <1>1, <3>1, FiledWrite
  <2>3. \A id \in Ids : /\ Journaled(id)' => request'[id] # None
                        /\ Acknowledged(id)' => Journaled(id)'
    BY <1>1, <2>2 DEF FiledInv, Filed, Acknowledged
  <2>4. ASSUME NEW d \in Clients
        PROVE  /\ pc'[d] \in Before => ~ Journaled(call[d])'
               /\ pc'[d] \in After => Journaled(call[d])'
               /\ \A b \in Clients :
                     pc'[d] # "idle" /\ pc'[b] # "idle" /\ call'[d] = call'[b] => d = b
    <3>1. Journaled(call[d])' <=> Journaled(call[d]) \/ call[d] = call[c]
      <4>1. Journaled(call[d])' <=> \E i \in 1..Len(lines') : lines'[i] # Torn /\ lines'[i].id = call[d]
        BY <1>1 DEF Journaled
      <4>2. \A id : Journaled(id)' <=> \E i \in 1..Len(lines') : lines'[i] # Torn /\ lines'[i].id = id
        BY DEF Journaled
      <4> QED BY <2>2, <4>1, <4>2
    <3>2. \A b \in Clients : pc'[b] # "idle" => pc[b] # "idle"
      BY <1>1, <2>1
    <3>3. CASE d = c
      BY <1>1, <2>1, <3>1, <3>2, <3>3 DEF FiledInv, Filed, Before, After
    <3>4. CASE d # c
      BY <1>1, <2>1, <3>1, <3>2, <3>4 DEF FiledInv, Filed, Before, After
    <3> QED BY <3>3, <3>4
  <2> QED BY <2>2, <2>3, <2>4 DEF Filed
<1>5. ~ AppendWithoutFile(c) /\ ~ AppendTorn(c)
  BY <1>2 DEF AppendWithoutFile, AppendTorn, FileOpen, Whole
<1> QED BY <1>3, <1>4, <1>5 DEF AppendJournal

\* The other steps of a call.
LEMMA FiledElsewhere ==
    ASSUME TypeInv, Filed, NEW c \in Clients,
           Reject(c) \/ Stage(c) \/ Rollback(c) \/ CommitZone(c) \/ Resigned(c)
               \/ ResignFailed(c) \/ NotifyInCommit(c) \/ NotifyAndReturn(c)
    PROVE  Filed'
<1> USE DEF journalVars, processVars, callVars
<1>1. /\ UNCHANGED <<lines, request>>
      /\ \E to \in Places :
            /\ pc' = [pc EXCEPT ![c] = to]
            /\ \/ to \in {"idle", "undo"}
               \/ pc[c] \in Before /\ to \in Before
               \/ pc[c] \in After /\ to \in After
      /\ pc[c] # "idle"
  BY DEF Reject, Stage, Rollback, CommitZone, Resigned, ResignFailed,
         NotifyInCommit, NotifyAndReturn, Return, Step, Places, Before, After
<1>2. pc \in [Clients -> Places] /\ call \in [Clients -> Ids \cup {0}]
  BY DEF TypeInv, TypeOK
<1>3. CASE Reject(c) \/ Rollback(c) \/ NotifyAndReturn(c)
  <2>1. PICK answer :
          /\ outcome' = [outcome EXCEPT ![call[c]] = answer]
          /\ answer \in {"ok", "notify-failed"} => pc[c] = "committed"
    BY <1>3 DEF Reject, Rollback, NotifyAndReturn, Return, Step
  <2>2. call' = [call EXCEPT ![c] = 0] /\ pc' = [pc EXCEPT ![c] = "idle"]
    BY <1>3 DEF Reject, Rollback, NotifyAndReturn, Return, Step
  <2>3. \A d \in Clients : StaysOnSide(d)
    BY <1>1, <1>2, <2>2 DEF StaysOnSide
  <2>4. ASSUME NEW id \in Ids, Acknowledged(id)', ~ Acknowledged(id)
        PROVE  Journaled(id)
    <3>1. call[c] \in Ids /\ outcome \in [Ids -> Outcomes]
      BY <1>1 DEF TypeInv, TypeOK, Control
    <3>2. id = call[c] /\ answer \in {"ok", "notify-failed"}
      BY <2>1, <2>4, <3>1 DEF Acknowledged
    <3> QED BY <2>1, <3>2 DEF Filed, After
  <2> QED BY <1>1, <2>3, <2>4, FiledKept
<1>4. CASE Stage(c) \/ CommitZone(c) \/ Resigned(c) \/ ResignFailed(c) \/ NotifyInCommit(c)
  <2>1. UNCHANGED <<call, outcome>>
    BY <1>4 DEF Stage, CommitZone, Resigned, ResignFailed, NotifyInCommit
  <2>2. \A d \in Clients : StaysOnSide(d)
    BY <1>1, <1>2, <2>1 DEF StaysOnSide
  <2>3. \A id \in Ids : Acknowledged(id)' => Acknowledged(id)
    BY <2>1 DEF Acknowledged
  <2> QED BY <1>1, <2>2, <2>3, FiledKept
<1> QED BY <1>3, <1>4

\* The steps of the process write no line but the one a crash interrupts.
LEMMA FiledProcess ==
    ASSUME Whole, FiledInv, Boot \/ Stop
    PROVE  Filed'
<1> USE DEF journalVars, callVars
<1>1. UNCHANGED request
  BY DEF Boot, Start, ReplayEntry, ReplayFails, Serve, Stop, Crash, Shutdown,
         CloseJournal, Exit
<1>2. \A id \in Ids : Acknowledged(id)' => Acknowledged(id)
  BY DEF Boot, Start, ReplayEntry, ReplayFails, Serve, Stop, Crash, Shutdown,
         CloseJournal, Exit, LoseCallers, Acknowledged
<1>3. \/ UNCHANGED <<pc, call>>
      \/ \A c \in Clients : pc'[c] = "idle"
  BY DEF Boot, Start, ReplayEntry, ReplayFails, Serve, Stop, Crash, Shutdown,
         CloseJournal, Exit, FreshMemory
<1>4. CASE UNCHANGED lines
  <2>1. \A c \in Clients : StaysOnSide(c)
    BY <1>3 DEF StaysOnSide
  <2> QED BY <1>1, <1>2, <1>4, <2>1, FiledKept DEF FiledInv
<1>5. CASE Crash /\ lines' # lines
  <2>1. PICK c \in Clients : pc[c] = "staged" /\ WholeLine(EntryOf(c))
    BY <1>5 DEF Crash, CrashLeaves, Whole
  <2>2. /\ LinesOnce' /\ call[c] \in Ids /\ request[call[c]] # None
        /\ \A id : Journaled(id)' <=> Journaled(id) \/ id = call[c]
    BY <2>1, FiledWrite
  <2>3. \A d \in Clients : pc'[d] = "idle"
    BY <1>5 DEF Crash, FreshMemory
  <2>4. \A id \in Ids : /\ Journaled(id)' => request'[id] # None
                        /\ Acknowledged(id)' => Journaled(id)'
    BY <1>1, <1>2, <2>2 DEF FiledInv, Filed
  <2> QED BY <2>2, <2>3, <2>4 DEF Filed, Before, After
<1> QED BY <1>4, <1>5 DEF Boot, Start, ReplayEntry, ReplayFails, Serve, Stop,
                          Shutdown, CloseJournal, Exit

\* The file changes only by the whole line of a call that has staged its change.
LEMMA WholeLinesOnly ==
    ASSUME "torn" \notin Faults, [Next]_vars
    PROVE  \/ UNCHANGED journalVars
           \/ \E c \in Clients : pc[c] = "staged" /\ WholeLine(EntryOf(c))
<1>1. CASE \E c \in Clients : AppendJournal(c)
  BY <1>1 DEF AppendJournal, AppendWritten, AppendWithoutFile, AppendRefused,
     AppendUnsynced, AppendTorn, Step
<1>2. CASE Crash
  BY <1>2 DEF Crash, CrashLeaves
<1>3. CASE UNCHANGED vars
  BY <1>3 DEF vars
<1>4. CASE \E c \in Clients, r \in Requests : Call(c, r)
  BY <1>4 DEF Call
<1>5. CASE \E c \in Clients : ApplyStep(c) /\ ~ AppendJournal(c)
  BY <1>5 DEF ApplyStep, Reject, Stage, Rollback, CommitZone, Resigned, ResignFailed,
     NotifyInCommit, NotifyAndReturn
<1>6. CASE Boot \/ Shutdown \/ CloseJournal \/ Exit
  BY <1>6 DEF Boot, Start, ReplayEntry, ReplayFails, Serve, Shutdown, CloseJournal, Exit
<1> QED BY <1>1, <1>2, <1>3, <1>4, <1>5, <1>6 DEF Next, Stop

\* Handlers finish before the file is closed, and none begins after.
LEMMA ClosedIdle ==
    ASSUME Whole, FiledInv, [Next]_vars, mode' = "closed"
    PROVE  \A c \in Clients : pc'[c] = "idle"
<1> USE DEF processVars
<1>1. CASE UNCHANGED vars
  BY <1>1 DEF vars, FiledInv, FileWhole
<1>2. CASE \E c \in Clients, r \in Requests : Call(c, r)
  BY <1>2 DEF Call
<1>3. ASSUME NEW c \in Clients, ApplyStep(c)
      PROVE  FALSE
  <2>1. UNCHANGED mode /\ pc[c] # "idle"
    BY <1>3 DEF ApplyStep, Reject, Stage, AppendJournal, AppendWritten,
       AppendWithoutFile, AppendRefused, AppendUnsynced, AppendTorn, Rollback, CommitZone,
       Resigned, ResignFailed, NotifyInCommit, NotifyAndReturn, Return, Step
  <2> QED BY <2>1 DEF FiledInv, FileWhole
<1>4. CASE Boot \/ Stop
  BY <1>4 DEF Boot, Start, ReplayEntry, ReplayFails, Serve, Stop, Crash, Shutdown,
     CloseJournal, Exit, FreshMemory, Drained, Whole, FiledInv, FileWhole
<1> QED BY <1>1, <1>2, <1>3, <1>4 DEF Next

\* There is no call and no line at first.
LEMMA FiledInit == Init => FiledInv
<1> SUFFICES ASSUME Init PROVE FiledInv
  OBVIOUS
<1>1. FileWhole /\ Filed
  BY DEF Init, Filed, FileWhole, LinesOnce, Journaled, Acknowledged, Before, After
<1> QED BY <1>1, InitType DEF FiledInv

\* Every step keeps each line filed under its call.
LEMMA FiledStep == Durable /\ Whole => (FiledInv /\ [Next]_vars => FiledInv')
<1> SUFFICES ASSUME Durable, Whole, FiledInv, [Next]_vars PROVE FiledInv'
  OBVIOUS
<1>1. Filed'
  <2>1. CASE UNCHANGED vars
    <3>1. UNCHANGED <<lines, request, outcome, pc, call>>
      BY <2>1 DEF vars, journalVars, callVars
    <3>2. \A c \in Clients : StaysOnSide(c)
      BY <3>1 DEF StaysOnSide
    <3>3. \A id \in Ids : Acknowledged(id)' => Acknowledged(id)
      BY <3>1 DEF Acknowledged
    <3> QED BY <3>1, <3>2, <3>3, FiledKept DEF FiledInv
  <2>2. CASE Next
    BY <2>2, FiledCall, FiledAppend, FiledElsewhere, FiledProcess
       DEF Next, ApplyStep, FiledInv
  <2> QED BY <2>1, <2>2
<1>2. unended' = FALSE /\ \A i \in 1..Len(lines') : lines'[i] # Torn
  BY WholeLinesOnly, FiledWrite DEF Whole, journalVars, FiledInv, FileWhole
<1>3. TypeInv'
  BY StepType DEF FiledInv
<1> QED BY <1>1, <1>2, <1>3, ClosedIdle DEF FiledInv, FileWhole

\* When writes are whole and no handler outlives the file, an update that was
\* reported as successful has exactly one line in it from then on, through every
\* later update, failed sync, failed hook, crash, shutdown and replay.
THEOREM AcknowledgedSurvives == Whole => (Spec => []AckedIsJournaled)
<1> SUFFICES ASSUME Whole PROVE Spec => []AckedIsJournaled
  OBVIOUS
<1>1. CASE Durable
  <2>1. FiledInv => AckedIsJournaled
    BY DEF AckedIsJournaled, FiledInv, Filed, LinesOnce, Journaled
  <2>2. FiledInv /\ [Next]_vars => FiledInv'
    BY <1>1, FiledStep
  <2> QED BY <2>1, <2>2, FiledInit, PTL DEF Spec
<1>2. CASE ~ Durable
  <2>1. AckedIsJournaled
    BY <1>2 DEF AckedIsJournaled
  <2> QED BY <2>1, PTL
<1> QED BY <1>1, <1>2

\* With a dependable journal what is rolled back has no line either.
LEMMA TracedInit == Init => Traced
BY DEF Init, Traced, LinesOnce, Journaled, Acknowledged

LEMMA TracedIsFiled == TypeInv /\ Synced /\ Traced => FiledInv
BY DEF FiledInv, Synced, FileWhole, Traced, Filed, Before, After

\* Every step keeps each line traced to its call.
LEMMA TracedStep ==
    Dependable => (TypeInv /\ Synced /\ Traced /\ [Next]_vars => Traced')
<1> SUFFICES ASSUME Dependable, TypeInv, Synced, Traced, [Next]_vars PROVE Traced'
  OBVIOUS
<1>1. Durable /\ Whole /\ FiledInv
  BY TracedIsFiled DEF Dependable, Whole
<1>2. Filed'
  BY <1>1, FiledStep DEF FiledInv
<1>3. ASSUME NEW c \in Clients, pc'[c] = "undo"
      PROVE  ~ Journaled(call[c])'
  <2> USE DEF TypeInv, TypeOK
  <2>1. /\ pc[c] \in {"staged", "undo"} /\ call'[c] = call[c]
        /\ UNCHANGED lines \/ pc[c] = "undo"
    <3>1. CASE UNCHANGED vars
      BY <1>3, <3>1 DEF vars, journalVars
    <3>2. CASE \E d \in Clients, r \in Requests : Call(d, r)
      BY <1>3, <3>2 DEF Call, Step, journalVars
    <3>3. ASSUME NEW d \in Clients, ApplyStep(d), d # c
          PROVE  pc'[c] = pc[c] /\ call'[c] = call[c]
      BY <3>3 DEF ApplyStep, Reject, Stage, AppendJournal, AppendWritten, AppendWithoutFile,
         AppendRefused, AppendUnsynced, AppendTorn, Rollback, CommitZone, Resigned,
         ResignFailed, NotifyInCommit, NotifyAndReturn, Return, Step
    <3>4. ASSUME ApplyStep(c)
          PROVE  pc[c] = "staged" /\ call'[c] = call[c] /\ UNCHANGED lines
      <4>1. AppendRefused(c)
        BY <1>3, <3>4 DEF ApplyStep, Reject, Stage, AppendJournal, AppendWritten,
           AppendWithoutFile, AppendUnsynced, AppendTorn, Rollback, CommitZone, Resigned,
           ResignFailed, NotifyInCommit, NotifyAndReturn, Return, Step, Dependable
      <4> QED BY <4>1 DEF AppendRefused, Step, journalVars
    <3>5. CASE Boot \/ Stop
      BY <1>3, <3>5 DEF Boot, Start, ReplayEntry, ReplayFails, Serve, Stop, Crash,
         Shutdown, CloseJournal, Exit, FreshMemory, journalVars
    <3> QED BY <1>3, <3>1, <3>2, <3>3, <3>4, <3>5 DEF Next
  <2>2. ~ Journaled(call[c])
    BY <2>1 DEF Traced
  <2>3. CASE UNCHANGED lines
    BY <2>1, <2>2, <2>3 DEF Journaled
  <2>4. CASE ~ UNCHANGED lines
    <3>1. PICK d \in Clients : pc[d] = "staged" /\ WholeLine(EntryOf(d))
      BY <1>1, <2>4, WholeLinesOnly DEF Whole, journalVars
    <3>2. \A id : Journaled(id)' <=> Journaled(id) \/ id = call[d]
      BY <1>1, <3>1, FiledWrite
    <3>3. call[c] # call[d]
      BY <2>1, <2>4, <3>1 DEF Traced
    <3>4. PICK id : id = call[c]
      OBVIOUS
    <3>5. ~ Journaled(id)'
      BY <2>2, <3>2, <3>3, <3>4
    <3> QED BY <2>1, <3>4, <3>5 DEF Journaled
  <2> QED BY <2>3, <2>4
<1> QED BY <1>2, <1>3 DEF Traced, Filed, Before, After

-----------------------------------------------------------------------------
(***************************************************************************)
(* No zone ever holds a value twice.                                       *)
(***************************************************************************)

\* No zone holds a value twice, nor does what an update would be rolled back to.
StagedDistinct ==
    \A c \in Clients : pc[c] \in Inside => Distinct(staged[c].before)

DistinctInv == ValuesDistinct /\ StagedDistinct

\* A step that leaves the zones, and what there is to roll back to, alone.
LEMMA DistinctUnchanged ==
    ASSUME DistinctInv, UNCHANGED records,
           \A c \in Clients : pc'[c] \in Inside => pc[c] \in Inside /\ staged'[c] = staged[c]
    PROVE  DistinctInv'
BY DEF DistinctInv, ValuesDistinct, StagedDistinct

\* A call of Apply keeps the values distinct.
LEMMA DistinctApply ==
    ASSUME TypeInv, DistinctInv, NEW c \in Clients, ApplyStep(c)
    PROVE  DistinctInv'
<1> USE DEF zoneVars, callVars
<1>0. pc \in [Clients -> Places] /\ staged \in [Clients -> StagedChange \cup {None}]
      /\ records \in [Zones -> Stores]
  BY DEF TypeInv, TypeOK
<1>1. CASE Stage(c)
  <2>1. /\ pc[c] = "entered" /\ Accepted(Asked(c)) /\ lock = None
        /\ pc' = [pc EXCEPT ![c] = "staged"]
        /\ records' = [records EXCEPT ![ZoneAt(c)] =
              ApplyChange(records[ZoneAt(c)], Asked(c).change)]
    BY <1>1 DEF Stage, Step, MutexFree
  <2>2. ZoneAt(c) \in Zones /\ Asked(c).change \in Change
    BY <2>1, UpdateAssumption DEF TypeInv, Control, Accepted, ZoneAt
  <2>3. Distinct(records[ZoneAt(c)]) /\ records[ZoneAt(c)] \in Stores
    BY <1>0, <2>2 DEF DistinctInv, ValuesDistinct
  <2>4. ValuesDistinct'
    BY <1>0, <2>1, <2>2, <2>3, DistinctKept DEF DistinctInv, ValuesDistinct
  <2>5. staged'[c].before = records[ZoneAt(c)] /\ \A d \in Clients \ {c} : staged'[d] = staged[d]
    BY <1>0, <1>1 DEF Stage
  <2>6. StagedDistinct'
    BY <1>0, <2>1, <2>3, <2>5 DEF DistinctInv, StagedDistinct
  <2> QED BY <2>4, <2>6 DEF DistinctInv
<1>2. CASE Rollback(c)
  <2>1. /\ pc[c] = "undo" /\ pc' = [pc EXCEPT ![c] = "idle"]
        /\ staged' = [staged EXCEPT ![c] = None]
        /\ records' = [records EXCEPT ![ZoneAt(c)] = staged[c].before]
    BY <1>2 DEF Rollback, Return, Restored, Step
  <2>2. pc[c] \in Inside
    BY <2>1 DEF Inside, Places
  <2>3. ZoneAt(c) \in Zones /\ Distinct(staged[c].before)
    BY <2>2, EntryType DEF DistinctInv, StagedDistinct
  <2>4. ValuesDistinct'
    BY <1>0, <2>1, <2>3 DEF DistinctInv, ValuesDistinct
  <2>5. StagedDistinct'
    BY <1>0, <2>1 DEF DistinctInv, StagedDistinct, Inside
  <2> QED BY <2>4, <2>5 DEF DistinctInv
<1>3. CASE AppendJournal(c) \/ CommitZone(c) \/ Resigned(c) \/ ResignFailed(c) \/ NotifyInCommit(c)
  <2>1. UNCHANGED <<records, staged>>
    BY <1>3 DEF AppendJournal, AppendWritten, AppendWithoutFile, AppendRefused, AppendUnsynced,
                AppendTorn, CommitZone, Resigned, ResignFailed, NotifyInCommit
  <2>2. pc[c] \in Inside
    BY <1>3 DEF AppendJournal, AppendWritten, AppendWithoutFile, AppendRefused, AppendUnsynced,
                AppendTorn, CommitZone, Resigned, ResignFailed, NotifyInCommit, Step, Inside, Places
  <2>3. \E to \in Places : pc' = [pc EXCEPT ![c] = to]
    BY <1>3 DEF AppendJournal, AppendWritten, AppendWithoutFile, AppendRefused, AppendUnsynced,
                AppendTorn, CommitZone, Resigned, ResignFailed, NotifyInCommit, Step, Places
  <2> QED BY <1>0, <2>1, <2>2, <2>3, DistinctUnchanged
<1>4. CASE Reject(c) \/ NotifyAndReturn(c)
  <2>1. /\ UNCHANGED records /\ pc' = [pc EXCEPT ![c] = "idle"]
        /\ staged' = [staged EXCEPT ![c] = None]
    BY <1>4 DEF Reject, NotifyAndReturn, Return, Step
  <2>2. \A d \in Clients : pc'[d] \in Inside => pc[d] \in Inside /\ staged'[d] = staged[d]
    BY <1>0, <2>1 DEF Inside
  <2> QED BY <2>1, <2>2, DistinctUnchanged
<1> QED BY <1>1, <1>2, <1>3, <1>4 DEF ApplyStep

\* Replay stages and commits as an update does.
LEMMA DistinctReplay ==
    ASSUME TypeInv, DistinctInv, ReplayEntry
    PROVE  DistinctInv'
<1> DEFINE e == Read(lines[replayed + 1])
<1>1. /\ mode = "replaying" /\ replayed < Len(lines)
      /\ records' = [records EXCEPT ![e.zone] = ApplyChange(records[e.zone], e.change)]
      /\ UNCHANGED <<pc, staged>>
  BY DEF ReplayEntry, NextToReplay
<1>2. lines \in Logs /\ replayed + 1 \in 1..Len(lines)
  BY <1>1 DEF TypeInv, TypeOK, Logs
<1>3. e \in Entry
  <2>1. lines[replayed + 1] \in Entry
    BY <1>1, <1>2, ElementOfSeq DEF TypeInv, Control, Logs
  <2> QED BY <2>1, ReadType
<1>4. e.zone \in Zones /\ e.change \in Change
  BY <1>3 DEF Entry
<1> HIDE DEF e
<1>5. records[e.zone] \in Stores /\ Distinct(records[e.zone]) /\ records \in [Zones -> Stores]
  BY <1>4 DEF TypeInv, TypeOK, DistinctInv, ValuesDistinct
<1>6. ValuesDistinct'
  BY <1>1, <1>4, <1>5, DistinctKept DEF DistinctInv, ValuesDistinct
<1> QED BY <1>1, <1>6 DEF DistinctInv, StagedDistinct

\* Every step keeps the values distinct.
LEMMA StepDistinct == TypeInv /\ DistinctInv /\ [Next]_vars => DistinctInv'
<1> SUFFICES ASSUME TypeInv, DistinctInv, [Next]_vars PROVE DistinctInv'
  OBVIOUS
<1>1. ASSUME NEW c \in Clients, NEW r \in Requests, Call(c, r) PROVE DistinctInv'
  <2>1. UNCHANGED <<records, staged>> /\ pc' = [pc EXCEPT ![c] = "entered"]
    BY <1>1 DEF Call, Step, zoneVars
  <2>2. \A d \in Clients : pc'[d] \in Inside => pc[d] \in Inside
    BY <2>1 DEF TypeInv, TypeOK, Inside
  <2> QED BY <2>1, <2>2, DistinctUnchanged
<1>2. CASE ReplayEntry
  BY <1>2, DistinctReplay
<1>3. CASE UNCHANGED <<records, pc, staged>>
  BY <1>3, DistinctUnchanged
<1>4. CASE FreshMemory
  BY <1>4, SeedAssumption DEF FreshMemory, DistinctInv, ValuesDistinct, StagedDistinct, Inside
<1> QED BY <1>1, <1>2, <1>3, <1>4, DistinctApply
        DEF Next, Boot, Start, ReplayFails, Serve, Stop, Crash, Shutdown, CloseJournal, Exit,
            vars, zoneVars

\* No answer ever repeats a record: a list never holds a value twice, whatever is
\* upserted, rolled back or replayed, and whatever fails.
THEOREM NoValueTwice == Spec => []ValuesDistinct
<1>1. Init => DistinctInv
  BY SeedAssumption DEF Init, DistinctInv, ValuesDistinct, StagedDistinct, Inside
<1>2. DistinctInv => ValuesDistinct
  BY DEF DistinctInv
<1> QED BY <1>1, <1>2, InitType, StepType, StepDistinct, PTL DEF Spec
=============================================================================
