--------------------------- MODULE ResolverProofs ---------------------------
(***************************************************************************)
(* Proofs about the resolver and its cache for every set of questions and  *)
(* queriers, every content of the zone and every size of the cache.        *)
(***************************************************************************)
EXTENDS Resolver, RecursionFacts, FiniteSetTheorems

\* The inductive invariant.
Inv == TypeOK /\ Grounded /\ RepliesWereTrue

-----------------------------------------------------------------------------
(***************************************************************************)
(* What is answered of a list.                                             *)
(***************************************************************************)

\* A list that is not empty, and its records.
LEMMA RecordsOfList ==
    ASSUME NEW list \in Lists, list # << >>
    PROVE  /\ Len(list) \in Nat \ {0}
           /\ \A i \in 1..Len(list) : /\ list[i] \in Record
                                      /\ list[i].rdata \in Values
                                      /\ list[i].ttl \in 0..MaxTTL
<1>1. list \in Seq(Record)
  BY ResolverAssumption
<1>2. Len(list) \in Nat \ {0} /\ \A i \in 1..Len(list) : list[i] \in Record
  BY <1>1
<1>3. \A r \in Record : r.rdata \in Values /\ r.ttl \in 0..MaxTTL
  BY DEF Record
<1> QED BY <1>2, <1>3

\* A list that is not empty has a shortest time to live, as CHOOSE needs.
LEMMA ShortestType ==
    ASSUME NEW list \in Lists, list # << >>
    PROVE  Shortest(list) \in 0..MaxTTL
<1> DEFINE ttls == {list[i].ttl : i \in 1..Len(list)}
<1>1. /\ Len(list) \in Nat \ {0} /\ MaxTTL \in Nat
      /\ \A i \in 1..Len(list) : list[i].ttl \in 0..MaxTTL
  BY RecordsOfList, ResolverAssumption
<1>2. ttls \subseteq Nat /\ list[1].ttl \in ttls
  BY <1>1
<1>3. \E t \in ttls : \A u \in ttls : t <= u
  <2> HIDE DEF ttls
  <2> QED BY <1>2, LeastNatural
<1>4. \E t \in ttls : \A i \in 1..Len(list) : t <= list[i].ttl
  BY <1>3
<1>5. Shortest(list) \in ttls
  BY <1>4 DEF Shortest
<1> QED BY <1>1, <1>5

\* The first record of the sorted list is a record of the list.
LEMMA FirstOfList ==
    ASSUME NEW list \in Lists, list # << >>
    PROVE  First(list) \in Values /\ \E i \in 1..Len(list) : list[i].rdata = First(list)
<1> DEFINE ranks == {Rank[list[i].rdata] : i \in 1..Len(list)}
           values == {list[i].rdata : i \in 1..Len(list)}
<1>1. /\ Len(list) \in Nat \ {0} /\ Rank \in [Values -> Nat]
      /\ \A i \in 1..Len(list) : list[i].rdata \in Values
  BY RecordsOfList, ResolverAssumption
<1>2. ranks \subseteq Nat /\ Rank[list[1].rdata] \in ranks
  BY <1>1
<1>3. PICK r \in ranks : \A other \in ranks : r <= other
  <2> HIDE DEF ranks
  <2> QED BY <1>2, LeastNatural
<1>4. \E v \in values : \A i \in 1..Len(list) : Rank[v] <= Rank[list[i].rdata]
  BY <1>3
<1>5. First(list) \in values
  BY <1>4 DEF First
<1> QED BY <1>1, <1>5

\* The record answered is a record of the list.
LEMMA BestOfList ==
    ASSUME NEW list \in Lists, list # << >>
    PROVE  Best(list) \in Values /\ \E i \in 1..Len(list) : list[i].rdata = Best(list)
<1>1. Len(list) \in 1..Len(list)
  BY RecordsOfList
<1> QED BY <1>1, RecordsOfList DEF Best

-----------------------------------------------------------------------------
(***************************************************************************)
(* The initial states.                                                     *)
(***************************************************************************)

\* Every initial state satisfies the invariant.
LEMMA InitInv == Init => Inv
<1> SUFFICES ASSUME Init PROVE Inv
  OBVIOUS
<1>1. past \in [Questions -> Seq(Lists) \ {<< >>}]
  <2>1. \A k \in Questions : past[k] \in {<<list>> : list \in Lists}
    BY DEF Init
  <2>2. \A list \in Lists : <<list>> \in Seq(Lists) \ {<< >>}
    OBVIOUS
  <2> QED BY <2>1, <2>2 DEF Init
<1>2. \A key \in CacheKeys : entries[key] = None
  BY DEF Init
<1>3. TypeOK
  BY <1>1, ResolverAssumption DEF Init, TypeOK
<1>4. Grounded
  BY <1>2 DEF Grounded, CacheKeys
<1>5. RepliesWereTrue
  BY DEF Init, RepliesWereTrue
<1> QED BY <1>3, <1>4, <1>5 DEF Inv

-----------------------------------------------------------------------------
(***************************************************************************)
(* Queries.                                                                *)
(***************************************************************************)

\* What the zone and the cache keep of the invariant when they do not change.
LEMMA SameContent ==
    ASSUME Inv, UNCHANGED <<past, now, entries, stirred>>
    PROVE  /\ past' \in [Questions -> Seq(Lists) \ {<< >>}]
           /\ now' \in 0..MaxTime
           /\ entries' \in [CacheKeys -> CacheEntry \cup {None}]
           /\ stirred' \in [Questions -> 0..now']
           /\ Grounded'
  BY DEF Inv, TypeOK, Grounded, SoundEntry, Version

\* The steps that leave the answers alone.
LEMMA OnTheWay ==
    ASSUME Inv, NEW q \in Queriers, NEW k \in Questions,
           \/ Ask(q, k)
           \/ Miss(q, "positive", "pos", "negative")
           \/ Miss(q, "negative", "neg", "authoritative")
           \/ LookUp(q)
    PROVE  Inv'
<1>1. UNCHANGED <<past, now, entries, stirred>>
  BY DEF Ask, Miss, LookUp
<1>2. TypeOK'
  <2>1. CASE Ask(q, k)
    BY <1>1, <2>1, SameContent DEF Inv, TypeOK, Ask, Version
  <2>2. CASE Miss(q, "positive", "pos", "negative")
    BY <1>1, <2>2, SameContent DEF Inv, TypeOK, Miss, Version
  <2>3. CASE Miss(q, "negative", "neg", "authoritative")
    BY <1>1, <2>3, SameContent DEF Inv, TypeOK, Miss, Version
  <2>4. CASE LookUp(q)
    <3>1. asked[q] \in Questions
      BY <2>4 DEF Inv, TypeOK, LookUp
    <3>2. Version(asked[q]) \in Nat \ {0}
      BY <3>1 DEF Inv, TypeOK, Version
    <3> QED BY <1>1, <2>4, <3>1, <3>2, SameContent DEF Inv, TypeOK, LookUp, Version
  <2> QED BY <2>1, <2>2, <2>3, <2>4
<1>3. RepliesWereTrue'
  <2>1. \A p \in Queriers : reply'[p] = reply[p] \/ reply'[p] = None
    BY DEF Inv, TypeOK, Ask, Miss, LookUp
  <2> QED BY <1>1, <2>1 DEF Inv, RepliesWereTrue, TrueOf, Version
<1> QED BY <1>1, <1>2, <1>3, SameContent DEF Inv

\* What a step must keep of the queriers.
QueriersKept ==
    /\ pc' \in [Queriers -> {"idle", "positive", "negative", "authoritative", "found"}]
    /\ asked' \in [Queriers -> Questions \cup {None}]
    /\ read' \in [Queriers -> Nat]
    /\ reply' \in [Queriers -> Replies \cup {None}]
    /\ \A p \in Queriers :
          /\ pc'[p] # "idle" => asked'[p] \in Questions
          /\ pc'[p] = "found" => read'[p] \in 1..Version(asked'[p])
    /\ RepliesWereTrue'

\* The end of a query whose reply is true.
LEMMA Responded ==
    ASSUME Inv, NEW q \in Queriers, NEW r \in Replies \cup {None}, Respond(q, r),
           UNCHANGED past,
           r # None => /\ r.version \in 1..Version(r.question)
                       /\ TrueOf(r.rdata, past[r.question][r.version])
    PROVE  QueriersKept
<1>1. /\ pc' = [pc EXCEPT ![q] = "idle"] /\ asked' = [asked EXCEPT ![q] = None]
      /\ read' = [read EXCEPT ![q] = 0] /\ reply' = [reply EXCEPT ![q] = r]
  BY DEF Respond
<1>2. RepliesWereTrue'
  <2> SUFFICES ASSUME NEW p \in Queriers, reply'[p] # None
               PROVE  /\ reply'[p].version \in 1..Version(reply'[p].question)
                      /\ TrueOf(reply'[p].rdata, past[reply'[p].question][reply'[p].version])
    BY DEF RepliesWereTrue, TrueOf, Version
  <2>1. CASE p = q
    BY <1>1, <2>1 DEF Inv, TypeOK
  <2>2. CASE p # q
    BY <1>1, <2>2 DEF Inv, TypeOK, RepliesWereTrue
  <2> QED BY <2>1, <2>2
<1> QED BY <1>1, <1>2 DEF Inv, TypeOK, QueriersKept

\* A query that ends while zone and cache stay as they are.
LEMMA EndStep ==
    ASSUME Inv, QueriersKept, UNCHANGED <<past, now, entries, stirred>>
    PROVE  Inv'
<1>1. TypeOK'
  BY SameContent DEF Inv, TypeOK, QueriersKept, Version
<1> QED BY <1>1, SameContent DEF Inv, QueriersKept

\* A hit returns what the entry says, which was true.
LEMMA HitStep ==
    ASSUME Inv, NEW q \in Queriers, NEW kind \in Kinds, NEW place \in {"positive", "negative"},
           Hit(q, place, kind)
    PROVE  Inv'
<1> DEFINE k == asked[q]
           e == entries[<<k, kind>>]
           r == Reply(k, e.rdata, TTLOf(e), e.version)
<1>1. k \in Questions
  BY DEF Hit, Inv, TypeOK
<1>2. e # None /\ <<k, kind>> \in CacheKeys /\ e = EntryFor(q, kind)
  BY <1>1 DEF Hit, Live, EntryFor, CacheKey, CacheKeys
<1>3. e \in CacheEntry /\ SoundEntry(k, kind, e)
  BY <1>1, <1>2 DEF Inv, TypeOK, Grounded
<1>4. r \in Replies
  <2>1. e.rdata \in Values \cup {None} /\ e.ttl \in Nat /\ e.version \in Nat \ {0} /\ now \in Nat
    BY <1>3, ResolverAssumption DEF CacheEntry, Inv, TypeOK
  <2> QED BY <1>1, <2>1 DEF Reply, Replies, TTLOf
<1>5. Respond(q, r) /\ UNCHANGED <<past, now, entries, stirred>>
  BY <1>2 DEF Hit
<1>6. /\ r.version = e.version /\ r.question = k /\ r.rdata = e.rdata
  BY DEF Reply
<1>7. r.version \in 1..Version(r.question) /\ TrueOf(r.rdata, past[r.question][r.version])
  BY <1>3, <1>6 DEF SoundEntry
<1>8. QueriersKept
  <2> HIDE DEF r
  <2>1. r \in Replies \cup {None} /\ UNCHANGED past
    BY <1>4, <1>5
  <2> QED BY <1>5, <1>7, <2>1, Responded
<1> QED BY <1>5, <1>8, EndStep

\* A query that fails answers nothing.
LEMMA FailStep ==
    ASSUME Inv, NEW q \in Queriers, NoZone(q) \/ Refuse(q)
    PROVE  Inv'
<1>1. Respond(q, None) /\ UNCHANGED <<past, now, entries, stirred>>
  BY DEF NoZone, Refuse
<1>2. QueriersKept
  <2>1. None \in Replies \cup {None} /\ UNCHANGED past
    BY <1>1
  <2> QED BY <1>1, <2>1, Responded
<1> QED BY <1>1, <1>2, EndStep

\* Put leaves the entries of the cache sound if the new one is.
LEMMA PutEntry ==
    ASSUME Inv, NEW k \in Questions, NEW kind \in Kinds, NEW e \in CacheEntry,
           Put(<<k, kind>>, e), UNCHANGED <<past, now>>,
           NEW s \in 0..now, s >= stirred[k], stirred' = [stirred EXCEPT ![k] = s],
           SoundEntry(k, kind, e)'
    PROVE  /\ entries' \in [CacheKeys -> CacheEntry \cup {None}]
           /\ Grounded'
<1>1. entries \in [CacheKeys -> CacheEntry \cup {None}] /\ <<k, kind>> \in CacheKeys
  BY DEF Inv, TypeOK, CacheKeys
<1>2. \/ entries' = [entries EXCEPT ![<<k, kind>>] = e]
      \/ \E victim \in Oldest : entries' = [entries EXCEPT ![victim] = None, ![<<k, kind>>] = e]
  BY DEF Put
<1>3. /\ entries' \in [CacheKeys -> CacheEntry \cup {None}]
      /\ \A key \in CacheKeys \ {<<k, kind>>} : entries'[key] = entries[key] \/ entries'[key] = None
      /\ entries'[<<k, kind>>] = e
  BY <1>1, <1>2
<1>4. Grounded'
  <2> SUFFICES ASSUME NEW k2 \in Questions, NEW kind2 \in Kinds, entries'[<<k2, kind2>>] # None
               PROVE  SoundEntry(k2, kind2, entries[<<k2, kind2>>])'
    BY DEF Grounded
  <2>1. CASE <<k2, kind2>> = <<k, kind>>
    BY <1>3, <2>1
  <2>2. CASE <<k2, kind2>> # <<k, kind>>
    <3>1. <<k2, kind2>> \in CacheKeys /\ entries'[<<k2, kind2>>] = entries[<<k2, kind2>>]
      BY <1>3, <2>2 DEF CacheKeys
    <3>2. SoundEntry(k2, kind2, entries[<<k2, kind2>>]) /\ entries[<<k2, kind2>>] \in CacheEntry
      BY <1>1, <3>1 DEF Inv, Grounded
    <3>3. entries[<<k2, kind2>>].storedAt \in Nat
      BY <3>2 DEF CacheEntry
    <3>6. stirred \in [Questions -> 0..now] /\ now \in Nat
      BY ResolverAssumption DEF Inv, TypeOK
    <3>4. stirred'[k2] >= stirred[k2] /\ stirred'[k2] \in Nat
      BY <3>6
    <3>5. /\ past' = past /\ now' = now
      OBVIOUS
    <3> QED BY <3>1, <3>2, <3>3, <3>4, <3>5, <3>6 DEF SoundEntry, Version
  <2> QED BY <2>1, <2>2
<1> QED BY <1>3, <1>4

\* What a query has looked up is a content of its question.
LEMMA Found ==
    ASSUME Inv, NEW q \in Queriers, pc[q] = "found"
    PROVE  /\ asked[q] \in Questions
           /\ read[q] \in 1..Version(asked[q]) /\ read[q] \in Nat \ {0}
           /\ ListOf(q) = past[asked[q]][read[q]] /\ ListOf(q) \in Lists
           /\ now \in 0..MaxTime /\ now \in Nat
<1>1. asked[q] \in Questions /\ read[q] \in 1..Version(asked[q]) /\ now \in 0..MaxTime
  BY DEF Inv, TypeOK
<1>2. past[asked[q]] \in Seq(Lists)
  BY <1>1 DEF Inv, TypeOK
<1> QED BY <1>1, <1>2, ResolverAssumption DEF ListOf, Version

\* When the zone or a late query stirs a question, it stirs it now.
LEMMA Stirred ==
    ASSUME Inv, NEW q \in Queriers, pc[q] = "found", Stir(q), UNCHANGED <<past, now>>
    PROVE  \E s \in 0..now :
              /\ s >= stirred[asked[q]] /\ stirred' = [stirred EXCEPT ![asked[q]] = s]
              /\ stirred' \in [Questions -> 0..now']
              /\ read[q] # Version(asked[q]) => s = now
<1>1. asked[q] \in Questions /\ now \in Nat /\ stirred \in [Questions -> 0..now]
  BY Found DEF Inv, TypeOK
<1>2. CASE read[q] = Version(asked[q])
  <2>1. stirred' = [stirred EXCEPT ![asked[q]] = stirred[asked[q]]]
    BY <1>2, <1>1 DEF Stir
  <2>2. stirred[asked[q]] \in 0..now /\ stirred[asked[q]] >= stirred[asked[q]]
    BY <1>1
  <2>3. stirred' \in [Questions -> 0..now']
    BY <1>1, <2>1
  <2> WITNESS stirred[asked[q]] \in 0..now
  <2> QED BY <1>2, <2>1, <2>2, <2>3
<1>3. CASE read[q] # Version(asked[q])
  <2>1. stirred' = [stirred EXCEPT ![asked[q]] = now]
    BY <1>3 DEF Stir
  <2>2. now \in 0..now /\ now >= stirred[asked[q]]
    BY <1>1
  <2>3. stirred' \in [Questions -> 0..now']
    BY <1>1, <2>1, <2>2
  <2> WITNESS now \in 0..now
  <2> QED BY <2>1, <2>2, <2>3
<1> QED BY <1>2, <1>3

\* An answer that is cached was true when it was looked up.
LEMMA FillStep ==
    ASSUME Inv, NEW q \in Queriers, NEW kind \in Kinds, pc[q] = "found",
           NEW v \in Values \cup {None}, NEW w \in Values \cup {None}, NEW t \in 0..MaxTTL,
           v = None <=> kind = "neg",
           TrueOf(v, ListOf(q)), TrueOf(w, ListOf(q)),
           NEW k, k = asked[q],
           NEW e, e = [rdata |-> v, ttl |-> t, storedAt |-> now, version |-> read[q]],
           NEW r, r = Reply(k, w, t, read[q]),
           Put(<<k, kind>>, e), Respond(q, r), Stir(q), UNCHANGED <<past, now>>
    PROVE  Inv'
<1>1. t \in Nat /\ t <= MaxTTL
  BY ResolverAssumption
<1>2. k \in Questions /\ e \in CacheEntry /\ r \in Replies
  BY <1>1, Found DEF CacheEntry, Replies, Reply
<1>3. PICK s \in 0..now :
         /\ s >= stirred[k] /\ stirred' = [stirred EXCEPT ![k] = s]
         /\ stirred' \in [Questions -> 0..now']
         /\ read[q] # Version(k) => s = now
  BY Stirred
<1>4. SoundEntry(k, kind, e)'
  <2>1. e.version = read[q] /\ e.rdata = v /\ e.ttl = t /\ e.storedAt = now
    OBVIOUS
  <2>2. stirred'[k] = s
    BY <1>2, <1>3 DEF Inv, TypeOK
  <2>3. read[q] \in 1..Version(k) /\ TrueOf(v, past[k][read[q]]) /\ now \in Nat
    BY Found
  <2> QED BY <1>1, <1>3, <2>1, <2>2, <2>3 DEF SoundEntry, Version
<1>5. entries' \in [CacheKeys -> CacheEntry \cup {None}] /\ Grounded'
  BY <1>2, <1>3, <1>4, PutEntry
<1>6. QueriersKept
  <2>1. r.version \in 1..Version(r.question) /\ TrueOf(r.rdata, past[r.question][r.version])
    BY Found DEF Reply
  <2>2. r \in Replies \cup {None} /\ UNCHANGED past
    BY <1>2
  <2> QED BY <2>1, <2>2, Responded
<1>7. TypeOK'
  BY <1>3, <1>5, <1>6 DEF Inv, TypeOK, QueriersKept, Version
<1> QED BY <1>5, <1>6, <1>7 DEF Inv, QueriersKept

\* The two ways an authoritative answer is cached.
LEMMA AnswerStep ==
    ASSUME Inv, NEW q \in Queriers, AnswerPositive(q) \/ AnswerNegative(q)
    PROVE  Inv'
<1>1. CASE AnswerPositive(q)
  <2> DEFINE list == ListOf(q)
  <2>1. pc[q] = "found" /\ list # << >> /\ list \in Lists
    BY <1>1, Found DEF AnswerPositive
  <2>2. /\ First(list) \in Values /\ TrueOf(First(list), list)
        /\ Best(list) \in Values /\ TrueOf(Best(list), list)
        /\ Shortest(list) \in 0..MaxTTL /\ None \notin Values
    BY <2>1, FirstOfList, BestOfList, ShortestType, ResolverAssumption DEF TrueOf
  <2>3. /\ Put(<<asked[q], "pos">>, [rdata |-> First(list), ttl |-> Shortest(list),
                                     storedAt |-> now, version |-> read[q]])
        /\ Respond(q, Reply(asked[q], Best(list), Shortest(list), read[q]))
        /\ Stir(q) /\ UNCHANGED <<past, now>>
    BY <1>1 DEF AnswerPositive, CacheKey
  <2>4. "pos" \in Kinds /\ "pos" # "neg" /\ First(list) # None
    BY <2>2 DEF Kinds
  <2> QED BY <2>1, <2>2, <2>3, <2>4, FillStep
<1>2. CASE AnswerNegative(q)
  <2>1. /\ pc[q] = "found" /\ ListOf(q) = << >> /\ "neg" \in Kinds
        /\ Minimum \in 0..MaxTTL /\ TrueOf(None, ListOf(q))
    BY <1>2, ResolverAssumption DEF AnswerNegative, TrueOf, Kinds
  <2>2. /\ Put(<<asked[q], "neg">>, [rdata |-> None, ttl |-> Minimum,
                                     storedAt |-> now, version |-> read[q]])
        /\ Respond(q, Reply(asked[q], None, Minimum, read[q]))
        /\ Stir(q) /\ UNCHANGED <<past, now>>
    BY <1>2 DEF AnswerNegative, CacheKey
  <2> QED BY <2>1, <2>2, FillStep
<1> QED BY <1>1, <1>2

-----------------------------------------------------------------------------
(***************************************************************************)
(* The zone, the sweeper and the clock.                                    *)
(***************************************************************************)

\* A new content is added after those there were.
LEMMA ChangeStep ==
    ASSUME Inv, NEW k \in Questions, NEW list \in Lists, Change(k, list)
    PROVE  Inv'
<1>1. /\ past \in [Questions -> Seq(Lists) \ {<< >>}] /\ now \in 0..MaxTime /\ now \in Nat
      /\ stirred \in [Questions -> 0..now]
  BY ResolverAssumption DEF Inv, TypeOK
<1>2. /\ past' = [past EXCEPT ![k] = Append(past[k], list)]
      /\ stirred' = [stirred EXCEPT ![k] = now]
      /\ UNCHANGED <<now, entries, pc, asked, read, reply>>
  BY DEF Change
<1>3. ASSUME NEW k2 \in Questions
      PROVE  /\ past'[k2] \in Seq(Lists) \ {<< >>} /\ stirred'[k2] \in 0..now
             /\ Len(past[k2]) \in Nat /\ Len(past'[k2]) \in Nat
             /\ Len(past[k2]) <= Len(past'[k2])
             /\ \A n \in 1..Len(past[k2]) : past'[k2][n] = past[k2][n]
             /\ \/ Len(past'[k2]) = Len(past[k2]) /\ stirred'[k2] = stirred[k2]
                \/ stirred'[k2] = now
  <2>1. past[k2] \in Seq(Lists)
    BY <1>1
  <2>2. CASE k2 = k
    BY <1>1, <1>2, <2>1, <2>2
  <2>3. CASE k2 # k
    BY <1>1, <1>2, <2>1, <2>3
  <2> QED BY <2>2, <2>3
<1>4. TypeOK'
  <2>1. past' \in [Questions -> Seq(Lists) \ {<< >>}] /\ stirred' \in [Questions -> 0..now']
    BY <1>1, <1>2, <1>3
  <2>2. ASSUME NEW q \in Queriers, pc'[q] = "found" PROVE read'[q] \in 1..Len(past'[asked'[q]])
    <3>1. asked[q] \in Questions /\ read[q] \in 1..Version(asked[q])
      BY <1>2, <2>2 DEF Inv, TypeOK
    <3>2. /\ Len(past[asked[q]]) \in Nat /\ Len(past'[asked[q]]) \in Nat
          /\ Len(past[asked[q]]) <= Len(past'[asked[q]])
      BY <1>3, <3>1
    <3> QED BY <1>2, <3>1, <3>2 DEF Version
  <2> QED BY <1>2, <2>1, <2>2 DEF Inv, TypeOK, Version
<1>5. Grounded'
  <2> SUFFICES ASSUME NEW k2 \in Questions, NEW kind \in Kinds, entries[<<k2, kind>>] # None
               PROVE  SoundEntry(k2, kind, entries[<<k2, kind>>])'
    BY <1>2 DEF Grounded
  <2>1. SoundEntry(k2, kind, entries[<<k2, kind>>])
    BY DEF Inv, Grounded
  <2>2. /\ Len(past[k2]) \in Nat /\ Len(past'[k2]) \in Nat /\ Len(past[k2]) <= Len(past'[k2])
        /\ entries[<<k2, kind>>].version \in 1..Len(past'[k2])
        /\ past'[k2][entries[<<k2, kind>>].version] = past[k2][entries[<<k2, kind>>].version]
    BY <1>3, <2>1 DEF SoundEntry, Version
  <2>3. \/ Len(past'[k2]) = Len(past[k2]) /\ stirred'[k2] = stirred[k2]
        \/ stirred'[k2] = now
    BY <1>3
  <2> QED BY <1>2, <2>1, <2>2, <2>3 DEF SoundEntry, Version
<1>6. RepliesWereTrue'
  <2> SUFFICES ASSUME NEW q \in Queriers, reply[q] # None
               PROVE  /\ reply[q].version \in 1..Len(past'[reply[q].question])
                      /\ TrueOf(reply[q].rdata, past'[reply[q].question][reply[q].version])
    BY <1>2 DEF RepliesWereTrue, TrueOf, Version
  <2>1. reply[q].question \in Questions
    BY DEF Inv, TypeOK, Replies
  <2>2. /\ reply[q].version \in 1..Version(reply[q].question)
        /\ TrueOf(reply[q].rdata, past[reply[q].question][reply[q].version])
    BY DEF Inv, RepliesWereTrue
  <2>3. PICK k2 \in Questions : k2 = reply[q].question
    BY <2>1
  <2>4. /\ Len(past[k2]) \in Nat /\ Len(past'[k2]) \in Nat /\ Len(past[k2]) <= Len(past'[k2])
        /\ reply[q].version \in 1..Len(past[k2])
    BY <1>3, <2>2, <2>3 DEF Version
  <2>5. past'[k2][reply[q].version] = past[k2][reply[q].version]
    BY <1>3, <2>4
  <2> QED BY <2>2, <2>3, <2>4, <2>5
<1> QED BY <1>4, <1>5, <1>6 DEF Inv

\* The sweeper only takes entries away.
LEMMA SweepStep ==
    ASSUME Inv, NEW t \in 0..now, Sweep(t)
    PROVE  Inv'
<1>1. /\ UNCHANGED <<past, now, pc, asked, read, reply, stirred>>
      /\ entries' \in [CacheKeys -> CacheEntry \cup {None}]
      /\ \A key \in CacheKeys : entries'[key] = entries[key] \/ entries'[key] = None
  BY DEF Sweep, Inv, TypeOK
<1>2. TypeOK'
  BY <1>1 DEF Inv, TypeOK, Version
<1>3. Grounded'
  BY <1>1 DEF Inv, Grounded, SoundEntry, Version, CacheKeys
<1>4. RepliesWereTrue'
  BY <1>1 DEF Inv, RepliesWereTrue, TrueOf, Version
<1> QED BY <1>2, <1>3, <1>4 DEF Inv

\* Time passes and nothing else.
LEMMA TickStep ==
    ASSUME Inv, Tick
    PROVE  Inv'
<1>1. /\ UNCHANGED <<past, entries, pc, asked, read, reply, stirred>>
      /\ now' = now + 1 /\ now \in Nat /\ now' \in 0..MaxTime
      /\ stirred \in [Questions -> 0..now]
  BY ResolverAssumption DEF Tick, Inv, TypeOK
<1>2. TypeOK'
  <2>1. stirred' \in [Questions -> 0..now']
    BY <1>1
  <2> QED BY <1>1, <2>1 DEF Inv, TypeOK, Version
<1>3. Grounded'
  <2> SUFFICES ASSUME NEW k \in Questions, NEW kind \in Kinds, entries[<<k, kind>>] # None
               PROVE  SoundEntry(k, kind, entries[<<k, kind>>])'
    BY <1>1 DEF Grounded
  <2>1. SoundEntry(k, kind, entries[<<k, kind>>])
    BY DEF Inv, Grounded
  <2>2. entries[<<k, kind>>].storedAt \in Nat
    BY DEF Inv, TypeOK, CacheEntry, CacheKeys
  <2> QED BY <1>1, <2>1, <2>2 DEF SoundEntry, Version
<1>4. RepliesWereTrue'
  BY <1>1 DEF Inv, RepliesWereTrue, TrueOf, Version
<1> QED BY <1>2, <1>3, <1>4 DEF Inv

-----------------------------------------------------------------------------
(***************************************************************************)
(* The theorems.                                                           *)
(***************************************************************************)

\* Every step keeps the invariant.
LEMMA StepInv == Inv /\ [Next]_vars => Inv'
<1> SUFFICES ASSUME Inv, [Next]_vars PROVE Inv'
  OBVIOUS
<1>1. ASSUME NEW q \in Queriers, Resolve(q) PROVE Inv'
  <2>1. ASSUME NEW k \in Questions, Ask(q, k) PROVE Inv'
    BY <2>1, OnTheWay
  <2>2. CASE Hit(q, "positive", "pos")
    <3>1. "pos" \in Kinds /\ "positive" \in {"positive", "negative"}
      BY DEF Kinds
    <3> QED BY <2>2, <3>1, HitStep
  <2>3. CASE Hit(q, "negative", "neg")
    <3>1. "neg" \in Kinds /\ "negative" \in {"positive", "negative"}
      BY DEF Kinds
    <3> QED BY <2>3, <3>1, HitStep
  <2>4. CASE Miss(q, "positive", "pos", "negative") \/ Miss(q, "negative", "neg", "authoritative")
             \/ LookUp(q)
    <3>1. asked[q] \in Questions
      BY <2>4 DEF Inv, TypeOK, Miss, LookUp
    <3> QED BY <2>4, <3>1, OnTheWay
  <2>5. CASE NoZone(q) \/ Refuse(q)
    BY <2>5, FailStep
  <2>6. CASE AnswerPositive(q) \/ AnswerNegative(q)
    BY <2>6, AnswerStep
  <2> QED BY <1>1, <2>1, <2>2, <2>3, <2>4, <2>5, <2>6 DEF Resolve
<1>2. ASSUME NEW k \in Questions, NEW list \in Lists, Change(k, list) PROVE Inv'
  BY <1>2, ChangeStep
<1>3. ASSUME NEW t \in 0..now, Sweep(t) PROVE Inv'
  BY <1>3, SweepStep
<1>4. CASE Tick
  BY <1>4, TickStep
<1>5. CASE UNCHANGED vars
  BY <1>5, SameContent DEF vars, Inv, TypeOK, RepliesWereTrue, TrueOf, Version
<1> QED BY <1>1, <1>2, <1>3, <1>4, <1>5 DEF Next

\* The types of the resolver and its cache hold in every reachable state.
THEOREM TypeCorrect == Spec => []TypeOK
<1>1. Inv => TypeOK
  BY DEF Inv
<1> QED BY <1>1, InitInv, StepInv, PTL DEF Spec

\* No entry is filed under another question than its own, whatever the queries,
\* the zone and the sweeper do.
THEOREM EntriesTrue == Spec => []Grounded
<1>1. Inv => Grounded
  BY DEF Inv
<1> QED BY <1>1, InitInv, StepInv, PTL DEF Spec

\* No reply mixes names, types or contents, from the cache or from the zone.
THEOREM RepliesTrue == Spec => []RepliesWereTrue
<1>1. Inv => RepliesWereTrue
  BY DEF Inv
<1> QED BY <1>1, InitInv, StepInv, PTL DEF Spec

-----------------------------------------------------------------------------
(***************************************************************************)
(* The size of the cache.                                                  *)
(***************************************************************************)

\* The cache holds a finite number of entries.
LEMMA KeptFinite == IsFiniteSet(Kept) /\ Cardinality(Kept) \in Nat
<1>1. IsFiniteSet(Kinds)
  <2>1. IsFiniteSet({"pos"} \cup {"neg"})
    BY FS_Singleton, FS_AddElement
  <2>2. Kinds = {"pos"} \cup {"neg"}
    BY DEF Kinds
  <2> QED BY <2>1, <2>2
<1>2. IsFiniteSet(CacheKeys)
  BY <1>1, ResolverAssumption, FS_Product DEF CacheKeys
<1>3. Kept \in SUBSET CacheKeys
  BY DEF Kept
<1> QED BY <1>2, <1>3, FS_Subset, FS_CardinalityType

\* Filling the cache keeps its limit: it makes room when it has none and does
\* not when it replaces an entry.
LEMMA PutBounded ==
    ASSUME Inv, CacheBounded, NEW key \in CacheKeys, NEW e \in CacheEntry, Put(key, e)
    PROVE  CacheBounded'
<1>1. entries \in [CacheKeys -> CacheEntry \cup {None}] /\ e # None /\ MaxEntries \in Nat
  BY ResolverAssumption DEF Inv, TypeOK
<1>2. CASE ~ (Full /\ entries[key] = None)
  <2>1. entries' = [entries EXCEPT ![key] = e]
    BY <1>2 DEF Put
  <2>2. Kept' = Kept \cup {key}
    BY <1>1, <2>1 DEF Kept
  <2>3. Cardinality(Kept') = IF key \in Kept THEN Cardinality(Kept) ELSE Cardinality(Kept) + 1
    BY <2>2, KeptFinite, FS_AddElement
  <2>4. key \in Kept <=> entries[key] # None
    BY DEF Kept
  <2> QED BY <1>1, <1>2, <2>3, <2>4, KeptFinite DEF CacheBounded, Full
<1>3. CASE Full /\ entries[key] = None
  <2>1. PICK victim \in Oldest : entries' = [entries EXCEPT ![victim] = None, ![key] = e]
    BY <1>3 DEF Put
  <2>2. victim \in Kept /\ victim \in CacheKeys /\ key \notin Kept /\ victim # key
    BY <1>3, <2>1 DEF Oldest, Kept
  <2>3. Kept' = (Kept \ {victim}) \cup {key}
    BY <1>1, <2>1, <2>2 DEF Kept
  <2> DEFINE Rest == Kept \ {victim}
  <2>4. IsFiniteSet(Rest) /\ Cardinality(Rest) = Cardinality(Kept) - 1 /\ key \notin Rest
    BY <2>2, KeptFinite, FS_RemoveElement
  <2>5. Cardinality(Rest \cup {key}) = Cardinality(Rest) + 1
    BY <2>4, FS_AddElement
  <2> QED BY <2>3, <2>4, <2>5, KeptFinite DEF CacheBounded
<1> QED BY <1>2, <1>3

\* Every step keeps the limit.
LEMMA StepBounded == Inv /\ CacheBounded /\ [Next]_vars => CacheBounded'
<1> SUFFICES ASSUME Inv, CacheBounded, [Next]_vars PROVE CacheBounded'
  OBVIOUS
<1>1. CASE entries' = entries
  <2>1. Kept' = Kept
    BY <1>1 DEF Kept
  <2> QED BY <2>1 DEF CacheBounded
<1>2. ASSUME NEW q \in Queriers, AnswerPositive(q) PROVE CacheBounded'
  <2> DEFINE list == ListOf(q)
  <2>1. PICK key \in CacheKeys : key = <<asked[q], "pos">>
    BY <1>2, Found DEF AnswerPositive, CacheKeys, Kinds
  <2>2. PICK e \in CacheEntry : e = [rdata |-> First(list), ttl |-> Shortest(list),
                                     storedAt |-> now, version |-> read[q]]
    <3>1. list \in Lists /\ list # << >> /\ now \in Nat /\ read[q] \in Nat \ {0}
      BY <1>2, Found DEF AnswerPositive
    <3>2. First(list) \in Values /\ Shortest(list) \in Nat
      BY <3>1, FirstOfList, ShortestType, ResolverAssumption
    <3> HIDE DEF list
    <3> QED BY <3>1, <3>2 DEF CacheEntry
  <2>3. Put(key, e)
    BY <1>2, <2>1, <2>2 DEF AnswerPositive, CacheKey
  <2> QED BY <2>3, PutBounded
<1>3. ASSUME NEW q \in Queriers, AnswerNegative(q) PROVE CacheBounded'
  <2>1. PICK key \in CacheKeys : key = <<asked[q], "neg">>
    BY <1>3, Found DEF AnswerNegative, CacheKeys, Kinds
  <2>2. PICK e \in CacheEntry : e = [rdata |-> None, ttl |-> Minimum,
                                     storedAt |-> now, version |-> read[q]]
    BY <1>3, Found, ResolverAssumption DEF AnswerNegative, CacheEntry
  <2>3. Put(key, e)
    BY <1>3, <2>1, <2>2 DEF AnswerNegative, CacheKey
  <2> QED BY <2>3, PutBounded
<1>4. ASSUME NEW t \in 0..now, Sweep(t) PROVE CacheBounded'
  <2>1. Kept' \in SUBSET Kept
    BY <1>4 DEF Sweep, Kept
  <2>2. Cardinality(Kept') <= Cardinality(Kept) /\ Cardinality(Kept') \in Nat
    BY <2>1, KeptFinite, FS_Subset, FS_CardinalityType
  <2> QED BY <2>2, KeptFinite, ResolverAssumption DEF CacheBounded
<1>5. \/ entries' = entries
      \/ \E q \in Queriers : AnswerPositive(q) \/ AnswerNegative(q)
      \/ \E t \in 0..now : Sweep(t)
  BY DEF Next, Resolve, Ask, Hit, Miss, NoZone, LookUp, Refuse, Change, Tick, vars
<1> QED BY <1>1, <1>2, <1>3, <1>4, <1>5

\* The cache never holds more than maxEntries answers, however many queries fill
\* it and whatever the clock does.
THEOREM CacheWithinLimit == Spec => []CacheBounded
<1>1. Init => CacheBounded
  <2> SUFFICES ASSUME Init PROVE CacheBounded
    OBVIOUS
  <2>1. Kept = {}
    BY DEF Init, Kept
  <2> QED BY <2>1, FS_EmptySet, ResolverAssumption DEF CacheBounded
<1> QED BY <1>1, InitInv, StepInv, StepBounded, PTL DEF Spec

-----------------------------------------------------------------------------
(***************************************************************************)
(* The end of old answers.                                                 *)
(***************************************************************************)

\* A reply is of the past, and it is the current one unless the question was
\* stirred less than the longest time to live before it.
Timely ==
    \A q \in Queriers : reply[q] # None =>
        LET r == reply[q] IN
        /\ r.at <= now
        /\ r.version = Version(r.question) \/ r.at < stirred[r.question] + MaxTTL

\* A reply stays timely while its question's content and the clock move on.
LEMMA StaysTimely ==
    ASSUME MaxTTL > 0, Inv, Timely, NEW p \in Queriers, reply[p] # None, reply'[p] = reply[p],
           now' \in Nat, now' >= now, stirred' \in [Questions -> Nat],
           \A k \in Questions :
              /\ stirred'[k] >= stirred[k]
              /\ Len(past'[k]) = Len(past[k]) \/ stirred'[k] = now
    PROVE  /\ reply'[p].at <= now'
           /\ \/ reply'[p].version = Len(past'[reply'[p].question])
              \/ reply'[p].at < stirred'[reply'[p].question] + MaxTTL
<1>1. reply[p] \in Replies
  BY DEF Inv, TypeOK
<1>2. reply[p].question \in Questions /\ reply[p].at \in Nat
  BY <1>1 DEF Replies
<1>3. now \in Nat /\ MaxTTL \in Nat /\ stirred[reply[p].question] \in Nat
  BY <1>2, ResolverAssumption DEF Inv, TypeOK
<1>4. /\ reply[p].at <= now
      /\ \/ reply[p].version = Len(past[reply[p].question])
         \/ reply[p].at < stirred[reply[p].question] + MaxTTL
  BY DEF Timely, Version
<1>5. PICK k \in Questions : k = reply[p].question
  BY <1>2
<1>6. /\ stirred'[k] >= stirred[k] /\ stirred'[k] \in Nat
      /\ Len(past'[k]) = Len(past[k]) \/ stirred'[k] = now
  OBVIOUS
<1> QED BY <1>2, <1>3, <1>4, <1>5, <1>6

\* The clock and the time of a stir never go back, and a question that has a new
\* content is stirred now.
LEMMA TimeGoesOn ==
    ASSUME Inv, [Next]_vars
    PROVE  /\ now' \in Nat /\ now' >= now /\ stirred' \in [Questions -> Nat]
           /\ \A k \in Questions :
                 /\ stirred'[k] >= stirred[k]
                 /\ Len(past'[k]) = Len(past[k]) \/ stirred'[k] = now
<1>1. now \in Nat /\ stirred \in [Questions -> 0..now] /\ stirred \in [Questions -> Nat]
  BY ResolverAssumption DEF Inv, TypeOK
<1>2. CASE UNCHANGED <<past, now, stirred>>
  BY <1>1, <1>2
<1>3. CASE Tick
  BY <1>1, <1>3 DEF Tick
<1>4. ASSUME NEW k \in Questions, NEW list \in Lists, Change(k, list)
      PROVE  /\ now' = now /\ stirred' = [stirred EXCEPT ![k] = now]
             /\ past' = [past EXCEPT ![k] = Append(@, list)]
  BY <1>4 DEF Change
<1>5. CASE \E k \in Questions, list \in Lists : Change(k, list)
  <2>1. PICK k \in Questions, list \in Lists :
           /\ now' = now /\ stirred' = [stirred EXCEPT ![k] = now]
           /\ past' = [past EXCEPT ![k] = Append(@, list)]
    BY <1>4, <1>5
  <2>2. past \in [Questions -> Seq(Lists) \ {<< >>}]
    BY DEF Inv, TypeOK
  <2> QED BY <1>1, <2>1, <2>2
<1>6. ASSUME NEW q \in Queriers, AnswerPositive(q) \/ AnswerNegative(q)
      PROVE  /\ UNCHANGED <<past, now>> /\ asked[q] \in Questions
             /\ \E s \in 0..now : s >= stirred[asked[q]] /\ stirred' = [stirred EXCEPT ![asked[q]] = s]
  <2>1. pc[q] = "found" /\ Stir(q) /\ UNCHANGED <<past, now>>
    BY <1>6 DEF AnswerPositive, AnswerNegative
  <2> QED BY <2>1, Stirred, Found
<1>7. CASE \E q \in Queriers : AnswerPositive(q) \/ AnswerNegative(q)
  <2>1. PICK q \in Queriers, s \in 0..now :
           /\ UNCHANGED <<past, now>> /\ asked[q] \in Questions
           /\ s >= stirred[asked[q]] /\ stirred' = [stirred EXCEPT ![asked[q]] = s]
    BY <1>6, <1>7
  <2>2. PICK k \in Questions : k = asked[q]
    BY <2>1
  <2>3. stirred' = [stirred EXCEPT ![k] = s] /\ s \in Nat /\ s >= stirred[k]
    BY <1>1, <2>1, <2>2
  <2>4. stirred' \in [Questions -> Nat] /\ \A k2 \in Questions : stirred'[k2] >= stirred[k2]
    BY <1>1, <2>3
  <2> QED BY <1>1, <2>1, <2>4
<1>8. \/ UNCHANGED <<past, now, stirred>>
      \/ \E k \in Questions, list \in Lists : Change(k, list)
      \/ \E q \in Queriers : AnswerPositive(q) \/ AnswerNegative(q)
      \/ Tick
  BY DEF Next, Resolve, Ask, Hit, Miss, NoZone, LookUp, Refuse, Sweep, vars
<1> QED BY <1>2, <1>3, <1>5, <1>7, <1>8

\* A hit on an entry whose content is gone is still in time.
LEMMA HitTimely ==
    ASSUME Inv, NEW q \in Queriers, NEW kind \in Kinds, NEW place \in {"positive", "negative"},
           Hit(q, place, kind)
    PROVE  /\ \A p \in Queriers \ {q} : reply'[p] = reply[p]
           /\ reply'[q].at = now /\ now' = now
           /\ \/ reply'[q].version = Len(past'[reply'[q].question])
              \/ now < stirred'[reply'[q].question] + MaxTTL
<1> DEFINE k == asked[q]
           e == entries[<<k, kind>>]
<1>1. k \in Questions
  BY DEF Hit, Inv, TypeOK
<1>2. e # None /\ <<k, kind>> \in CacheKeys /\ e = EntryFor(q, kind) /\ ~ Expired(e, now)
  BY <1>1 DEF Hit, Live, EntryFor, CacheKey, CacheKeys
<1>3. e \in CacheEntry /\ SoundEntry(k, kind, e)
  BY <1>1, <1>2 DEF Inv, TypeOK, Grounded
<1>4. /\ reply' = [reply EXCEPT ![q] = Reply(k, e.rdata, TTLOf(e), e.version)]
      /\ UNCHANGED <<past, now, stirred>>
  BY <1>2 DEF Hit, Respond
<1>5. /\ reply'[q].at = now /\ reply'[q].version = e.version /\ reply'[q].question = k
      /\ \A p \in Queriers \ {q} : reply'[p] = reply[p]
  BY <1>4 DEF Reply, Inv, TypeOK
<1>6. now < e.storedAt + e.ttl /\ e.storedAt \in Nat /\ e.ttl \in Nat /\ now \in Nat
  BY <1>2, <1>3, ResolverAssumption DEF Expired, CacheEntry, Inv, TypeOK
<1>7. stirred[k] \in Nat /\ MaxTTL \in Nat
  BY <1>1, ResolverAssumption DEF Inv, TypeOK
<1>8. /\ e.ttl <= MaxTTL
      /\ e.version # Len(past[k]) => e.storedAt <= stirred[k]
  BY <1>3 DEF SoundEntry, Version
<1> HIDE DEF e
<1>9. e.version = Len(past[k]) \/ now < stirred[k] + MaxTTL
  BY <1>6, <1>7, <1>8
<1> QED BY <1>4, <1>5, <1>9

\* An authoritative answer is of now, and stirs its question if it is late.
LEMMA AnswerTimely ==
    ASSUME MaxTTL > 0, Inv, NEW q \in Queriers, AnswerPositive(q) \/ AnswerNegative(q)
    PROVE  /\ \A p \in Queriers \ {q} : reply'[p] = reply[p]
           /\ reply'[q].at = now /\ now' = now
           /\ \/ reply'[q].version = Len(past'[reply'[q].question])
              \/ now < stirred'[reply'[q].question] + MaxTTL
<1>1. PICK v, t : Respond(q, Reply(asked[q], v, t, read[q]))
  BY DEF AnswerPositive, AnswerNegative
<1>2. pc[q] = "found" /\ Stir(q) /\ UNCHANGED <<past, now>>
  BY DEF AnswerPositive, AnswerNegative
<1>3. PICK s \in 0..now :
         /\ stirred' = [stirred EXCEPT ![asked[q]] = s]
         /\ read[q] # Version(asked[q]) => s = now
  BY <1>2, Stirred
<1>4. asked[q] \in Questions /\ now \in Nat /\ MaxTTL \in Nat
  BY <1>2, Found, ResolverAssumption
<1>5. /\ reply'[q].at = now /\ reply'[q].version = read[q] /\ reply'[q].question = asked[q]
      /\ \A p \in Queriers \ {q} : reply'[p] = reply[p]
  BY <1>1 DEF Respond, Reply, Inv, TypeOK
<1>6. stirred'[asked[q]] = s
  BY <1>3, <1>4 DEF Inv, TypeOK
<1> QED BY <1>2, <1>3, <1>4, <1>5, <1>6 DEF Version

\* Every step keeps replies timely.
LEMMA StepTimely ==
    ASSUME MaxTTL > 0
    PROVE  Inv /\ Timely /\ [Next]_vars => Timely'
<1> SUFFICES ASSUME Inv, Timely, [Next]_vars, NEW p \in Queriers, reply'[p] # None
             PROVE  /\ reply'[p].at <= now'
                    /\ \/ reply'[p].version = Len(past'[reply'[p].question])
                       \/ reply'[p].at < stirred'[reply'[p].question] + MaxTTL
  BY DEF Timely, Version
<1>1. CASE reply'[p] = reply[p]
  BY <1>1, TimeGoesOn, StaysTimely
<1>2. CASE reply'[p] # reply[p]
  <2>1. \/ \E q \in Queriers : \/ Hit(q, "positive", "pos") \/ Hit(q, "negative", "neg")
                               \/ AnswerPositive(q) \/ AnswerNegative(q)
        \/ \A q \in Queriers : reply'[q] = reply[q] \/ reply'[q] = None
    BY DEF Next, Resolve, Ask, Miss, NoZone, LookUp, Refuse, Respond, Sweep, Change, Tick, vars,
           Inv, TypeOK
  <2>2. PICK q \in Queriers : \/ Hit(q, "positive", "pos") \/ Hit(q, "negative", "neg")
                              \/ AnswerPositive(q) \/ AnswerNegative(q)
    BY <1>2, <2>1
  <2>3. /\ \A r \in Queriers \ {q} : reply'[r] = reply[r]
        /\ reply'[q].at = now /\ now' = now
        /\ \/ reply'[q].version = Len(past'[reply'[q].question])
           \/ now < stirred'[reply'[q].question] + MaxTTL
    <3>1. "pos" \in Kinds /\ "neg" \in Kinds
      BY DEF Kinds
    <3> QED BY <2>2, <3>1, HitTimely, AnswerTimely
  <2>4. p = q /\ now \in Nat
    BY <1>2, <2>3, ResolverAssumption DEF Inv, TypeOK
  <2> QED BY <2>3, <2>4
<1> QED BY <1>1, <1>2

\* Old answers end, though no update tells the cache: once the longest time to
\* live has passed since a question was last stirred, its replies are current.
THEOREM OldAnswersDie == MaxTTL > 0 => (Spec => []OldAnswersEnd)
<1> SUFFICES ASSUME MaxTTL > 0 PROVE Spec => []OldAnswersEnd
  OBVIOUS
<1>1. Init => Timely
  BY DEF Init, Timely
<1>2. Inv /\ Timely => OldAnswersEnd
  <2> SUFFICES ASSUME Inv, Timely, NEW q \in Queriers, reply[q] # None,
                      reply[q].at >= stirred[reply[q].question] + MaxTTL
               PROVE  reply[q].version = Version(reply[q].question)
    BY DEF OldAnswersEnd
  <2>1. reply[q] \in Replies
    BY DEF Inv, TypeOK
  <2>2. reply[q].question \in Questions /\ reply[q].at \in Nat
    BY <2>1 DEF Replies
  <2>3. stirred[reply[q].question] \in Nat /\ MaxTTL \in Nat
    BY <2>2, ResolverAssumption DEF Inv, TypeOK
  <2> QED BY <2>2, <2>3 DEF Timely
<1>3. Inv /\ Timely /\ [Next]_vars => Timely'
  BY StepTimely
<1> QED BY <1>1, <1>2, <1>3, InitInv, StepInv, PTL DEF Spec
=============================================================================
