------------------------------ MODULE Resolver ------------------------------
(***************************************************************************)
(* Resolver.Resolve over the response cache: queries that fill and read    *)
(* the cache while the zone changes, the clock moves and the sweeper runs. *)
(* No update tells the cache anything.                                     *)
(*                                                                         *)
(* A question is a canonical name with a type.  The zone is what Lookup    *)
(* returns for it; an update, its rollback or a transfer just makes it     *)
(* another list (UpdateService has the steps), and whether the signature   *)
(* of a list verifies is a choice here (Signing has the reasons).  Each    *)
(* step is one critical section of Cache.mu or of the store.               *)
(*                                                                         *)
(* past, version and stirred are not in the program: they say which state  *)
(* of the zone a reply goes back to.                                       *)
(***************************************************************************)
EXTENDS Naturals, Sequences, FiniteSets

CONSTANTS
    Questions,    \* the <<name, type>> pairs that are asked
    Unserved,     \* those of them that lie in no zone
    Lists,        \* the record lists a question may have; << >> is none
    Rank,         \* Rank[v] orders the record values as strings are ordered
    Minimum,      \* SOA.Minimum
    MaxTTL,       \* the longest time to live of a record or of a negative answer
    MaxEntries,   \* Cache.maxEntries
    Queriers,     \* goroutines that resolve
    None,         \* no entry, no reply, no value
    MaxChanges,   \* bound on the changes of the zone
    MaxTime       \* bound on the clock

Values == DOMAIN Rank

Record == [rdata : Values, ttl : 0..MaxTTL]

\* What the cache keeps of an answer, and what a query returns.
CacheEntry == [rdata : Values \cup {None}, ttl : Nat, storedAt : Nat, version : Nat \ {0}]

Replies == [question : Questions, rdata : Values \cup {None}, ttl : Nat,
            version : Nat \ {0}, at : Nat]

ASSUME ResolverAssumption ==
    /\ IsFiniteSet(Questions) /\ Unserved \subseteq Questions
    /\ Rank \in [Values -> Nat]
    /\ Lists \subseteq Seq(Record) /\ << >> \in Lists
    /\ MaxTTL \in Nat /\ Minimum \in 0..MaxTTL
    /\ MaxChanges \in Nat /\ MaxTime \in Nat
    /\ MaxEntries \in Nat \ {0}
    /\ None \notin Values
    /\ None \notin CacheEntry /\ None \notin Replies

VARIABLES
    past,      \* the lists each question has had, the current one last
    now,       \* the clock
    entries,   \* Cache.entries
    pc,        \* where each query is
    asked,     \* its question
    read,      \* the version of the list it looked up
    reply,     \* the last reply of each querier, until it asks again
    stirred    \* when the zone last changed, or a query last stored an old list

vars == <<past, now, entries, pc, asked, read, reply, stirred>>

Version(k) == Len(past[k])

Current(k) == past[k][Version(k)]

Kinds == {"pos", "neg"}

\* A bug: the cache key leaves out the type.
CacheKey_NoType(k, kind) ==
    <<CHOOSE other \in Questions : other[1] = k[1], kind>>

CacheKey(k, kind) == <<k, kind>>

CacheKeys == Questions \X Kinds

-----------------------------------------------------------------------------
(***************************************************************************)
(* What is answered.                                                       *)
(***************************************************************************)

Shortest(list) ==
    CHOOSE t \in {list[i].ttl : i \in 1..Len(list)} :
        \A i \in 1..Len(list) : t <= list[i].ttl

\* answerForRecords answers the last record of the list ...
Best(list) == list[Len(list)].rdata

\* ... and sorts the list, so the entry stored after it begins with the least.
First(list) ==
    CHOOSE v \in {list[i].rdata : i \in 1..Len(list)} :
        \A i \in 1..Len(list) : Rank[v] <= Rank[list[i].rdata]

Reply(k, v, ttl, version) ==
    [question |-> k, rdata |-> v, ttl |-> ttl, version |-> version, at |-> now]

Respond(q, r) ==
    /\ pc' = [pc EXCEPT ![q] = "idle"]
    /\ asked' = [asked EXCEPT ![q] = None]
    /\ read' = [read EXCEPT ![q] = 0]
    /\ reply' = [reply EXCEPT ![q] = r]

-----------------------------------------------------------------------------
(***************************************************************************)
(* The cache.                                                              *)
(***************************************************************************)

Expired(e, t) == t >= e.storedAt + e.ttl

\* A bug: an entry lives through the second in which it expires.
Live_Inclusive(e) == e # None /\ now <= e.storedAt + e.ttl

\* Get returns the entry.
Live(e) == e # None /\ ~ Expired(e, now)

Kept == {k \in CacheKeys : entries[k] # None}

\* A bug: the time to live is counted down by the clock instead of the age.
TTLOf_ByClock(e) == e.ttl - now

\* Get returns the time to live as it was stored.
TTLOf(e) == e.ttl

\* evictLocked picks one of the entries stored first.
Oldest == {k \in Kept : \A other \in Kept : entries[k].storedAt <= entries[other].storedAt}

\* A bug: the limit is noticed one entry too late.
Full_Late == Cardinality(Kept) > MaxEntries

Full == Cardinality(Kept) >= MaxEntries

\* Cache.Put.
Put(key, e) ==
    IF Full /\ entries[key] = None
    THEN \E victim \in Oldest :
            entries' = [entries EXCEPT ![victim] = None, ![key] = e]
    ELSE entries' = [entries EXCEPT ![key] = e]

\* The sweeper's ticker fired at time t, which may be a while ago.
Sweep(t) ==
    /\ entries' = [k \in CacheKeys |->
          IF entries[k] # None /\ Expired(entries[k], t) THEN None ELSE entries[k]]
    /\ UNCHANGED <<past, now, pc, asked, read, reply, stirred>>

-----------------------------------------------------------------------------
(***************************************************************************)
(* Resolver.Resolve.                                                       *)
(***************************************************************************)

Ask(q, k) ==
    /\ pc[q] = "idle"
    /\ pc' = [pc EXCEPT ![q] = "positive"]
    /\ asked' = [asked EXCEPT ![q] = k]
    /\ reply' = [reply EXCEPT ![q] = None]
    /\ UNCHANGED <<past, now, entries, read, stirred>>

\* The entry of a kind for the question of q.
EntryFor(q, kind) == entries[CacheKey(asked[q], kind)]

\* A positive or a negative entry answers.
Hit(q, place, kind) ==
    LET e == EntryFor(q, kind) IN
    /\ pc[q] = place
    /\ Live(e)
    /\ Respond(q, Reply(asked[q], e.rdata, TTLOf(e), e.version))
    /\ UNCHANGED <<past, now, entries, stirred>>

Miss(q, place, kind, next) ==
    /\ pc[q] = place
    /\ ~ Live(EntryFor(q, kind))
    /\ pc' = [pc EXCEPT ![q] = next]
    /\ UNCHANGED <<past, now, entries, asked, read, reply, stirred>>

\* findZone finds none and Resolve fails.
NoZone(q) ==
    /\ pc[q] = "authoritative"
    /\ asked[q] \in Unserved
    /\ Respond(q, None)
    /\ UNCHANGED <<past, now, entries, stirred>>

LookUp(q) ==
    /\ pc[q] = "authoritative"
    /\ asked[q] \notin Unserved
    /\ read' = [read EXCEPT ![q] = Version(asked[q])]
    /\ pc' = [pc EXCEPT ![q] = "found"]
    /\ UNCHANGED <<past, now, entries, asked, reply, stirred>>

\* The list q looked up.
ListOf(q) == past[asked[q]][read[q]]

\* SignResponse does not accept the signature; nothing is cached.
Refuse(q) ==
    /\ pc[q] = "found"
    /\ ListOf(q) # << >>
    /\ Respond(q, None)
    /\ UNCHANGED <<past, now, entries, stirred>>

\* Storing a list the zone no longer has keeps old answers alive.
Stir(q) ==
    stirred' = [stirred EXCEPT ![asked[q]] = IF read[q] = Version(asked[q]) THEN @ ELSE now]

\* The records are cached and the last of them is answered.
AnswerPositive(q) ==
    LET list == ListOf(q)
        ttl  == Shortest(list)
    IN
    /\ pc[q] = "found"
    /\ list # << >>
    /\ Put(CacheKey(asked[q], "pos"), [rdata |-> First(list), ttl |-> ttl,
                                       storedAt |-> now, version |-> read[q]])
    /\ Respond(q, Reply(asked[q], Best(list), ttl, read[q]))
    /\ Stir(q)
    /\ UNCHANGED <<past, now>>

\* StoreNegative, and the name is answered not to exist.
AnswerNegative(q) ==
    /\ pc[q] = "found"
    /\ ListOf(q) = << >>
    /\ Put(CacheKey(asked[q], "neg"), [rdata |-> None, ttl |-> Minimum,
                                       storedAt |-> now, version |-> read[q]])
    /\ Respond(q, Reply(asked[q], None, Minimum, read[q]))
    /\ Stir(q)
    /\ UNCHANGED <<past, now>>

-----------------------------------------------------------------------------
\* The zone has another list for k.
Change(k, list) ==
    /\ k \notin Unserved
    /\ Version(k) <= MaxChanges
    /\ list # Current(k)
    /\ past' = [past EXCEPT ![k] = Append(@, list)]
    /\ stirred' = [stirred EXCEPT ![k] = now]
    /\ UNCHANGED <<now, entries, pc, asked, read, reply>>

Tick ==
    /\ now < MaxTime
    /\ now' = now + 1
    /\ UNCHANGED <<past, entries, pc, asked, read, reply, stirred>>

Init ==
    /\ past \in [Questions -> {<<list>> : list \in Lists}]
    /\ \A k \in Unserved : past[k] = << << >> >>
    /\ now = 0
    /\ entries = [k \in CacheKeys |-> None]
    /\ pc = [q \in Queriers |-> "idle"]
    /\ asked = [q \in Queriers |-> None]
    /\ read = [q \in Queriers |-> 0]
    /\ reply = [q \in Queriers |-> None]
    /\ stirred = [k \in Questions |-> 0]

Resolve(q) ==
    \/ \E k \in Questions : Ask(q, k)
    \/ Hit(q, "positive", "pos")
    \/ Miss(q, "positive", "pos", "negative")
    \/ Hit(q, "negative", "neg")
    \/ Miss(q, "negative", "neg", "authoritative")
    \/ NoZone(q)
    \/ LookUp(q)
    \/ Refuse(q)
    \/ AnswerPositive(q)
    \/ AnswerNegative(q)

Next ==
    \/ \E q \in Queriers : Resolve(q)
    \/ \E k \in Questions, list \in Lists : Change(k, list)
    \/ \E t \in 0..now : Sweep(t)
    \/ Tick

Spec == Init /\ [][Next]_vars

-----------------------------------------------------------------------------
(***************************************************************************)
(* Properties.                                                             *)
(***************************************************************************)

\* The type invariant of the resolver and its cache; a query past the cache has a
\* question, and what it looked up is a content the question has had.
TypeOK ==
    /\ past \in [Questions -> Seq(Lists) \ {<< >>}]
    /\ now \in 0..MaxTime
    /\ entries \in [CacheKeys -> CacheEntry \cup {None}]
    /\ pc \in [Queriers -> {"idle", "positive", "negative", "authoritative", "found"}]
    /\ asked \in [Queriers -> Questions \cup {None}]
    /\ read \in [Queriers -> Nat]
    /\ reply \in [Queriers -> Replies \cup {None}]
    /\ stirred \in [Questions -> 0..now]
    /\ \A q \in Queriers :
          /\ pc[q] # "idle" => asked[q] \in Questions
          /\ pc[q] = "found" => read[q] \in 1..Version(asked[q])

\* Whether v, which None stands for when there is no record, answers a list.
TrueOf(v, list) ==
    IF v = None THEN list = << >> ELSE \E i \in 1..Len(list) : list[i].rdata = v

\* What an entry filed under a question and a kind must be.
SoundEntry(k, kind, e) ==
    /\ e.version \in 1..Version(k)
    /\ TrueOf(e.rdata, past[k][e.version])
    /\ e.rdata = None <=> kind = "neg"
    /\ e.ttl <= MaxTTL
    /\ e.storedAt <= now
    /\ e.version # Version(k) => e.storedAt <= stirred[k]

\* Every entry is filed under the question and kind it answers, was true of the
\* content it was made from, and if that content is gone it was stored before
\* the last change or late store (Cache.Put, Cache.StoreNegative).
Grounded ==
    \A k \in Questions, kind \in Kinds :
        entries[<<k, kind>>] # None => SoundEntry(k, kind, entries[<<k, kind>>])

\* The cache never holds more than maxEntries answers, whatever queries fill it
\* at once (Cache.Put, evictLocked).
CacheBounded == Cardinality(Kept) <= MaxEntries

\* A reply is true of the zone at the version it was read: a value was in the
\* list of that very name and type, and a name that was answered not to exist
\* had none (cacheKey, answerForRecords).
RepliesWereTrue ==
    \A q \in Queriers : reply[q] # None =>
        LET r == reply[q] IN
        /\ r.version \in 1..Version(r.question)
        /\ TrueOf(r.rdata, past[r.question][r.version])

\* Old answers end: when the longest time to live has passed since the zone
\* last changed, or since a slow query last stored what the zone no longer had,
\* every reply is the current one, though no update invalidates the cache
\* (Cache.Get, NegativeValid).
OldAnswersEnd ==
    \A q \in Queriers : reply[q] # None =>
        LET r == reply[q] IN
        r.at >= stirred[r.question] + MaxTTL => r.version = Version(r.question)

\* A question answered from the cache gets the answer the zone gave for the
\* list that is cached (BENZHI_README.md: the cache is one of answers).
CachedAnswerIsTheAnswer ==
    \A q \in Queriers : reply[q] # None /\ reply[q].rdata # None =>
        reply[q].rdata = Best(past[reply[q].question][reply[q].version])
=============================================================================
