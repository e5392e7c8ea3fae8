----------------------------- MODULE WireProofs -----------------------------
(***************************************************************************)
(* Proofs about the resolver asked in messages, for every name, type and   *)
(* SOA, and on top of what ResolverProofs shows of every reply.            *)
(***************************************************************************)
EXTENDS WireResolver, ResolverProofs

-----------------------------------------------------------------------------
(***************************************************************************)
(* What is built and what is read back.                                    *)
(***************************************************************************)

\* The absolute form of a name keeps its text and depends on nothing else.
LEMMA FqdnType ==
    ASSUME NEW n \in Name
    PROVE  Fqdn(n) \in Name /\ Fqdn(n).text = n.text /\ Fqdn(n).dot = TRUE
BY DEF Fqdn, Name

LEMMA SameName ==
    ASSUME NEW n \in Name, NEW other \in Name, n.text = other.text, n.dot = other.dot
    PROVE  n = other
BY DEF Name

LEMMA FqdnOfText ==
    ASSUME NEW n \in Name, NEW other \in Name, n.text = other.text
    PROVE  Fqdn(n) = Fqdn(other)
BY FqdnType, SameName

\* A message that asks for a type with a code, and what is read in it.
LEMMA QueryReadBack ==
    ASSUME NEW n \in Name, NEW type \in RecordTypes, Packs(n)
    PROVE  /\ ~ BuildQuery(n, type).response
           /\ BuildQuery(n, type).question = [name |-> Fqdn(n), code |-> ToWireType(type)]
           /\ ParseQuery(BuildQuery(n, type)) =
                 [name |-> ReadBack(n), type |-> FromWireType(ToWireType(type))]
<1>1. BuildQuery(n, type) = Message(FALSE, "success", n, ToWireType(type))
  BY DEF BuildQuery
<1>2. TrimDot(Fqdn(n)) = ReadBack(n)
  BY DEF TrimDot, Fqdn, ReadBack, Name
<1> QED BY <1>1, <1>2 DEF Message, ParseQuery

\* A type that is sent is read as it was, and no other type is sent as a code.
LEMMA TypesReadBack ==
    /\ \A type \in WireTypes : FromWireType(ToWireType(type)) = type
    /\ \A type \in RecordTypes : /\ ToWireType(type) \in Codes
                                 /\ ToWireType(FromWireType(ToWireType(type))) = ToWireType(type)
                                 /\ FromWireType(ToWireType(type)) \in RecordTypes
BY DEF ToWireType, FromWireType, WireTypes, RecordTypes, Codes

\* Names and types come through a message as they were put in, and so does the
\* serial a notification announces, for every name, type and serial.
THEOREM MessagesReadBack ==
    /\ RoundTrips
    /\ \A n \in Name, serial \in Nat : Packs(n) =>
          ParseNotifySerial(BuildNotify(n, serial)) = [zone |-> ReadBack(n), serial |-> serial]
<1>1. ASSUME NEW n \in Name, NEW serial \in Nat, Packs(n)
      PROVE  ParseNotifySerial(BuildNotify(n, serial)) = [zone |-> ReadBack(n), serial |-> serial]
  <2> DEFINE soa == [name |-> Fqdn(n), code |-> "SOA", ttl |-> 0,
                     soa |-> [mname |-> Fqdn(n), rname |-> Fqdn(n), serial |-> serial,
                              minimum |-> 0]]
  <2>1. Fqdn(n) \in Name
    BY DEF Fqdn, Name
  <2>2. soa \in SoaSections /\ soa # Absent
    BY <2>1, WireAssumption DEF SoaSections, Soa
  <2>3. /\ BuildNotify(n, serial).additional = soa
        /\ BuildNotify(n, serial).question.name = Fqdn(n)
    BY <1>1 DEF BuildNotify, Message
  <2>4. TrimDot(Fqdn(n)) = ReadBack(n)
    BY DEF TrimDot, Fqdn, ReadBack, Name
  <2>5. soa.code = "SOA" /\ soa.soa.serial = serial
    OBVIOUS
  <2> QED BY <2>2, <2>3, <2>4, <2>5 DEF ParseNotifySerial
<1>2. ASSUME NEW n \in Name, NEW type \in WireTypes, Packs(n)
      PROVE  ParseQuery(BuildQuery(n, type)) = [name |-> ReadBack(n), type |-> type]
  <2>1. type \in RecordTypes
    BY DEF RecordTypes
  <2> QED BY <1>2, <2>1, QueryReadBack, TypesReadBack
<1>3. 0 \in Nat /\ ZoneSoa.serial \in Nat
  BY WireResolverAssumption DEF Soa
<1> QED BY <1>1, <1>2, <1>3 DEF RoundTrips

-----------------------------------------------------------------------------
(***************************************************************************)
(* What a client reads.                                                    *)
(***************************************************************************)

\* What a message that asks k says, and what the resolver reads in it.
LEMMA MessageAsking ==
    ASSUME NEW k \in Questions, NEW m \in Asking[k]
    PROVE  \E n \in Name, code \in Codes :
              /\ Packs(n)
              /\ m.question = [name |-> Fqdn(n), code |-> code]
              /\ ParseQuery(m) = [name |-> ReadBack(n), type |-> FromWireType(code)]
              /\ ParseQuery(m) \in Query
              /\ ToWireType(FromWireType(code)) = code
              /\ k = <<Lower[n.text], FromWireType(code)>>
<1>1. PICK n \in Name, type \in RecordTypes :
          m = BuildQuery(n, type) /\ m # Error /\ Canonical(ParseQuery(m)) = k
  BY DEF Asking
<1>2. Packs(n)
  BY <1>1 DEF BuildQuery
<1>3. ReadBack(n) \in Name /\ ReadBack(n).text = n.text
  BY DEF ReadBack, Name
<1>4. /\ ParseQuery(m) = [name |-> ReadBack(n), type |-> FromWireType(ToWireType(type))]
      /\ m.question = [name |-> Fqdn(n), code |-> ToWireType(type)]
  BY <1>1, <1>2, QueryReadBack
<1>5. k = <<Lower[n.text], FromWireType(ToWireType(type))>>
  BY <1>1, <1>3, <1>4 DEF Canonical
<1>6. ParseQuery(m) \in Query
  BY <1>3, <1>4, TypesReadBack DEF Query
<1> QED BY <1>2, <1>4, <1>5, <1>6, TypesReadBack

\* A message is an answer to what was asked, and says that there is no such name
\* only when the reply does.
LEMMA ResponseSays ==
    ASSUME NEW r \in Replies, NEW k \in Questions, r.question = k, NEW m \in Asking[k],
           ResolveWire(m, r) # Error
    PROVE  /\ ResolveWire(m, r).response
           /\ ResolveWire(m, r).question = m.question
           /\ ResolveWire(m, r).rcode = "name-error" => r.rdata = None
           /\ ResolveWire(m, r).rcode # "name-error" =>
                 /\ r.rdata # None
                 /\ ResolveWire(m, r).answer.code = m.question.code
                 /\ Lower[ResolveWire(m, r).answer.name.text] = Lower[m.question.name.text]
                 /\ ResolveWire(m, r).answer.value = r.rdata
<1>1. PICK n \in Name, code \in Codes :
          /\ Packs(n)
          /\ m.question = [name |-> Fqdn(n), code |-> code]
          /\ ParseQuery(m) = [name |-> ReadBack(n), type |-> FromWireType(code)]
          /\ ParseQuery(m) \in Query
          /\ ToWireType(FromWireType(code)) = code
          /\ k = <<Lower[n.text], FromWireType(code)>>
  BY MessageAsking
<1> DEFINE query == ParseQuery(m)
           owner == [text |-> k[1], dot |-> FALSE]
<1>2. query # Error /\ r # None
  BY <1>1, WireAssumption, ResolverAssumption
<1>3. Fqdn(query.name) = Fqdn(n) /\ ToWireType(query.type) = code
  <2>1. query.name = ReadBack(n) /\ query.type = FromWireType(code)
    BY <1>1
  <2>2. ReadBack(n) \in Name /\ ReadBack(n).text = n.text
    BY DEF ReadBack, Name
  <2> QED BY <1>1, <2>1, <2>2, FqdnOfText
<1>4. CASE r.rdata = None
  <2>1. ResolveWire(m, r) = BuildNXDomain(query, SoaFor(query))
    BY <1>2, <1>4 DEF ResolveWire
  <2> QED BY <1>1, <1>3, <1>4, <2>1 DEF BuildNXDomain, Message
<1>5. CASE r.rdata # None
  <2>1. ResolveWire(m, r) = BuildAnswer(query, owner, k[2], r.ttl, r.rdata)
    BY <1>2, <1>5 DEF ResolveWire
  <2>2. Appends(k[2], r.rdata)
    BY <2>1 DEF BuildAnswer
  <2>3. k[2] = code
    BY <1>1, <2>2 DEF Appends, AnswerTypes, FromWireType
  <2>4. Lower[k[1]] = Lower[n.text] /\ Fqdn(owner).text = k[1] /\ Fqdn(n).text = n.text
    BY <1>1, WireResolverAssumption DEF Fqdn, Name
  <2>5. ResolveWire(m, r) =
            [Message(TRUE, "success", query.name, ToWireType(query.type)) EXCEPT
                !.answer = [name |-> Fqdn(owner), code |-> k[2], ttl |-> r.ttl, value |-> r.rdata]]
    BY <2>1 DEF BuildAnswer
  <2>6. /\ ResolveWire(m, r).response
        /\ ResolveWire(m, r).rcode = "success"
        /\ ResolveWire(m, r).question = [name |-> Fqdn(query.name), code |-> ToWireType(query.type)]
        /\ ResolveWire(m, r).answer =
              [name |-> Fqdn(owner), code |-> k[2], ttl |-> r.ttl, value |-> r.rdata]
    BY <2>5 DEF Message
  <2>7. /\ m.question.code = code /\ m.question.name = Fqdn(n)
        /\ ResolveWire(m, r).answer.name = Fqdn(owner)
        /\ ResolveWire(m, r).answer.code = k[2] /\ ResolveWire(m, r).answer.value = r.rdata
    BY <1>1, <2>6
  <2> QED BY <1>1, <1>3, <1>5, <2>3, <2>4, <2>6, <2>7
<1> QED BY <1>4, <1>5

\* What a client reads in a message is about the name and type it asked for, in
\* whatever letters it asked, and true of the records the zone has for these two;
\* of the other types of the name a denial says nothing.
THEOREM MessagesTrue == Spec => []WireRepliesTrue
<1>1. TypeOK /\ RepliesWereTrue => WireRepliesTrue
  <2> SUFFICES ASSUME TypeOK, RepliesWereTrue, NEW q \in Queriers, reply[q] # None,
                      NEW m \in Asking[reply[q].question],
                      ResolveWire(m, reply[q]) # Error
               PROVE  LET r == reply[q]
                          s == ResolveWire(m, r)
                          list == past[r.question][r.version]
                      IN /\ s.response
                         /\ s.question = m.question
                         /\ s.rcode = "name-error" => list = << >>
                         /\ s.rcode # "name-error" =>
                               /\ s.answer.code = m.question.code
                               /\ Lower[s.answer.name.text] = Lower[m.question.name.text]
                               /\ \E i \in 1..Len(list) : list[i].rdata = s.answer.value
    BY DEF WireRepliesTrue
  <2>1. reply[q] \in Replies /\ reply[q].question \in Questions
    BY DEF TypeOK, Replies
  <2>2. TrueOf(reply[q].rdata, past[reply[q].question][reply[q].version])
    BY DEF RepliesWereTrue
  <2> QED BY <2>1, <2>2, ResponseSays DEF TrueOf
<1> QED BY <1>1, TypeCorrect, RepliesTrue, PTL

-----------------------------------------------------------------------------
(***************************************************************************)
(* What can be sent, and how long a negative answer may be kept.           *)
(***************************************************************************)

\* Negative entries and replies are for as long as the zone says.
EntriesTimed ==
    \A k \in Questions : entries[<<k, "neg">>] # None => entries[<<k, "neg">>].ttl = Minimum

RepliesTimed ==
    \A q \in Queriers : reply[q] # None /\ reply[q].rdata = None => reply[q].ttl = Minimum

\* Filling the cache with a positive entry, or a negative one for the right time,
\* keeps the negative entries right.
LEMMA PutTimed ==
    ASSUME Inv, EntriesTimed, NEW k \in Questions, NEW kind \in Kinds, NEW e,
           Put(<<k, kind>>, e), kind = "neg" => e.ttl = Minimum
    PROVE  EntriesTimed'
<1>1. entries \in [CacheKeys -> CacheEntry \cup {None}]
  BY DEF Inv, TypeOK
<1>2. \A other \in CacheKeys :
          \/ entries'[other] = entries[other]
          \/ entries'[other] = None
          \/ other = <<k, kind>> /\ entries'[other] = e
  BY <1>1 DEF Put
<1>3. \A k2 \in Questions : <<k2, "neg">> \in CacheKeys
  BY DEF CacheKeys, Kinds
<1> QED BY <1>2, <1>3 DEF EntriesTimed

\* A step that takes entries away or leaves them alone.
LEMMA EntriesKept ==
    ASSUME EntriesTimed,
           \A key \in CacheKeys : entries'[key] = entries[key] \/ entries'[key] = None
    PROVE  EntriesTimed'
<1>1. \A k \in Questions : <<k, "neg">> \in CacheKeys
  BY DEF CacheKeys, Kinds
<1> QED BY <1>1 DEF EntriesTimed

\* A reply in place of the last one of a querier.
LEMMA ReplyTimed ==
    ASSUME Inv, RepliesTimed, NEW q \in Queriers, NEW k, NEW v, NEW ttl, NEW version,
           Respond(q, Reply(k, v, ttl, version)), v = None => ttl = Minimum
    PROVE  RepliesTimed'
<1>1. reply' = [reply EXCEPT ![q] = Reply(k, v, ttl, version)]
  BY DEF Respond
<1>2. reply \in [Queriers -> Replies \cup {None}]
  BY DEF Inv, TypeOK
<1>3. Reply(k, v, ttl, version).rdata = v /\ Reply(k, v, ttl, version).ttl = ttl
  BY DEF Reply
<1> QED BY <1>1, <1>2, <1>3 DEF RepliesTimed

\* A step of a query keeps the times of negative answers.
LEMMA QueryTimed ==
    ASSUME Inv, EntriesTimed, RepliesTimed, NEW q \in Queriers, Resolve(q)
    PROVE  EntriesTimed' /\ RepliesTimed'
<1>1. reply \in [Queriers -> Replies \cup {None}]
  BY DEF Inv, TypeOK
<1>2. ASSUME NEW k \in Questions, Ask(q, k) PROVE EntriesTimed' /\ RepliesTimed'
  BY <1>1, <1>2 DEF Ask, EntriesTimed, RepliesTimed
<1>3. ASSUME NEW place, NEW kind \in Kinds, Hit(q, place, kind), place # "idle"
      PROVE  EntriesTimed' /\ RepliesTimed'
  <2> DEFINE e == entries[<<asked[q], kind>>]
  <2>1. asked[q] \in Questions
    BY <1>3 DEF Hit, Inv, TypeOK
  <2>2. /\ e # None /\ entries' = entries
        /\ Respond(q, Reply(asked[q], e.rdata, e.ttl, e.version))
    BY <1>3 DEF Hit, EntryFor, CacheKey, Live, TTLOf
  <2>3. e.rdata = None <=> kind = "neg"
    BY <2>1, <2>2 DEF Inv, Grounded, SoundEntry
  <2>4. e.rdata = None => e.ttl = Minimum
    BY <2>1, <2>2, <2>3 DEF EntriesTimed
  <2>5. RepliesTimed'
    BY <2>2, <2>4, ReplyTimed
  <2> QED BY <2>2, <2>5 DEF EntriesTimed
<1>4. CASE Miss(q, "positive", "pos", "negative") \/ Miss(q, "negative", "neg", "authoritative")
           \/ LookUp(q)
  BY <1>4 DEF Miss, LookUp, EntriesTimed, RepliesTimed
<1>5. CASE NoZone(q) \/ Refuse(q)
  BY <1>1, <1>5 DEF NoZone, Refuse, Respond, EntriesTimed, RepliesTimed
<1>6. CASE AnswerPositive(q)
  <2> DEFINE list == ListOf(q)
  <2>1. /\ pc[q] = "found" /\ list # << >>
        /\ Put(<<asked[q], "pos">>, [rdata |-> First(list), ttl |-> Shortest(list),
                                     storedAt |-> now, version |-> read[q]])
        /\ Respond(q, Reply(asked[q], Best(list), Shortest(list), read[q]))
    BY <1>6 DEF AnswerPositive, CacheKey
  <2>2. asked[q] \in Questions /\ list \in Lists
    BY <2>1, Found
  <2>3. Best(list) # None
    BY <2>1, <2>2, BestOfList, ResolverAssumption
  <2>4. "pos" \in Kinds /\ "pos" # "neg"
    BY DEF Kinds
  <2>5. EntriesTimed'
    BY <2>1, <2>2, <2>4, PutTimed
  <2>6. RepliesTimed'
    BY <2>1, <2>3, ReplyTimed
  <2> QED BY <2>5, <2>6
<1>7. CASE AnswerNegative(q)
  <2> DEFINE e == [rdata |-> None, ttl |-> Minimum, storedAt |-> now, version |-> read[q]]
  <2>1. /\ pc[q] = "found" /\ Put(<<asked[q], "neg">>, e) /\ e.ttl = Minimum
        /\ Respond(q, Reply(asked[q], None, Minimum, read[q]))
    BY <1>7 DEF AnswerNegative, CacheKey
  <2>2. asked[q] \in Questions /\ "neg" \in Kinds
    BY <2>1, Found DEF Kinds
  <2>3. EntriesTimed'
    BY <2>1, <2>2, PutTimed
  <2>4. RepliesTimed'
    BY <2>1, ReplyTimed
  <2> QED BY <2>3, <2>4
<1>8. "pos" \in Kinds /\ "neg" \in Kinds /\ "positive" # "idle" /\ "negative" # "idle"
  BY DEF Kinds
<1> QED BY <1>2, <1>3, <1>4, <1>5, <1>6, <1>7, <1>8 DEF Resolve

\* Every step keeps the times of negative answers.
LEMMA StepTimed == Inv /\ EntriesTimed /\ RepliesTimed /\ [Next]_vars => EntriesTimed' /\ RepliesTimed'
<1> SUFFICES ASSUME Inv, EntriesTimed, RepliesTimed, [Next]_vars
             PROVE  EntriesTimed' /\ RepliesTimed'
  OBVIOUS
<1>1. ASSUME NEW k \in Questions, NEW list \in Lists, Change(k, list)
      PROVE  EntriesTimed' /\ RepliesTimed'
  BY <1>1 DEF Change, EntriesTimed, RepliesTimed
<1>2. ASSUME NEW t \in 0..now, Sweep(t) PROVE EntriesTimed' /\ RepliesTimed'
  <2>1. \A key \in CacheKeys : entries'[key] = entries[key] \/ entries'[key] = None
    BY <1>2 DEF Sweep
  <2> QED BY <1>2, <2>1, EntriesKept DEF Sweep, RepliesTimed
<1>3. CASE Tick \/ UNCHANGED vars
  BY <1>3 DEF Tick, vars, EntriesTimed, RepliesTimed
<1> QED BY <1>1, <1>2, <1>3, QueryTimed DEF Next

\* Each message a reply has been asked in is answered, unless the record or its
\* owner cannot be put in a message.
LEMMA ReplySent ==
    ASSUME NEW r \in Replies, NEW k \in Questions, r.question = k, NEW m \in Asking[k],
           r.rdata = None => r.ttl = Minimum
    PROVE  LET s == ResolveWire(m, r) IN
           /\ s = Error => r.rdata # None /\ ~ (k[1] \in Packable /\ Appends(k[2], r.rdata))
           /\ s # Error /\ r.rdata = None /\ TrimDot(m.question.name).text \in InZone =>
                 s.authority.soa.minimum = r.ttl
<1>1. PICK n \in Name, code \in Codes :
          /\ Packs(n)
          /\ m.question = [name |-> Fqdn(n), code |-> code]
          /\ ParseQuery(m) = [name |-> ReadBack(n), type |-> FromWireType(code)]
          /\ ParseQuery(m) \in Query
          /\ ToWireType(FromWireType(code)) = code
          /\ k = <<Lower[n.text], FromWireType(code)>>
  BY MessageAsking
<1> DEFINE query == ParseQuery(m)
           owner == [text |-> k[1], dot |-> FALSE]
           soa == SoaFor(query)
<1>2. query # Error /\ r # None
  BY <1>1, WireAssumption, ResolverAssumption
<1>3. /\ query.name \in Name /\ query.type \in RecordTypes /\ query.name.text = n.text
      /\ Packs(query.name)
  <2>1. query.name = ReadBack(n)
    BY <1>1
  <2>2. query.name.text = n.text
    BY <2>1 DEF ReadBack
  <2> QED BY <1>1, <2>2 DEF Query, Packs
<1>4. soa \in Soa /\ Packs(soa.mname) /\ Packs(soa.rname)
  <2>1. Root \in Texts /\ RootName \in Name /\ NoSoa \in Soa /\ Packs(RootName)
    BY WireAssumption DEF RootName, NoSoa, Name, Soa, Packs
  <2>2. NoSoa.mname = RootName /\ NoSoa.rname = RootName
    BY DEF NoSoa
  <2> QED BY <2>1, <2>2, WireResolverAssumption DEF SoaFor
<1>5. CASE r.rdata = None
  <2> DEFINE section == [name |-> Fqdn(query.name), code |-> "SOA", ttl |-> soa.minimum, soa |-> soa]
  <2>1. ResolveWire(m, r) = BuildNXDomain(query, soa)
    BY <1>2, <1>5 DEF ResolveWire
  <2>2. BuildNXDomain(query, soa) =
           [Message(TRUE, "name-error", query.name, ToWireType(query.type)) EXCEPT
               !.authority = section]
    BY <1>3, <1>4 DEF BuildNXDomain
  <2>3. Fqdn(query.name) \in Name /\ ToWireType(query.type) \in Codes
    BY <1>3 DEF Fqdn, Name, ToWireType, Codes
  <2>4. section \in SoaSections
    BY <1>4, <2>3 DEF SoaSections, Soa
  <2>5. BuildNXDomain(query, soa) =
           [response |-> TRUE, opcode |-> "query", rcode |-> "name-error",
            question |-> [name |-> Fqdn(query.name), code |-> ToWireType(query.type)],
            answer |-> Absent, authority |-> section, additional |-> Absent]
    BY <2>2 DEF Message
  <2>6. BuildNXDomain(query, soa) \in Messages
    BY <2>3, <2>4, <2>5 DEF Messages
  <2>7. ResolveWire(m, r) # Error
    BY <2>1, <2>6, WireAssumption
  <2>8. ResolveWire(m, r).authority.soa = soa
    BY <2>1, <2>5
  <2>9. TrimDot(m.question.name).text = n.text
    BY <1>1 DEF TrimDot, Fqdn, Name
  <2>10. n.text \in InZone => soa = ZoneSoa
    BY <1>3 DEF SoaFor
  <2> QED BY <1>5, <2>7, <2>8, <2>9, <2>10, WireResolverAssumption
<1>6. CASE r.rdata # None
  <2> DEFINE section == [name |-> Fqdn(owner), code |-> k[2], ttl |-> r.ttl, value |-> r.rdata]
  <2> SUFFICES ASSUME k[1] \in Packable, Appends(k[2], r.rdata)
               PROVE  ResolveWire(m, r) # Error
    BY <1>6
  <2>1. ResolveWire(m, r) = BuildAnswer(query, owner, k[2], r.ttl, r.rdata)
    BY <1>2, <1>6 DEF ResolveWire
  <2>2. Packs(owner)
    BY DEF Packs
  <2>3. BuildAnswer(query, owner, k[2], r.ttl, r.rdata) =
           [Message(TRUE, "success", query.name, ToWireType(query.type)) EXCEPT
               !.answer = section]
    BY <1>3, <2>2 DEF BuildAnswer
  <2>4. /\ Fqdn(query.name) \in Name /\ ToWireType(query.type) \in Codes
        /\ Fqdn(owner) \in Name
    BY <1>3, WireAssumption DEF Fqdn, Name, ToWireType, Codes
  <2>5. section \in AnswerSections
    <3>1. k[2] \in Codes
      BY DEF Appends, AnswerTypes, Codes, WireTypes
    <3>2. r.ttl \in Nat /\ r.rdata \in RValues
      BY <1>6, WireResolverAssumption DEF Replies
    <3> QED BY <2>4, <3>1, <3>2 DEF AnswerSections
  <2>6. BuildAnswer(query, owner, k[2], r.ttl, r.rdata) =
           [response |-> TRUE, opcode |-> "query", rcode |-> "success",
            question |-> [name |-> Fqdn(query.name), code |-> ToWireType(query.type)],
            answer |-> section, authority |-> Absent, additional |-> Absent]
    BY <2>3 DEF Message
  <2>7. BuildAnswer(query, owner, k[2], r.ttl, r.rdata) \in Messages
    <3> HIDE DEF section, query, owner
    <3>1. [name |-> Fqdn(query.name), code |-> ToWireType(query.type)] \in
              [name : Name, code : Codes]
      BY <2>4
    <3> QED BY <2>5, <2>6, <3>1 DEF Messages
  <2> QED BY <2>1, <2>7, WireAssumption
<1> QED BY <1>5, <1>6

\* Every reply that has an encoding is sent, in whatever letters it was asked for,
\* and a negative one may be kept for as long as the zone says.
THEOREM MessagesSent == Spec => []WireRepliesSent
<1>1. Init => EntriesTimed /\ RepliesTimed
  BY DEF Init, EntriesTimed, RepliesTimed, CacheKeys, Kinds
<1>2. Inv /\ RepliesTimed => WireRepliesSent
  <2> SUFFICES ASSUME Inv, RepliesTimed, NEW q \in Queriers, reply[q] # None,
                      NEW m \in Asking[reply[q].question]
               PROVE  LET r == reply[q]
                          s == ResolveWire(m, r)
                      IN /\ s = Error => /\ r.rdata # None
                                         /\ ~ (r.question[1] \in Packable
                                               /\ Appends(r.question[2], r.rdata))
                         /\ s # Error /\ r.rdata = None /\ TrimDot(m.question.name).text \in InZone =>
                               s.authority.soa.minimum = r.ttl
    BY DEF WireRepliesSent
  <2>1. reply[q] \in Replies /\ reply[q].question \in Questions
    BY DEF Inv, TypeOK, Replies
  <2>2. reply[q].rdata = None => reply[q].ttl = Minimum
    BY DEF RepliesTimed
  <2> QED BY <2>1, <2>2, ReplySent
<1> QED BY <1>1, <1>2, InitInv, StepInv, StepTimed, PTL DEF Spec
=============================================================================
