---------------------------- MODULE WireResolver ----------------------------
(***************************************************************************)
(* Resolver.ResolveWire: the resolver asked and answering in DNS messages. *)
(* The message is read before Resolve and the answer is built after it, by *)
(* functions of the query and of what Resolve returned; the SOA of a zone  *)
(* never changes.  So a response is a function of a query message and of   *)
(* the reply in Resolver, and whoever asks in a message takes the steps of *)
(* a querier there.                                                        *)
(***************************************************************************)
EXTENDS Resolver, Wire

CONSTANTS
    Lower,     \* Lower[t] is the text CanonicalName makes of t
    InZone,    \* the texts findZone matches with a zone as they are written
    ZoneSoa    \* the SOA of that zone

\* findZone is not canonical, but what it finds for a name in lower case is what
\* Resolve finds for it.
ASSUME WireResolverAssumption ==
    /\ Values \subseteq RValues
    /\ Lower \in [Texts -> Texts]
    /\ \A t \in Texts : Lower[Lower[t]] = Lower[t]
    /\ \A k \in Questions : k[1] \in Texts /\ k[2] \in RecordTypes
    /\ \A k \in Questions : k \notin Unserved /\ Lower[k[1]] = k[1] => k[1] \in InZone
    /\ ZoneSoa \in Soa /\ ZoneSoa.minimum = Minimum
    /\ Packs(ZoneSoa.mname) /\ Packs(ZoneSoa.rname)

\* The name and type Resolve works with.
Canonical(query) == <<Lower[query.name.text], query.type>>

RootName == [text |-> Root, dot |-> FALSE]

NoSoa == [mname |-> RootName, rname |-> RootName, serial |-> 0, minimum |-> 300]

\* A bug: the negative answer always carries the SOA that is used when no zone
\* is found.
SoaFor_Default(query) == NoSoa

\* zoneSOA of the name as it was asked.
SoaFor(query) == IF query.name.text \in InZone THEN ZoneSoa ELSE NoSoa

\* ResolveWire of a message, when Resolve gives r for its query.
ResolveWire(m, r) ==
    LET query == ParseQuery(m) IN
    IF query = Error \/ r = None THEN Error
    ELSE IF r.rdata = None THEN BuildNXDomain(query, SoaFor(query))
    ELSE BuildAnswer(query, [text |-> r.question[1], dot |-> FALSE], r.question[2],
                     r.ttl, r.rdata)

\* The messages that ask a question: in any spelling that can be packed.
Asking ==
    [k \in Questions |->
        {m \in {BuildQuery(n, type) : n \in Name, type \in RecordTypes} :
            m # Error /\ Canonical(ParseQuery(m)) = k}]

-----------------------------------------------------------------------------
(***************************************************************************)
(* Properties.                                                             *)
(***************************************************************************)

\* What a client reads in a response is true of the name and type it asked for:
\* the response is about them, a value is one the zone had for them, and they are
\* denied only if it had none.  The code word for that is name-error, and Resolve
\* sends it without a look at the other types of the name, so a client may not
\* take it to mean that the name does not exist (ResolveWire, BuildAnswer).
WireRepliesTrue ==
    \A q \in Queriers : reply[q] # None =>
        \A m \in Asking[reply[q].question] :
            LET r == reply[q]
                s == ResolveWire(m, r)
                list == past[r.question][r.version]
            IN s # Error =>
                 /\ s.response
                 /\ s.question = m.question
                 /\ s.rcode = "name-error" => list = << >>
                 /\ s.rcode # "name-error" =>
                       /\ s.answer.code = m.question.code
                       /\ Lower[s.answer.name.text] = Lower[m.question.name.text]
                       /\ \E i \in 1..Len(list) : list[i].rdata = s.answer.value

\* Every reply that has an encoding is sent, and a negative one may be kept as
\* long as the zone says, whatever letters the host was asked in (zoneSOA).
WireRepliesSent ==
    \A q \in Queriers : reply[q] # None =>
        \A m \in Asking[reply[q].question] :
            LET r == reply[q]
                s == ResolveWire(m, r)
            IN /\ s = Error => /\ r.rdata # None
                               /\ ~ (r.question[1] \in Packable /\ Appends(r.question[2], r.rdata))
               /\ s # Error /\ r.rdata = None /\ TrimDot(m.question.name).text \in InZone =>
                     s.authority.soa.minimum = r.ttl

\* The root is read with its dot and any other name without.
ReadBack(n) == [text |-> n.text, dot |-> n.text = Root]

\* What a secondary reads in a notification is what its primary meant, and what
\* the resolver reads in a query is what was asked, for every name, any serial
\* and each of the types that has a code (BuildNotify, ParseNotifySerial,
\* BuildQuery, ParseQuery).
RoundTrips ==
    \A n \in Name : Packs(n) =>
        /\ \A serial \in {0, ZoneSoa.serial} :
              ParseNotifySerial(BuildNotify(n, serial)) =
                  [zone |-> ReadBack(n), serial |-> serial]
        /\ \A type \in WireTypes :
              ParseQuery(BuildQuery(n, type)) = [name |-> ReadBack(n), type |-> type]

-----------------------------------------------------------------------------
\* Every answer Resolve gives to a question can be sent (BENZHI_README.md).
EveryReplyEncodes ==
    \A q \in Queriers : reply[q] # None =>
        \A m \in Asking[reply[q].question] : ResolveWire(m, reply[q]) # Error

\* A negative answer carries the minimum of its zone, in whatever letters it was
\* asked for (BENZHI_README.md).
NegativeCarriesMinimum ==
    \A q \in Queriers : reply[q] # None /\ reply[q].rdata = None =>
        \A m \in Asking[reply[q].question] :
            ResolveWire(m, reply[q]).authority.soa.minimum = reply[q].ttl
=============================================================================
