-------------------------------- MODULE Wire --------------------------------
(***************************************************************************)
(* DNS messages (internal/message): what is built, what is read back and   *)
(* what cannot be built.  A message is a record with its header flags, its *)
(* question and its sections; the packing of records into bytes is left to *)
(* the vendored library, which carries what it accepts unchanged.          *)
(*                                                                         *)
(* A name is a text without its last dot, and whether that dot is there.   *)
(* Packable holds the texts the library accepts: no empty label, no label  *)
(* above 63 bytes, 254 bytes in all.                                       *)
(***************************************************************************)
EXTENDS Naturals

CONSTANTS
    Texts,      \* the texts of names
    Root,       \* the empty text
    Packable,   \* those of them that can be packed
    TargetOf,   \* TargetOf[v] is the text of the name a record value spells
    RValues,    \* record values
    Error,      \* what a call that fails returns
    Absent      \* an empty section

Name == [text : Texts, dot : BOOLEAN]

\* The types with a code of their own; RRSIG and the zero type have none.
WireTypes == {"A", "AAAA", "CNAME", "MX", "TXT", "NS", "SOA"}

RecordTypes == WireTypes \cup {"RRSIG", "UNKNOWN"}

Codes == WireTypes \cup {"none"}

Query == [name : Name, type : RecordTypes]

Soa == [mname : Name, rname : Name, serial : Nat, minimum : Nat]

AnswerSections == [name : Name, code : Codes, ttl : Nat, value : RValues]

SoaSections == [name : Name, code : {"SOA"}, ttl : Nat, soa : Soa]

Messages ==
    [response : BOOLEAN, opcode : {"query", "notify"}, rcode : {"success", "name-error"},
     question : [name : Name, code : Codes],
     answer : AnswerSections \cup {Absent},
     authority : SoaSections \cup {Absent}, additional : SoaSections \cup {Absent}]

ASSUME WireAssumption ==
    /\ Root \in Packable /\ Packable \subseteq Texts
    /\ TargetOf \in [RValues -> Texts]
    /\ Error \notin Messages /\ Error \notin Query
    /\ Absent \notin AnswerSections /\ Absent \notin SoaSections

Fqdn(n) == [n EXCEPT !.dot = TRUE]

TrimDot(n) == IF n.text = Root THEN n ELSE [n EXCEPT !.dot = FALSE]

\* A bug: the codes of two types are swapped on the way out.
ToWireType_Swapped(t) ==
    IF t = "A" THEN "TXT" ELSE IF t = "TXT" THEN "A"
    ELSE IF t \in WireTypes THEN t ELSE "none"

ToWireType(t) == IF t \in WireTypes THEN t ELSE "none"

FromWireType(code) == IF code \in WireTypes THEN code ELSE "UNKNOWN"

Packs(n) == n.text \in Packable

Message(response, rcode, n, code) ==
    [response |-> response, opcode |-> "query", rcode |-> rcode,
     question |-> [name |-> Fqdn(n), code |-> code],
     answer |-> Absent, authority |-> Absent, additional |-> Absent]

-----------------------------------------------------------------------------
(***************************************************************************)
(* Queries.                                                                *)
(***************************************************************************)

BuildQuery(n, type) ==
    IF Packs(n) THEN Message(FALSE, "success", n, ToWireType(type)) ELSE Error

\* A message is read as a query unless it is a response; its opcode, its class
\* and its identifier are not looked at.
ParseQuery(m) ==
    IF m.response THEN Error
    ELSE [name |-> TrimDot(m.question.name), type |-> FromWireType(m.question.code)]

-----------------------------------------------------------------------------
(***************************************************************************)
(* Answers.                                                                *)
(***************************************************************************)

\* The types appendAnswer has a case for.
AnswerTypes == {"A", "AAAA", "TXT", "CNAME", "NS"}

\* Whether appendAnswer can append a record that ValidateRecord accepted.
Appends(type, value) ==
    /\ type \in AnswerTypes
    /\ type \in {"CNAME", "NS"} => TargetOf[value] \in Packable

BuildAnswer(query, owner, type, ttl, value) ==
    IF ~ (Packs(query.name) /\ Packs(owner) /\ Appends(type, value)) THEN Error
    ELSE [Message(TRUE, "success", query.name, ToWireType(query.type)) EXCEPT
             !.answer = [name |-> Fqdn(owner), code |-> type, ttl |-> ttl, value |-> value]]

\* The SOA is put under the name that was asked for.
BuildNXDomain(query, soa) ==
    IF ~ (Packs(query.name) /\ Packs(soa.mname) /\ Packs(soa.rname)) THEN Error
    ELSE [Message(TRUE, "name-error", query.name, ToWireType(query.type)) EXCEPT
             !.authority = [name |-> Fqdn(query.name), code |-> "SOA",
                            ttl |-> soa.minimum, soa |-> soa]]

-----------------------------------------------------------------------------
(***************************************************************************)
(* Notifications.                                                          *)
(***************************************************************************)

BuildNotify(zone, serial) ==
    IF ~ Packs(zone) THEN Error
    ELSE [Message(FALSE, "success", zone, "SOA") EXCEPT
             !.opcode = "notify",
             !.additional = [name |-> Fqdn(zone), code |-> "SOA", ttl |-> 0,
                             soa |-> [mname |-> Fqdn(zone), rname |-> Fqdn(zone),
                                      serial |-> serial, minimum |-> 0]]]

\* The zone and the serial of the first SOA among the additional records, zero
\* if there is none.
ParseNotifySerial(m) ==
    [zone |-> TrimDot(m.question.name),
     serial |-> IF m.additional # Absent /\ m.additional.code = "SOA"
                THEN m.additional.soa.serial ELSE 0]
=============================================================================
