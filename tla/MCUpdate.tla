------------------------------ MODULE MCUpdate ------------------------------
(***************************************************************************)
(* Small instances of the update path for TLC: two zones, one name in two  *)
(* spellings, a name outside its zone, and texts that JSON does not carry. *)
(***************************************************************************)
EXTENDS UpdateProperties, TLC

MCSpellings == {"www.com", "WWW.com", "www.org"}

MCCanon == [n \in MCSpellings |-> IF n = "WWW.com" THEN "www.com" ELSE n]

MCZoneOf == [n \in {"www.com", "www.org"} |-> IF n = "www.com" THEN "com" ELSE "org"]

MCRTypes == {"A", "CNAME", "NS", "TXT"}

\* Two addresses, and two texts with what JSON makes of them: in one a byte is
\* not UTF-8, the other is 255 such bytes and comes back as 765.
MCRDatas == {"v1", "v2", "%ff", "U+FFFD", "255 x %ff", "255 x U+FFFD"}

MCDataText ==
    [v \in RDatas |->
        CASE v = "%ff"       -> "U+FFFD"
          [] v = "255 x %ff" -> "255 x U+FFFD"
          [] OTHER           -> v]

\* The names of these instances are ASCII.
MCNameText == [n \in Spellings |-> n]

\* An A takes an address, and a TXT no more than 255 bytes.
MCMalformed ==
    {<<"A", v>> : v \in RDatas \ {"v1", "v2"}} \cup {<<"TXT", "255 x U+FFFD">>}

MCTTLs == {300}

Seed(name) == (<<name, "A">> :> <<[rdata |-> "v1", ttl |-> 300]>>) @@ EmptyStore

\* Each zone is seeded with one A record.
MCSeeds == ("com" :> Seed("www.com")) @@ ("org" :> Seed("www.org"))

Ask(kind, zone, name, type, value) ==
    [zone |-> zone,
     change |-> [kind |-> kind, name |-> name, type |-> type, rdata |-> value, ttl |-> 300]]

\* Add a value, a text that JSON changes, and the text that it becomes.
CrashRequests == {Ask("upsert", "com", "WWW.com", "A", "v2"),
                  Ask("upsert", "com", "www.com", "TXT", "%ff"),
                  Ask("upsert", "com", "www.com", "TXT", "U+FFFD")}

\* Add a value, move the seeded value to the end of the list, remove it; the
\* other zone; a name outside the zone.
PlainRequests == {Ask("upsert", "com", "WWW.com", "A", "v2"),
                  Ask("upsert", "com", "www.com", "A", "v1"),
                  Ask("delete", "com", "www.com", "A", "v1"),
                  Ask("upsert", "org", "www.org", "A", "v2"),
                  Ask("upsert", "org", "www.com", "A", "v2")}

\* An address, and a text that JSON changes.
TwoRequests == {Ask("upsert", "com", "WWW.com", "A", "v2"),
                Ask("upsert", "com", "www.com", "TXT", "%ff")}

\* The target of an NS may have any length, also one too long for a line that
\* can be read again.
LongTarget == Ask("upsert", "com", "www.com", "NS", "v2")

MCOversized == {LongTarget.change}

\* A change that a start can replay, one that it cannot scan, one that comes back
\* too long for its type, and one that is refused.
LiveRequests == {Ask("upsert", "com", "www.com", "A", "v2"),
                 LongTarget,
                 Ask("upsert", "com", "www.com", "TXT", "255 x %ff"),
                 Ask("upsert", "com", "www.com", "CNAME", "v1")}

TextRequests == {Ask("upsert", "com", "www.com", "TXT", "%ff")}

Symmetry == Permutations(Clients)
=============================================================================
