----------------------------- MODULE MCSigning -----------------------------
(***************************************************************************)
(* Small instances of the signer for TLC: one zone with a name that has    *)
(* two RRsets and a name that has one, each with a seeded record.          *)
(***************************************************************************)
EXTENDS SigningProperties, TLC

MCSpellings == {"www", "WWW", "mail"}

MCCanon == [n \in MCSpellings |-> IF n = "WWW" THEN "www" ELSE n]

MCRTypes == {"A", "TXT"}

MCRDatas == {"v1", "V1", "v2"}

MCFoldCase == [v \in MCRDatas |-> IF v = "V1" THEN "v1" ELSE v]

MCKeyOrder == << <<"mail", "A">>, <<"mail", "TXT">>, <<"www", "A">>, <<"www", "TXT">> >>

Seeded == <<[rdata |-> "v1", ttl |-> 300]>>

MCSeed == (<<"www", "A">> :> Seeded) @@ (<<"www", "TXT">> :> Seeded)
          @@ (<<"mail", "A">> :> Seeded) @@ EmptyStore

\* The same with one name.
OneSpellings == {"www", "WWW"}

OneCanon == [n \in OneSpellings |-> "www"]

OneKeyOrder == << <<"www", "A">>, <<"www", "TXT">> >>

OneSeed == (<<"www", "A">> :> Seeded) @@ (<<"www", "TXT">> :> Seeded) @@ EmptyStore

Ask(kind, name, type, value) ==
    [kind |-> kind, name |-> name, type |-> type, rdata |-> value, ttl |-> 300]

\* Upserts named in lower case, one with a new value and one with a value that
\* differs in its case alone; the end of two RRsets, one by a delete with
\* capitals, the other of an RRset that the second upsert brings back.
FiledChanges == {Ask("upsert", "www", "A", "v2"), Ask("upsert", "mail", "A", "V1"),
                 Ask("delete", "WWW", "A", "v1"), Ask("delete", "mail", "A", "v1")}

\* A change that names its record with capitals, and one that does not.
MixedChanges == {Ask("upsert", "WWW", "A", "v2"), Ask("delete", "www", "A", "v1")}

OneMixed == {Ask("upsert", "WWW", "A", "v2")}

OneLower == {Ask("upsert", "www", "A", "v2")}

Symmetry == Permutations(Reloaders)
=============================================================================
