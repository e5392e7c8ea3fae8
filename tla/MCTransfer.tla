----------------------------- MODULE MCTransfer -----------------------------
(***************************************************************************)
(* Small instances of zone transfers for TLC: one zone with one name, and  *)
(* the changes of MCUpdate.                                                *)
(***************************************************************************)
EXTENDS MCUpdate, TransferProperties

OneSpellings == {"www.com", "WWW.com"}

OneCanon == [n \in OneSpellings |-> "www.com"]

OneZoneOf == [n \in {"www.com"} |-> "com"]

OneSeeds == [z \in {"com"} |-> Seed("www.com")]

\* The types and values that occur.
TwoTypes == {"A", "TXT"}

FourDatas == {"v1", "v2", "%ff", "U+FFFD"}

\* By type, then value.
MCPosition ==
    [p \in Keys \X RDatas |->
        (IF p[1][2] = "A" THEN 0 ELSE 4)
            + (CASE p[2] = "v1" -> 0 [] p[2] = "v2" -> 1
                 [] p[2] = "U+FFFD" -> 2 [] p[2] = "%ff" -> 3)]

WorkerSymmetry == Permutations(Workers)
=============================================================================
