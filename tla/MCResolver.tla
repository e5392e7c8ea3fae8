----------------------------- MODULE MCResolver -----------------------------
(***************************************************************************)
(* Small instances of the resolver, asked in messages or not, for TLC.     *)
(***************************************************************************)
EXTENDS WireResolver, TLC

MCRank == ("v1" :> 1) @@ ("v2" :> 2)

One(v, t) == <<[rdata |-> v, ttl |-> t]>>

\* No record, and two records: the last is not the least, and not the first has
\* the shortest time to live.
MCLists == {<< >>, One("v1", 2) \o One("v2", 1)}

\* Two types of one name, and a name in no zone.
MCQuestions == {<<"www", "A">>, <<"www", "MX">>, <<"elsewhere", "A">>}

MCUnserved == {<<"elsewhere", "A">>}

\* The host in capitals, the zone in capitals, a name with an empty label.
MCTexts == {"", "www", "WWW", "www.COM", "elsewhere", "w..w"}

MCLower == [t \in MCTexts |-> IF t \in {"WWW", "www.COM"} THEN "www" ELSE t]

MCTargetOf == ("v1" :> "www") @@ ("v2" :> "w..w")

MCZoneSoa ==
    [mname |-> [text |-> "www", dot |-> FALSE], rname |-> [text |-> "www", dot |-> FALSE],
     serial |-> 7, minimum |-> 2]

Symmetry == Permutations(Queriers)
=============================================================================
