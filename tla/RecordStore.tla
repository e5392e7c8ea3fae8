---------------------------- MODULE RecordStore ----------------------------
(***************************************************************************)
(* The record store of one zone (internal/record) as a value: a store maps *)
(* a canonical name and a record type to the list of records kept there,   *)
(* oldest first, and the empty list stands for a map entry that is absent. *)
(* The operators are the methods of record.Store and the checks of         *)
(* ValidateRecord; they hold no state of their own.                        *)
(*                                                                         *)
(* Names, values and TTLs are members of small sets.  Canon is what        *)
(* CanonicalName does to a spelling (lower case, no surrounding blanks, no *)
(* trailing dot), and Malformed holds the <<type, value>> pairs the value  *)
(* parser of that type refuses.                                            *)
(***************************************************************************)
EXTENDS Naturals, Sequences

CONSTANTS
    Spellings,    \* the names callers may write
    Canon,        \* Canon[n] is CanonicalName(n)
    RTypes,       \* the record types that occur, by their text form
    RDatas,       \* record values
    TTLs,         \* times to live
    Malformed     \* the <<type, value>> pairs the value parsers refuse

ASSUME CanonAssumption ==
    /\ Canon \in [Spellings -> Spellings]
    /\ \A n \in Spellings : Canon[Canon[n]] = Canon[n]

Names == {Canon[n] : n \in Spellings}

\* The types ValidateRecord lets a caller manage.
ManagedTypes == RTypes \ {"SOA", "RRSIG"}

Record == [rdata : RDatas, ttl : TTLs]

Change == [kind : {"upsert", "delete"}, name : Spellings, type : RTypes,
           rdata : RDatas, ttl : TTLs]

Stores == [Names \X ManagedTypes -> Seq(Record)]

EmptyStore == [k \in Names \X ManagedTypes |-> << >>]

\* ValidateRecord: the type is managed and its parser accepts the value.
Validated(ch) ==
    /\ ch.type \in ManagedTypes
    /\ <<ch.type, ch.rdata>> \notin Malformed

KeyOf(ch) == <<Canon[ch.name], ch.type>>

RecordOf(ch) == [rdata |-> ch.rdata, ttl |-> ch.ttl]

\* The loop that drops, in place, the records that carry the changed value.
KeptUpTo(rs, v) ==
    LET kept[n \in 0..Len(rs)] ==
          IF n = 0 THEN << >>
          ELSE IF rs[n].rdata = v THEN kept[n - 1]
          ELSE Append(kept[n - 1], rs[n])
    IN kept

Kept(rs, v) == KeptUpTo(rs, v)[Len(rs)]

\* A bug: an update leaves the record it replaces in the list.
ChangedList_NoFilter(rs, ch) ==
    IF ch.kind = "delete" THEN Kept(rs, ch.rdata) ELSE Append(rs, RecordOf(ch))

\* What Apply leaves under the key of the change.
ChangedList(rs, ch) ==
    IF ch.kind = "delete"
    THEN Kept(rs, ch.rdata)
    ELSE Append(Kept(rs, ch.rdata), RecordOf(ch))

\* A bug: the store is keyed by the name as the caller wrote it.
ApplyChange_RawName(st, ch) ==
    LET raw == <<ch.name, ch.type>>
        old == IF raw \in DOMAIN st THEN st[raw] ELSE << >>
    IN [k \in DOMAIN st \cup {raw} |-> IF k = raw THEN ChangedList(old, ch) ELSE st[k]]

\* record.Store.Apply of a valid change.
ApplyChange(st, ch) == [st EXCEPT ![KeyOf(ch)] = ChangedList(@, ch)]

\* The name in the record Apply returns: canonical after a delete, but the
\* caller's own spelling after an upsert.
AppliedName(ch) == IF ch.kind = "delete" THEN Canon[ch.name] ELSE ch.name

\* The record list Lookup returns; it reports "not found" when it is empty.
Lookup(st, name, type) == st[<<Canon[name], type>>]

\* A list, and a store, that hold no value twice under a name and type.
ValuesOnce(rs) == \A i, j \in 1..Len(rs) : rs[i].rdata = rs[j].rdata => i = j

Distinct(st) == \A k \in Names \X ManagedTypes : ValuesOnce(st[k])
=============================================================================
