------------------------------ MODULE Signing ------------------------------
(***************************************************************************)
(* The signatures of one zone: the signer and the keyring, used by dynamic *)
(* updates (the resign hook), by Reload, by the resolver, which verifies a *)
(* stored signature against the records it is about to answer, and by key  *)
(* rollover.                                                               *)
(*                                                                         *)
(* An update holds the service mutex, so there is one updater; reloads and *)
(* queries run beside it and beside each other.  The signer's lock is held *)
(* for one RRset at a time: fetching the key and storing the signature are *)
(* two steps, and so are reading a signature and verifying it.             *)
(*                                                                         *)
(* The zone is the store of RecordStore.  KeyOrder lists its RRsets in the *)
(* order zoneRRsets and rrsetsOf walk them, by name and then by type.  The *)
(* journal is the sequence of changes in the file; module UpdateService    *)
(* has its failures, and what JSON does to bytes that are not UTF-8: the   *)
(* names and values here are UTF-8, which it carries unchanged.  Apply     *)
(* takes deletes as well as upserts, though /update sends upserts only.    *)
(* clean, calm and since are not in the program: they note whether an      *)
(* update was under way during a reload or a query, and how long the       *)
(* journal was when a query began.                                         *)
(***************************************************************************)
EXTENDS RecordStore

CONSTANTS
    KeyOrder,     \* the <<name, type>> pairs, in the order they are walked
    FoldCase,     \* FoldCase[v] is the value v in lower case
    Seed,         \* the store seedZone builds
    Changes,      \* the accepted changes updates may carry
    Updater,      \* the holder of update.Service.mu
    Reloaders,    \* goroutines that reload the zone
    Queriers,     \* goroutines that resolve a query
    KeyIds,       \* identifiers of signing keys; key 1 is made at start
    Life,         \* the time a key may be used
    None,         \* no signature, no key, no change
    Faults,       \* which of "refuse", "sign", "restart", "future" may happen
    MaxUpdates,   \* bound on the number of updates
    MaxTime       \* bound on the clock

RRKeys == Names \X ManagedTypes

Signature == [key : KeyIds, covers : Seq(Record)]

KeyTimes == [from : Nat, until : Nat]

ASSUME SigningAssumption ==
    /\ KeyOrder \in Seq(RRKeys)
    /\ \A k \in RRKeys : \E i \in 1..Len(KeyOrder) : KeyOrder[i] = k
    /\ FoldCase \in [RDatas -> RDatas]
    /\ Seed \in Stores
    /\ \A ch \in Changes : ch \in Change /\ Validated(ch)
    /\ Updater \notin Reloaders
    /\ KeyIds \subseteq Nat \ {0} /\ 1 \in KeyIds
    /\ None \notin KeyIds /\ None \notin Signature /\ None \notin KeyTimes
    /\ Life \in Nat /\ MaxUpdates \in Nat /\ MaxTime \in Nat

Resigners == {Updater} \cup Reloaders

VARIABLES
    records,     \* the zone's records
    journal,     \* the changes in the file
    updates,     \* updates so far
    change,      \* the change of the update under way
    before,      \* the records to roll back to
    signatures,  \* Signer.signatures, by the name as it was written
    keys,        \* Keyring.keys: from when to when each may be used
    active,      \* Keyring.activeKeyID
    verifying,   \* Keyring.verifyKeyIDs
    now,         \* the clock
    pc,          \* where each resigner is
    names,       \* the names a reload found
    plan,        \* the RRsets each resigner has read, by index in KeyOrder
    at,          \* the index each resigner is at
    held,        \* the signing key each resigner has fetched
    clean,       \* no update since the reload began, nor any left to finish then
    asked,       \* the RRset each query is about
    seen,        \* the records it looked up
    found,       \* the signature it read
    result,      \* how it ended
    since,       \* the lines in the journal when it looked them up
    calm         \* the query began on a covered RRset and met no update since

zoneVars   == <<records, journal, updates, change, before>>
keyVars    == <<keys, active, verifying>>
signVars   == <<pc, names, plan, at, held>>
queryVars  == <<asked, seen, found, result, since>>

vars == <<zoneVars, signatures, keyVars, now, signVars, clean, queryVars, calm>>

-----------------------------------------------------------------------------
(***************************************************************************)
(* Signing and verifying.                                                  *)
(***************************************************************************)

\* What of a record list is signed: its values in lower case and its order.
Payload(rs) == [i \in 1..Len(rs) |-> [rs[i] EXCEPT !.rdata = FoldCase[@]]]

\* A bug: the signature is looked up but not verified.
Verifies_Anything(rs, sig) == sig # None

\* verifyRRSIG under the keys VerifyKeys returns.
Verifies(rs, sig) ==
    /\ sig # None
    /\ sig.key \in verifying
    /\ sig.covers = Payload(rs)

Present(st) == {k \in RRKeys : st[k] # << >>}

\* The first index of KeyOrder in wanted, or the one past the end.
NextIndex(wanted, from) ==
    CHOOSE i \in from..(Len(KeyOrder) + 1) :
        /\ i \in wanted \/ i = Len(KeyOrder) + 1
        /\ \A j \in from..(i - 1) : j \notin wanted

Indices == 1..Len(KeyOrder)

Finished(p) == at[p] = Len(KeyOrder) + 1

\* A bug: an RRset that has a signature is not signed again.
ToSign_Unsigned(lists) ==
    {i \in Indices : lists[i] # << >> /\ signatures[KeyOrder[i]] = None}

ToSign(lists) == {i \in Indices : lists[i] # << >>}

NoLists == [i \in Indices |-> << >>]

\* The name under which a resigner files a signature: a reload uses the
\* store's own, the hook the one Apply returned.
FiledAs(p, i) == <<IF p = Updater THEN AppliedName(change) ELSE KeyOrder[i][1],
                   KeyOrder[i][2]>>

\* A key whose time is over is no longer expected to verify anything.
Aged(id) == keys[id] # None /\ keys[id].until < now

\* The stored signature of an RRset verifies, but for the age of its key.
Covered(k) ==
    LET sig == signatures[k] IN
    /\ sig # None
    /\ sig.covers = Payload(records[k])
    /\ sig.key \in verifying \/ Aged(sig.key)

-----------------------------------------------------------------------------
(***************************************************************************)
(* An update, as far as signatures are concerned.                          *)
(***************************************************************************)

\* Zone.StageChange.
Stage(ch) ==
    /\ pc[Updater] = "idle"
    /\ updates < MaxUpdates
    /\ updates' = updates + 1
    /\ change' = ch
    /\ before' = records
    /\ records' = ApplyChange(records, ch)
    /\ pc' = [pc EXCEPT ![Updater] = "staged"]
    /\ clean' = [r \in Reloaders |-> FALSE]
    /\ calm' = [q \in Queriers |-> FALSE]
    /\ UNCHANGED <<journal, signatures, keyVars, now, names, plan, at, held, queryVars>>

\* The update is over: its locals are gone.
Finish ==
    /\ pc' = [pc EXCEPT ![Updater] = "idle"]
    /\ plan' = [plan EXCEPT ![Updater] = NoLists]
    /\ at' = [at EXCEPT ![Updater] = 1]
    /\ held' = [held EXCEPT ![Updater] = None]
    /\ change' = None
    /\ before' = EmptyStore

\* Journal.Append fails and the change is rolled back.
AppendRefused ==
    /\ "refuse" \in Faults
    /\ pc[Updater] = "staged"
    /\ Finish
    /\ records' = before
    /\ UNCHANGED <<journal, updates, signatures, keyVars, now, names, clean,
                   queryVars, calm>>

\* A bug: the hook resigns what the zone held before the change.
Affected_Before(i) ==
    IF KeyOrder[i][1] = Canon[AppliedName(change)] THEN before[KeyOrder[i]] ELSE << >>

\* What OnZoneUpdated looks up: every type under the changed name.
Affected(i) ==
    IF KeyOrder[i][1] = Canon[AppliedName(change)] THEN records[KeyOrder[i]] ELSE << >>

\* The line is written, the change committed, and OnZoneUpdated collects the
\* RRsets to sign; no other update can change them meanwhile.
AppendAndCollect ==
    LET lists == [i \in Indices |-> Affected(i)] IN
    /\ pc[Updater] = "staged"
    /\ pc' = [pc EXCEPT ![Updater] = "signing"]
    /\ journal' = Append(journal, change)
    /\ plan' = [plan EXCEPT ![Updater] = lists]
    /\ at' = [at EXCEPT ![Updater] = NextIndex(ToSign(lists), 1)]
    /\ UNCHANGED <<records, updates, change, before, signatures, keyVars, now,
                   names, held, clean, queryVars, calm>>

\* Everything is signed and Apply returns.
UpdateDone ==
    /\ pc[Updater] = "signing"
    /\ Finished(Updater)
    /\ Finish
    /\ UNCHANGED <<records, journal, updates, signatures, keyVars, now, names,
                   clean, queryVars, calm>>

-----------------------------------------------------------------------------
(***************************************************************************)
(* Signer.ResignZone, for an update or a reload.                           *)
(***************************************************************************)

\* Keyring.SigningKey.
FetchKey(p) ==
    /\ pc[p] = "signing"
    /\ ~ Finished(p)
    /\ held[p] = None
    /\ held' = [held EXCEPT ![p] = active]
    /\ UNCHANGED <<zoneVars, signatures, keyVars, now, pc, names, plan, at, clean,
                   queryVars, calm>>

\* The signature of one RRset is made and stored.
StoreSignature(p) ==
    /\ pc[p] = "signing"
    /\ held[p] # None
    /\ signatures' = [signatures EXCEPT ![FiledAs(p, at[p])] =
                         [key |-> held[p], covers |-> Payload(plan[p][at[p]])]]
    /\ held' = [held EXCEPT ![p] = None]
    /\ at' = [at EXCEPT ![p] = NextIndex(ToSign(plan[p]), @ + 1)]
    /\ UNCHANGED <<zoneVars, keyVars, now, pc, names, plan, clean, queryVars, calm>>

\* Signing fails in the hook: Commit fails and Apply rolls the zone back, but
\* not the signatures already stored nor the journal.
HookFails ==
    /\ "sign" \in Faults
    /\ pc[Updater] = "signing"
    /\ held[Updater] # None
    /\ Finish
    /\ records' = before
    /\ UNCHANGED <<journal, updates, signatures, keyVars, now, names, clean,
                   queryVars, calm>>

\* A reload is over: done, or failed part of the way.
LeaveReload(r, to) ==
    /\ pc' = [pc EXCEPT ![r] = to]
    /\ names' = [names EXCEPT ![r] = {}]
    /\ plan' = [plan EXCEPT ![r] = NoLists]
    /\ at' = [at EXCEPT ![r] = 1]
    /\ held' = [held EXCEPT ![r] = None]

ReloadFails(r) ==
    /\ "sign" \in Faults
    /\ pc[r] = "signing"
    /\ held[r] # None
    /\ LeaveReload(r, "idle")
    /\ UNCHANGED <<zoneVars, signatures, keyVars, now, clean, queryVars, calm>>

-----------------------------------------------------------------------------
(***************************************************************************)
(* control.Service.Reload.                                                 *)
(***************************************************************************)

\* The indices a reload will look up.
Listed(found_) == {i \in Indices : KeyOrder[i][1] \in found_}

\* rrsetsOf asks the store for its names.
StartReload(r) ==
    LET there == {k[1] : k \in Present(records)} IN
    /\ pc[r] \in {"idle", "done"}
    /\ pc' = [pc EXCEPT ![r] = "reading"]
    /\ names' = [names EXCEPT ![r] = there]
    /\ at' = [at EXCEPT ![r] = NextIndex(Listed(there), 1)]
    /\ clean' = [clean EXCEPT ![r] =
          /\ pc[Updater] = "idle"
          /\ \A s \in Reloaders \ {r} : pc[s] \in {"reading", "signing"} => clean[s]]
    /\ UNCHANGED <<zoneVars, signatures, keyVars, now, plan, held, queryVars, calm>>

\* Then it looks the RRsets up one by one.
ReadRRSet(r) ==
    /\ pc[r] = "reading"
    /\ ~ Finished(r)
    /\ plan' = [plan EXCEPT ![r][at[r]] = records[KeyOrder[at[r]]]]
    /\ at' = [at EXCEPT ![r] = NextIndex(Listed(names[r]), @ + 1)]
    /\ UNCHANGED <<zoneVars, signatures, keyVars, now, pc, names, held, clean,
                   queryVars, calm>>

EndReading(r) ==
    /\ pc[r] = "reading"
    /\ Finished(r)
    /\ pc' = [pc EXCEPT ![r] = "signing"]
    /\ at' = [at EXCEPT ![r] = NextIndex(ToSign(plan[r]), 1)]
    /\ UNCHANGED <<zoneVars, signatures, keyVars, now, names, plan, held, clean,
                   queryVars, calm>>

ReloadDone(r) ==
    /\ pc[r] = "signing"
    /\ Finished(r)
    /\ LeaveReload(r, "done")
    /\ UNCHANGED <<zoneVars, signatures, keyVars, now, clean, queryVars, calm>>

-----------------------------------------------------------------------------
(***************************************************************************)
(* Keyring.Rollover and the clock.                                         *)
(***************************************************************************)

\* A bug: only the new key is kept for verification.
VerificationSet_NewestOnly(ks, t) ==
    {id \in KeyIds : ks[id] # None /\ \A other \in KeyIds : other > id => ks[other] = None}

\* verificationSetLocked: the keys that may be used at time t.
VerificationSet(ks, t) ==
    {id \in KeyIds : ks[id] # None /\ ks[id].from <= t /\ t <= ks[id].until}

\* The times a caller may want a key active from; one in the past means now.
ActiveFroms == IF "future" \in Faults THEN {now, now + 1} ELSE {now}

\* The new key signs from now on, whatever activeFrom says.
Rollover(id) ==
    /\ keys[id] = None
    /\ \A other \in KeyIds : other < id => keys[other] # None
    /\ \E from \in ActiveFroms :
          keys' = [keys EXCEPT ![id] = [from |-> from, until |-> now + Life]]
    /\ active' = id
    /\ verifying' = VerificationSet(keys', now)
    /\ UNCHANGED <<zoneVars, signatures, now, signVars, clean, queryVars, calm>>

Tick ==
    /\ now < MaxTime
    /\ now' = now + 1
    /\ UNCHANGED <<zoneVars, signatures, keyVars, signVars, clean, queryVars, calm>>

-----------------------------------------------------------------------------
(***************************************************************************)
(* Resolver.resolveAuthoritative and Signer.SignResponse.                  *)
(***************************************************************************)

Ended == {"none", "answered", "refused", "nxdomain"}

\* The records are looked up.
LookUp(q, k) ==
    /\ result[q] \in Ended
    /\ asked' = [asked EXCEPT ![q] = k]
    /\ seen' = [seen EXCEPT ![q] = records[k]]
    /\ found' = [found EXCEPT ![q] = None]
    /\ result' = [result EXCEPT ![q] = IF records[k] = << >> THEN "nxdomain" ELSE "looked"]
    /\ since' = [since EXCEPT ![q] = Len(journal)]
    /\ calm' = [calm EXCEPT ![q] =
          /\ pc[Updater] = "idle"
          /\ Covered(k)
          /\ \A r \in Reloaders : pc[r] \in {"reading", "signing"} => clean[r]]
    /\ UNCHANGED <<zoneVars, signatures, keyVars, now, signVars, clean>>

\* The stored signature is read; without one the query is refused.
ReadSignature(q) ==
    LET sig == signatures[asked[q]] IN
    /\ result[q] = "looked"
    /\ found' = [found EXCEPT ![q] = sig]
    /\ result' = [result EXCEPT ![q] = IF sig = None THEN "refused" ELSE "signed"]
    /\ UNCHANGED <<zoneVars, signatures, keyVars, now, signVars, clean, asked, seen, since,
                   calm>>

\* The signature is verified under the keys there are then.
Answer(q) ==
    /\ result[q] = "signed"
    /\ result' = [result EXCEPT ![q] =
          IF Verifies(seen[q], found[q]) THEN "answered" ELSE "refused"]
    /\ UNCHANGED <<zoneVars, signatures, keyVars, now, signVars, clean, asked, seen,
                   found, since, calm>>

-----------------------------------------------------------------------------
(***************************************************************************)
(* The process.                                                            *)
(***************************************************************************)

\* The store after each prefix of a list of changes, from the seeds.
ReplayUpTo(log) ==
    LET after[n \in 0..Len(log)] ==
          IF n = 0 THEN Seed ELSE ApplyChange(after[n - 1], log[n])
    IN after

\* The signatures seedZone makes, under key 1.
SeedSignatures ==
    [k \in Spellings \X ManagedTypes |->
        IF k \in Present(Seed) THEN [key |-> 1, covers |-> Payload(Seed[k])] ELSE None]

FirstKey(t) ==
    [id \in KeyIds |-> IF id = 1 THEN [from |-> t, until |-> t + Life] ELSE None]

\* A new process: it signs the seeds under a new key and then replays the
\* journal, with no hook set.
Restart ==
    /\ "restart" \in Faults
    /\ records' = ReplayUpTo(journal)[Len(journal)]
    /\ change' = None
    /\ before' = EmptyStore
    /\ signatures' = SeedSignatures
    /\ keys' = FirstKey(now)
    /\ active' = 1
    /\ verifying' = {1}
    /\ pc' = [p \in Resigners |-> "idle"]
    /\ names' = [r \in Reloaders |-> {}]
    /\ plan' = [p \in Resigners |-> NoLists]
    /\ at' = [p \in Resigners |-> 1]
    /\ held' = [p \in Resigners |-> None]
    /\ clean' = [r \in Reloaders |-> FALSE]
    /\ asked' = [q \in Queriers |-> None]
    /\ seen' = [q \in Queriers |-> << >>]
    /\ found' = [q \in Queriers |-> None]
    /\ result' = [q \in Queriers |-> "none"]
    /\ since' = [q \in Queriers |-> 0]
    /\ calm' = [q \in Queriers |-> FALSE]
    /\ UNCHANGED <<journal, updates, now>>

Init ==
    /\ records = Seed
    /\ journal = << >>
    /\ updates = 0
    /\ change = None
    /\ before = EmptyStore
    /\ signatures = SeedSignatures
    /\ now = 0
    /\ keys = FirstKey(now)
    /\ active = 1
    /\ verifying = {1}
    /\ pc = [p \in Resigners |-> "idle"]
    /\ names = [r \in Reloaders |-> {}]
    /\ plan = [p \in Resigners |-> NoLists]
    /\ at = [p \in Resigners |-> 1]
    /\ held = [p \in Resigners |-> None]
    /\ clean = [r \in Reloaders |-> FALSE]
    /\ asked = [q \in Queriers |-> None]
    /\ seen = [q \in Queriers |-> << >>]
    /\ found = [q \in Queriers |-> None]
    /\ result = [q \in Queriers |-> "none"]
    /\ since = [q \in Queriers |-> 0]
    /\ calm = [q \in Queriers |-> FALSE]

Update ==
    \/ \E ch \in Changes : Stage(ch)
    \/ AppendRefused
    \/ AppendAndCollect
    \/ HookFails
    \/ UpdateDone

Resign(p) == FetchKey(p) \/ StoreSignature(p)

Reload(r) ==
    \/ StartReload(r)
    \/ ReadRRSet(r)
    \/ EndReading(r)
    \/ ReloadFails(r)
    \/ ReloadDone(r)

Query(q) ==
    \/ \E k \in RRKeys : LookUp(q, k)
    \/ ReadSignature(q)
    \/ Answer(q)

Next ==
    \/ Update
    \/ \E p \in Resigners : Resign(p)
    \/ \E r \in Reloaders : Reload(r)
    \/ \E id \in KeyIds : Rollover(id)
    \/ Tick
    \/ \E q \in Queriers : Query(q)
    \/ Restart

Spec == Init /\ [][Next]_vars
=============================================================================
