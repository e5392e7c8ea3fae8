# Verification of zonedns

This directory holds TLA+ models of zonedns, the TLC configurations that check
them on small instances, and proofs, checked by TLAPS, of what matters most for
every instance.  Paths such as `update.go` are files under `src/internal/` (or
`src/cmd/zonedns/main.go`).

## The system

zonedns is one process.  Everything but the change journal lives in memory; the
HTTP handlers run one goroutine per request and meet at the locks below.

| component | state | operations | lock |
|---|---|---|---|
| record store (`record`) | name -> type -> list of records | Apply, Lookup, Names, All, Snapshot, Restore | `record.Store.mu` |
| zone (`zone`) | serial, version, history of changes, resign hook, notify callback | StageChange, Commit, Rollback, ChangesSince, ApplyDelta, ApplyFull, Snapshot | `Zone.mu` |
| zone store (`zone/store.go`) | name -> zone | Put, Get, List | `zone.Store.mu` |
| update service (`update`) | none of its own | Apply, ApplyReplayed | `update.Service.mu`, held for a whole call |
| journal (`journal`) | the open file, or none in memory | Append, Replay, Close | `Journal.mu` |
| keyring (`keyring`) | keys, active key, verification set | Add, Rollover, SigningKey, VerifyKeys | `Keyring.mu` |
| signer (`signer`) | RRset -> signature | ResignRRSet, ResignZone, OnZoneUpdated, SignResponse | `Signer.mu`, released between the RRsets of one call |
| resolver (`resolver`) | none of its own | Resolve, ResolveWire | none |
| cache (`cache`) | (name, type, positive or negative) -> answer, age | Get, Put, StoreNegative, SweepExpired | `Cache.mu` |
| transfer service (`transfer`) | zone -> transfer state; the secondaries | AXFR, IXFR, ApplyAXFR, ApplyIXFR, StartTransfer, Finish, NotifyZone | `transfer.Service.mu` for the states only |
| notifier (`transfer/notify.go`) | events and packets sent | Notify | `MemoryNotifier.mu` |
| control (`control`) | none | Reload, TriggerTransfer, Status | none |
| wire (`message`) | none | Build and parse queries, answers, notifies | none |
| process (`main.go`) | the HTTP server, the sweeper | start and replay, serve, shut down within three seconds | |

How they meet: a handler calls `update.Service.Apply`; it stages the change in
the zone, appends it to the journal, commits it (history, then the resign hook
`Signer.OnZoneUpdated`, then the notify callback), and notifies again.  Queries
and transfers read the same stores under the stores' own locks only.  `Reload`
resigns a zone outside the update mutex.  At start `buildApplication` seeds and
signs the zones, replays the journal through `ApplyReplayed`, and only then sets
the hooks and listens.

What is hard here: a change is visible before it is durable; each step of Apply
can fail and must be undone; a crash may come between any two steps and the
journal's last line may be partial; a line is JSON and may say another text than
was asked; a shutdown that runs out of time closes the
journal under a running handler; the signer's work for one update or reload is
many separate critical sections that interleave with each other and with a key
rollover; the cache is never told of an update; a transfer state is one variable
shared by notifications and transfers.  The complete list, each at its line, is
under "hazards" in `PROJECT.json`.

What makes each part correct: the zone in memory is what the journal would
rebuild, up to what JSON does to a text that is not UTF-8; an acknowledged update survives and is applied once; a failed one
leaves nothing behind; secondaries are only told of durable changes; the RRsets
a zone holds verify under the keyring; an answer is never older than its time to
live; a transfer brings a secondary to a state the primary had.

## Modules

| module | what it holds |
|---|---|
| `RecordStore` | the record store of one zone as a value, with `ValidateRecord`, `Apply`, `Lookup` |
| `UpdateService` | the update path: handlers, zones, journal, notifier, shutdown, crash, replay |
| `UpdateProperties` | its type invariant, safety, liveness, and the refinement mapping |
| `DurableZones` | the abstract promise of the update path: durable content, one instant of effect per update |
| `Transfer`, `TransferProperties` | full, incremental and triggered zone transfers, composed with the update path |
| `ZoneCopy` | the abstract promise of a transfer: a secondary is replaced whole, in one instant |
| `Signing`, `SigningProperties` | signatures of one zone: signer, keyring, reload, rollover, the resolver's check, restart |
| `Resolver` | the answer cache under queries, zone changes, the sweeper and the clock, with its properties |
| `Wire` | DNS messages: what is built, what is read back, what cannot be built |
| `WireResolver` | the resolver asked and answering in messages, with its properties |
| `RecursionFacts`, `RecordFacts` | lemmas about recursive functions and about the record store |
| `UpdateProofs`, `PromiseProofs` | proofs about the update path: itself; what it promises callers, secondaries, the next start and `DurableZones` |
| `TransferProofs` | proofs about transfers, and about the update path with transfers beside it |
| `SigningProofs`, `ResolverProofs`, `WireProofs` | proofs about the other parts |
| `MCUpdate`, `MCTransfer`, `MCSigning`, `MCResolver` | the values TLC gives the constants |

`UpdateService` and `Signing` both EXTEND `RecordStore`.  `Transfer` EXTENDS
`UpdateService` and composes with it: its next step is a step of the update path
or of a transfer, on the same zones, states and process.  `WireResolver` EXTENDS
`Resolver` and `Wire`.  `UpdateService` sees the resign hook only as something
that succeeds or fails; `Signing` sees the update path only as one updater whose
append may be refused, whose deletes are those of `Apply`'s interface and whose texts
are UTF-8; `Resolver` sees both only as a list of records that
changes and a signature that verifies or does not.

### How `UpdateService` corresponds to the code

| variable | code |
|---|---|
| `mode` | where `main` is: nothing runs (`down`), `buildApplication` replays, the server listens, `Shutdown` waits (`draining`), the journal is closed, `log.Fatalf` (`fatal`) |
| `records`, `serial`, `version`, `history` | the fields of `zone.Zone`, per zone |
| `xfer`, `events` | `transfer.Service.states`, `MemoryNotifier.events` |
| `lines`, `unended` | `changes.journal`: its lines, each named by the entry `json.Marshal` was given, and whether its last one lacks a newline; the only state that outlives the process |
| `replayed` | how far `ApplyReplayed` has come |
| `lock`, `pc`, `call`, `staged` | `update.Service.mu`, and the place and the locals of each handler in `Apply` |
| `request`, `outcome` | what each call asked and was told; not in the program |

One action is one stretch of `Apply` between two points where another goroutine
can look or the process can die: `Stage` (`StageChange` under `Zone.mu`), the
five ends of `Journal.Append`, `CommitZone`, the resign hook, the notification
in `Commit`, the one in `Apply` together with the return.  `Rollback` is
`StagedChange.Rollback` with the return that follows; the deferred unlock is in
`Return`.  `Stage` and `Reject` take the mutex and validate in one step, since
nothing else is touched between.  `Start`, `ReplayEntry`, `ReplayFails` and
`Serve` are `buildApplication` from the opening of the journal on; hooks are
set in `Serve`, so a replayed entry is committed without them, as in the code.

A line is JSON.  `/update` takes any percent-decoded bytes for a name and a value,
and `json.Marshal` writes U+FFFD for every byte that is not UTF-8.  `NameText` and
`DataText` say what a name and a value are after that; `Decoded` is a change, and
`Read` an entry, that has made the journey.  The text of a line is a function of the
entry, so the model names the line by the entry and reads it with `Read`, as
`ReplayEntry` does.  A start applies the change that it reads and not the one that was
asked, and only if it is `Applicable`: `ApplyReplayed` must be able to name the type
(it cannot name CNAME) and `StageChange` must accept the record that came back.  A
TXT may have 255 bytes; of 255 bytes that are not UTF-8, 765 come back, and
`ReplayFails`.  Three operators of `UpdateProperties` keep the views apart: `OnDisk`
is the log a start reads, `AsTaken` is the log as memory took it (replayed lines as
read, later ones as asked), and `Verbatim(z)` says that the two agree on what was
written of `z` since the start.

`Kinds` are the kinds of change that are asked for.  The handler of `/update` sends
upserts only, and no caller in the repository sends a delete, though `Apply`, the
store and the journal know them.  The instances use `{"upsert"}`; `update_faults`
adds deletes, a wider environment than the program's, so that what holds there holds
without them too.

### How `Signing` corresponds to the code

`records`, `journal`, `change` and `before` are an update's effect on the zone
and on the file; `signatures`, `keys`, `active` and `verifying` are the maps of
`signer.Signer` and `keyring.Keyring`.  `pc`, `names`, `plan`, `at` and `held`
are the locals of `OnZoneUpdated`, `ResignZone`, `rrsetsOf` and `Reload`: what a
resigner has read of the zone, which RRset it is at, and the key it has fetched.
`asked`, `seen`, `found` and `result` are those of a query.  `FetchKey` and
`StoreSignature` are the two critical sections of `ResignRRSet`; `LookUp`,
`ReadSignature` and `Answer` those of the authoritative path of a query.
`clean`, `calm` and `since` are not in the program.  `AppendAndCollect` takes the append,
the commit and the lookups of the hook in one step: the updater holds the
service mutex, no other goroutine writes records, and what a crash between
them leaves is the matter of `UpdateService`.

### How `Transfer` corresponds to the code

| variable | code |
|---|---|
| `copy`, `copySerial` | the record store and the serial of each secondary `zone.Zone` |
| `place`, `job` | where a goroutine is in AXFR, IXFR, ApplyAXFR, ApplyIXFR or TriggerTransfer, and its zone |
| `wanted`, `reached` | the serial asked for or from, and the one of the snapshot or delta in hand |
| `rows`, `todo`, `ops` | the records of the snapshot, those `ApplyFull` has still to apply, the operations of the delta |
| `xfer` (of `UpdateService`) | `transfer.Service.states`, which transfers and notifications all write |
| `begun`, `offered` | not in the program: a bound, and the contents the primary has had since a worker began |

One action is one critical section: `AskFull` and `TakeSnapshot` are the two
reads of AXFR, `AskDelta`, `CutHistory` and `SetRange` the three of `buildDelta`,
`BeginLoad` to `EndLoad` are `ApplyFull`, which holds the lock of the secondary
while `Lookup` sees its record store fill row by row; `Finish` is the write of
the state each of them ends in.  `StartTransfer` and `EndTriggered` are
`control.TriggerTransfer`, which moves no record and does not ask whether the
zone exists (a state for a name that is no zone is read by nobody).  AXFR, IXFR
and their Apply functions are called by the demo alone, one after another; the
service that holds them has a lock and documented states for callers in
parallel, and the model has workers in parallel.  A worker that has fetched a
snapshot or a delta goes on to apply it.

### How `Wire` and `WireResolver` correspond to the code

A message is a record of its header flags, its question and its sections.
`BuildQuery`, `ParseQuery`, `BuildAnswer`, `BuildNXDomain`, `BuildNotify` and
`ParseNotifySerial` have the names of the functions of `message.go` and their
error returns; `ToWireType`, `FromWireType`, `Fqdn` and `TrimDot` are the
conversions.  A name is a text without its last dot and whether the dot is
there, which is all that `fqdn` and the trimming change.  `Packable` is external:
the names the vendored library accepts.  `ResolveWire` is the function of that
name in `resolver.go`, given what `Resolve` returned; `Resolve` itself is the
queriers of `Resolver`.

### How `Resolver` corresponds to the code

`entries` is `Cache.entries` by question and kind; `pc`, `asked` and `read` are
a query's place, question and the list it looked up; `now` is the clock that
`Cache.now` and the sweeper's ticker read.  `past` is the list of contents a
question has had, so that an entry can name the content it was made from;
`stirred` says when an old content last came in.  A cached positive entry keeps
only its first record, which is all a hit returns.  The sweeper may act with
any time that has been (`Sweep(t)`): the ticker's value can be old when its
goroutine runs.  A reply keeps the time to live as stored; the code does not
count it down, and neither does the model.

## Plan

1. *Done.* Update path: `RecordStore`, `UpdateService`, `DurableZones`.
2. *Done.* `Signing`, on the same record store.
3. *Done.* `Resolver` and the cache.
4. *Done.* `Transfer` composed with the update path, and its abstraction
   `ZoneCopy`.
5. *Done.* `Wire`, and `WireResolver` on top of the resolver.
6. *Done.* Proofs of every safety property the passing runs check, the two
   refinements included.
7. *Open.* `Signing` composed with the real update path on one zone, in place of
   its own updater.  `Signing` already has the updater's steps that its
   properties see; the composition would add shutdown and several handlers.

## Runs

Every run takes a small set of goroutines and lets TLC interleave their steps.
`CHECK_DEADLOCK FALSE` everywhere: calls, stops, changes and ticks are bounded,
so a run ends where the bound is reached; a process that refuses to start
(`fatal`) also stays there.

| run | instance | what it shows |
|---|---|---|
| `update_crash` | 2 handlers, 3 calls (an address, a text that JSON changes, and the text it becomes), 2 stops, refused appends, failed notifications, crashes | types; memory at rest is the replay of the journal, up to what JSON does to a text; an acknowledged update has one line, always; only journaled updates are announced; `DurableZones` is implemented.  `Control`, `Synced` and `Traced` are the invariants of the proofs, checked here too |
| `update_faults` | 2 handlers, 3 calls, deletes among them, 1 stop, every failure but the crash, a shutdown that may run out of time | history explains the zone however an update failed; no update is announced and then reported as failed |
| `update_live` | 2 handlers, 3 calls, 2 orderly stops, refused appends; among the calls a line too long to be read again, a TXT that comes back too long and a CNAME that is refused; fair scheduling | a shutdown that is not cut short answers every call; no value is doubled; every call is answered; every start ends, and on a file of legible lines it ends with the server listening |
| `update_text` | 1 call: a TXT with a byte that is not UTF-8 | **violated**: the update is acknowledged and its line says U+FFFD, which is what the zone will hold after a restart |
| `update_deadline` | 1 call, 1 stop with the deadline | **violated**: the append of a closed journal reports success and keeps nothing |
| `signing_keys` | 3 updates (upserts, deletes, an RRset deleted and brought back, a value that differs in case alone), refused appends, 2 rollovers, a key's end, 1 query | at rest every RRset is covered; only updates or age make a query fail; no answer is ahead of the journal, nor behind what it was when the query began |
| `signing_repair` | 2 reloads, 1 update, 1 rollover, failed signing, restarts, 1 query | an undisturbed reload covers every RRset whatever came before |
| `signing_replay` | 1 update, a restart | **violated**: what is replayed is not signed |
| `resolver_cache` | 2 queries, 3 questions (two types of a name; a name outside every zone), 2 entries, 1 change each, clock to 3; every reply also as a message | the cache keeps its limit; entries and replies were true when read and never mix types; old answers end; every response is true and is sent if it has an encoding |
| `transfer_copy` | 1 handler, 2 workers, 1 zone, 2 calls, 2 transfers, refused appends, 1 crash or stop | snapshots are whole; every change in a delta has a line, up to what JSON does to it; a claimed state is owned; `ZoneCopy` is implemented |
| `transfer_live` | 1 handler, 2 workers, 1 call, 2 transfers, failed notifications, 1 crash or stop, fair workers | a secondary at rest holds what the lines of the journal had made of its primary; a start never refuses the file; every transfer ends and every claimed state is given back |
| `transfer_increment` | 1 handler, 1 worker, 1 call, 2 transfers | **violated**: an incremental transfer that succeeds leaves out an update committed before it |

Why these bounds are enough.  Two handlers are the least that contend for the
mutex; while one is inside `Apply` any number of others can only wait.  Three calls give a change, its
reverse and a third that must find the state right after a rollback; two stops
give a crash during the replay of a crash.  Two zones show that an update of one
leaves the other alone.  `www` in two spellings is the least that tells the
canonical name from the written one.  A text, what JSON makes of it and a text that
comes back too long are the least that tell a change from its line and a line that is
read from one that is not.  In `Signing` the walk over RRsets has a
name before the changed one and two types under it; three key identifiers let a
rollover replace a key that has replaced another, with `Life = 1` the first key
ends within the clock.  In `Resolver` a cache of two entries is full after two
different fills while three questions of two kinds exist; of the list of two
records the last is not the least and the first has not the shortest time to
live, so `Best`, `First` and `Shortest` tell one record from the other; the
clock runs one tick past the longest time to live.

Of transfers two are the least that overlap, on one secondary or on one state,
and two updates let a snapshot or a delta be taken between a change and its
reverse; a third worker would only wait for the lock of the secondary.  The
serials an incremental transfer may be asked from are the current one and one
below it.  The messages of `resolver_cache` ask for the host in small letters,
in capitals and with its zone in capitals; one name and one value have an empty
label, and one of the types (MX) has no encoding in an answer.

Fairness.  Strong fairness on the steps of each handler: the Go scheduler runs a
goroutine that can run, and `sync.Mutex` hands the lock to a waiter after a
millisecond of starvation, so a waiter that finds the mutex free again and again
gets it.  Weak fairness on the start (a supervisor restarts the process; the
repository has none, but without it nothing is promised) and on the end of a
shutdown that has begun.  Strong fairness on the steps of each transfer worker,
for the same reason as on the handlers': a worker may wait for the lock of a
secondary.  No fairness on calls, transfers' beginnings, signals, crashes or
failures.

## What the runs found

The four violations are listed with the lines they contradict under "findings"
in `PROJECT.json`.  TLC also refutes these, which are defined but have no run of
their own; the constants are those of the named configuration but for the ones
given:

| property | module and constants | what happens |
|---|---|---|
| `CommitAdvancesSerial` | `MCUpdate`, `UpdateDeadline.cfg` with `Faults = {}` | no update moves the serial, which `zone_verify_test.go` takes for an error; `transfer_increment` shows what follows from it |
| `JournalLeadsMemory` | `MCUpdate`, `UpdateDeadline.cfg` with `Faults = {}` | a staged change is visible to readers of the zone before its line is written |
| `FailedHasNoEffect` | `MCUpdate`, `UpdateDeadline.cfg` with `Faults = {"resign"}` | a failed resign hook rolls back the records but not the history; the entry goes to secondaries and the line to the next start |
| `AckedIsJournaled` | `MCUpdate`, `UpdateDeadline.cfg` with `Faults = {"torn"}`, `MaxCalls = 2` | a write that stops part way leaves no newline, so the next line is lost with it; the next start refuses the file |
| `Restartable` | `MCUpdate`, `UpdateLive.cfg` with `MaxCalls = 1` | an NS whose target makes a line of more than a megabyte, or a TXT of 255 bytes that are not UTF-8, is acknowledged, and no later start gets past its line |
| `SignedAtRest` | `MCSigning`, `SigningReplay.cfg` with `Faults = {"sign"}` | after a failed hook the records are rolled back and the signatures already stored are not |
| `SignedAtRest` | `MCSigning`, `SigningReplay.cfg` with `Changes <- OneMixed`, `Faults = {}` | the signature of an update in capitals is filed under the spelling of the caller, where no query looks |
| `SignedAtRest` | `MCSigning`, `SigningReplay.cfg` with `Reloaders = {r1}`, `Faults = {}` | a reload that read the zone before an update stores its signature after it |
| `ReloadRepairs` | `MCSigning`, `SigningRepair.cfg` with `"future"` in `Faults` | a key whose `activeFrom` is in the future signs at once but is not in the verification set |
| `CachedAnswerIsTheAnswer` | `MCResolver`, `ResolverCache.cfg` | `answerForRecords` answers the last record, then sorts; the cache answers the first |
| `EveryReplyEncodes` | `MCResolver`, `ResolverCache.cfg` | an MX record can be stored, updated and resolved, but `appendAnswer` has no case for it; nor can a target with an empty label be packed |
| `NegativeCarriesMinimum` | `MCResolver`, `ResolverCache.cfg` | `zoneSOA` looks for the zone by the name as asked; with the zone's part in capitals it finds none and the answer carries the default SOA |
| `OneTransfer` | `MCTransfer`, `TransferIncrement.cfg` with `Workers = {w1, w2}`, `Faults = {"refuse"}`, `MaxCalls = 2` | a notification or another transfer writes the claimed state, and a second `TriggerTransfer` claims it again |
| `SecondaryIsJournaled` | `MCTransfer`, as for `OneTransfer` | a snapshot may be taken of a staged change that is then rolled back; the secondary keeps it (`transfer_live`, where no append is refused, shows it holds otherwise) |

`ApplyReplayed` cannot name CNAME, so the line of a CNAME delete would stop every later
start as well.  `Apply` takes such a delete, but nothing in the program asks for one
and a CNAME upsert is refused, so that is no behaviour of the program and no finding;
`Rereadable` below has the premise all the same.

The properties are therefore stated with the exceptions the code has:
`ZoneMatchesJournal` asks of a zone that JSON carried the texts of the updates since
the start, and `DeltaIsDurable` and `SecondaryIsJournaled` compare texts as JSON leaves
them or as memory took them; `WireRepliesTrue` speaks of one name and type, since a
response without records is always sent as NXDOMAIN, for a name that has records of
another type too; `HistoryExplainsZone` leaves out the updates reported as failed; `OldAnswersEnd`
counts from the last time an old list was stored; `InProgressIsOwned` lets a
claimed state be overwritten, but not be seen as claimed by nobody;
`AnswersAreCurrent` leaves out an RRset that was missing at some moment of the
query, since `OnZoneUpdated` never takes the signature of a deleted RRset away and
the same records staged again pass the check before they are on disk; and
`WireRepliesSent` excuses replies without an encoding and names no zone matches
as they are written.  An accepted delta is empty, and no property says so: that is the
bug `transfer_increment` shows, and a property must not hold only while it is there.

## Proofs

All theorems are checked by TLAPS from nothing but the named assumptions on the
constants: `CanonAssumption` (canonical names are their own canonical form),
`SeedAssumption` (no zone is seeded with a record twice), `TextAssumption` (JSON
changes a text once, and leaves a name in its place), `UpdateAssumption`,
`SigningAssumption`, `ResolverAssumption`, `TransferAssumption`,
`WireAssumption` and `WireResolverAssumption` (the constants have their types;
`None`, `Torn`, `Error` and `Absent` are none of the values they stand apart
from; the questions are finitely many and the cache has room for one answer; the
lower case of a text is its own).  They hold for any set of handlers, workers,
zones, names, values, requests, keys, questions and queriers and any number of
calls, stops and transfers.  Every safety property that a passing run checks is
stated by a theorem; some need a premise about the environment.  The premises:

| premise | what it asks | refuted by TLC without it |
|---|---|---|
| `Dependable` | the journal is a file; of the failures only refused appends, failed notifications and crashes | each of torn writes, failed syncs, failed hooks and the missed deadline alone refutes `ZoneMatchesJournal`, `Synced` and `ImplementsDurableZones` (`UpdateDeadline.cfg`, `MaxCalls = 2`), and each of the last three `Traced`, which has no meaning on a torn line; no file refutes `ZoneMatchesJournal` |
| `Whole` | no torn write, no missed deadline | either refutes `AckedIsJournaled`, `NotifyAfterPersist` and `DeltaIsDurable` (`TransferIncrement.cfg`, `MaxCalls = 2`, `MaxStops = 1`); failed syncs, hooks, notifications and crashes refute none of them |
| `Accepting` | `Dependable`, and no append is refused | each of refused appends, torn writes, failed syncs and failed hooks, and the missed deadline (`MaxStops = 1`), refutes `SecondaryIsJournaled` (as for `OneTransfer` above) |
| `Orderly` | no crash, no missed deadline | either refutes `ShutdownAnswersCallers` |
| `Rereadable` | no torn write; every change that can be accepted is of a type `ApplyReplayed` knows, makes a line the scanner takes and is valid again when JSON has changed it | each of the four refutes `Restartable` (`UpdateFaults.cfg` with `Faults = {"torn"}`, `MaxStops = 2`; a CNAME delete, with `"delete"` in `Kinds`; the two lines of `UpdateLive.cfg`); all other failures together do not refute it |
| `OnTime` | no key is activated in the future | `RefusalExplained`, `ReloadRepairs` and `SignedAtRest` |
| `Alone` | no reloads, no failure to sign | either refutes `AnswersAreDurable` (`SigningKeys.cfg`, one key, `MaxTime = 0`) |
| `Undisturbed` | `Alone`, no restart, names applied in their canonical form | each of a reload, a failure to sign, a restart and an upsert in capitals refutes `AnswersAreCurrent` (`SigningKeys.cfg`, `MaxTime = 0`) |
| `Steady` | `Undisturbed` and `OnTime` | the table above, for `SignedAtRest` |
| `MaxTTL > 0` | a longest time to live above zero | `OldAnswersEnd` |

### The update path (`UpdateProofs`, `PromiseProofs`)

* `TypeCorrect` (`TypeOK`) and `OneInside` (`Control`).  `TypeOK` alone is not
  inductive: `Rollback` writes what `staged` holds and `CommitZone` what was
  asked, so `Control` adds that a call inside `Apply` holds the mutex, was
  accepted and has a staged change, and that nothing undecodable is replayed.
  `TypeInv` is both.
* `MemoryMatchesJournal` (`ZoneMatchesJournal`) and `JournalInStep` (`Synced`),
  if `Dependable`.  `Synced` is the inductive
  invariant: at rest a zone is what its lines made of it, those before the start as
  they were read and those since as they were asked (`InMemory`); between staging and
  line it is one change ahead of that and the handler knows what to go back to; during
  a start it is at the state after `replayed` lines of the file.  Where no text was
  changed since the start (`Verbatim`) the two logs agree and the zone is what the
  next start will make of it.
* `LinesTraced` (`Traced`), if `Dependable`.  `Traced` says, by the place of each
  call, whether its line is written, that no update has two, and that no two
  calls share an identifier.
* `AcknowledgedSurvives` (`AckedIsJournaled`), if `Whole`.  `Traced` is not kept
  then: a call whose sync or hook failed rolls back with its line in the file.
  `Filed` says less of a call on its way to an error and as much of one on its way
  to success, and `FileWhole` that nothing torn is in the file and nobody is
  inside once it is closed; together, as `FiledInv`, they are inductive.
* `NoValueTwice` (`ValuesDistinct`), whatever fails.  The inductive invariant
  `DistinctInv` adds what a rollback would bring back.  It rests on the lemma
  that removing a record and appending one of the same value keeps a list free
  of repetition (`DistinctApply`).
* `AnnouncedSucceeds` (`AnnouncedNotFailed`), whatever fails.  `CallsOpen` pairs
  calls and answers one to one; `Announced` says that an announced update has
  succeeded or its call is past everything that can fail.
* `OrderlyStopAnswers` (`ShutdownAnswersCallers`), if `Orderly`.  The reason (`NobodyLost`): nobody is inside once the journal
  is closed.
* `AnnouncedIsDurable` (`NotifyAfterPersist`), if `Whole`: lines only grow, and a
  call that notifies has its own (`FiledInv`).
* `HistoryExplains` (`HistoryExplainsZone`), whatever fails.  The invariant
  `ExplainInv` has three parts.  `Known`: lines and histories are of calls that
  were made, and a call is in the history of its own zone only, and only from its
  commit on.  `Apart`: what a start replays is apart from the calls under way.
  `Explained`: a zone in which nobody works is what its history makes of it
  without the updates reported as failed; and a call that works in one would go
  back to what the history makes of it without that call.  So a rollback after a
  failed hook is right though the history keeps the entry.
* `PromiseKept` (`ImplementsDurableZones`), if `Dependable`.  The line is the
  instant of effect: `LineTakesEffect` shows that writing it changes the durable
  content by exactly what JSON makes of that update (`Written`), `NothingWritten` that nothing else does, and
  `Traced` that success is confirmed only of updates with a line and failure only
  of updates without.
* `StartsOnItsJournal` (`Restartable`), if `Rereadable`.  `LegibleInv` says that
  every line can be decoded and that what it says can be applied; a line is written of
  an accepted change only.  So a start on the process's own journal ends in
  `log.Fatalf` only by a torn line, the type of a change, the length of a line or a
  text that JSON makes invalid.  The premise excludes the torn line a crash may leave,
  as it does the one of a failed write; TLC refutes `Restartable` without it.

### Transfers (`TransferProofs`)

The inductive invariant of the composed system is `SystemInv`: `TypeInv`,
`DistinctInv`, `SerialsFixed` (no zone, history entry or staged change has
another serial than the seeds), `TransferTypeOK` and `WorkInv` (what each worker
holds at its place, that one worker loads a secondary, that a secondary has the
serial of its primary).  `SystemSpec` does not imply the `Spec` of the update
path, since transfers write `xfer`; the lemmas of `UpdateProofs` about its steps
are used on the steps of the system instead.

* `TransferTypes` (`TransferTypeOK`), `SnapshotsWhole` (`Carried`),
  `ClaimsOwned` (`InProgressIsOwned`), from `SystemInv`.  `Carried` needs
  `DistinctInv`: that filling a secondary row by row arrives at the rows it was
  sent holds because no value is there twice.
* `TransfersAreCopies` (`ImplementsZoneCopy`), whatever fails.
* `DeltasDurable` (`DeltaIsDurable`), if `Whole`: no torn write and no missed
  deadline.  `LoggedInv` says that every change in a history, or about to enter
  one, has a line that is read as what JSON makes of that change, and so has every
  change in a delta; lines are never taken away.  A change that was replayed is what
  JSON makes of itself, since JSON changes a text once.

A worker's step writes nothing that the invariants of the update path speak of
(`SystemSides`, `PathUnchanged`): of the variables of `UpdateService` it writes
`xfer` at most.  The steps of each invariant therefore carry over, and what is proved
of the update path alone is proved of the whole system:

* `UpdatesBesideTransfers` (`HistoryExplainsZone`, `AnnouncedNotFailed`,
  `ValuesDistinct`), whatever fails; `OrderlyStopBesideTransfers`
  (`ShutdownAnswersCallers`), if `Orderly`; `JournalBesideTransfers`
  (`ZoneMatchesJournal`) and `PromiseBesideTransfers` (`ImplementsDurableZones`), if
  `Dependable`; `AcknowledgedBesideTransfers` (`AckedIsJournaled`,
  `NotifyAfterPersist`), if `Whole`; `StartsBesideTransfers` (`Restartable`), if
  `Rereadable`.
* `SecondariesJournaled` (`SecondaryIsJournaled`), if `Accepting`.  A snapshot may
  hold a staged change, so "the secondary is what lines made of the primary" is not
  inductive.  `Deliverable` is: the rows that the lines, as memory took them
  (`AsTaken`), have made of a zone, and those it has now.  The invariant `DeliveryInv`
  says that no call is on its way to a rollback (`NothingUndone`), that during a start
  nothing has been delivered yet (`Undelivered`), and that what a worker carries or
  has delivered is deliverable (`Delivering`).  Staging a change takes nothing
  deliverable away, because before it the zone rested on its lines (`RestsOnLines`),
  and its line makes the change one of them; replaying a line turns it from what was
  asked into what was read, when no secondary holds anything yet; a crash that cuts
  the change off empties the secondaries with it.

### Signing (`SigningProofs`)

* `TypeCorrect` (`TypeOK`), with `Placed` as the strengthening.
* `RefusalsExplained` (`RefusalExplained`) and `ReloadsRepair`
  (`ReloadRepairs`), if `OnTime`.  `KeysInv`
  says that a key that was ever active verifies or is past its time; `RepairInv`
  says, when nothing was updated, that what a clean reload has passed is covered
  and that a calm query will be answered.
* `AnswersDurable` (`AnswersAreDurable`), if `Alone`.  `HistoryInv` says that every signature covers what a key held after
  some number of lines.  A query that sees a staged change is thus refused by the
  signature check, which alone keeps it from being answered.
* `SignedBetweenUpdates` (`SignedAtRest`), if `Steady`.  `RestInv` says which
  RRset the updater has still to sign.
* `AnswersCurrent` (`AnswersAreCurrent`), if `Undisturbed`.  `HistoryInv` only says
  that a signature is of some point of the journal; `CurrentInv` says which.  While
  an update is signed its line is the last, and what it has replaced carries the
  signature of before or of now (`LastLine`).  A query that reads the old signature
  then began before that line, for which the old content was current, or it began
  after and saw the new content, which the old signature does not verify
  (`ReadIsCurrent`).

### Resolver and messages (`ResolverProofs`, `WireProofs`)

The inductive invariant of the resolver is `Inv == TypeOK /\ Grounded /\
RepliesWereTrue`.

* `TypeCorrect` (`TypeOK`): typing needs `CHOOSE` to find the shortest time to
  live and the least record of a list that is not empty; `ShortestType` and
  `FirstOfList` show that they exist.
* `EntriesTrue` (`Grounded`) and `RepliesTrue` (`RepliesWereTrue`).  A reply may
  come from an entry, so `Grounded` says of every entry what `RepliesWereTrue`
  says of every reply.
* `CacheWithinLimit` (`CacheBounded`), by counting in `PutBounded`.
* `OldAnswersDie` (`OldAnswersEnd`), if `MaxTTL > 0`.  `Grounded` holds the
  reason: an entry whose content is gone was stored no later than the last stir,
  and it lives no longer than `MaxTTL`.  With times to live of zero a reply and a
  change may fall on one instant.
* `MessagesReadBack` (`RoundTrips`): a query and a notification are read back as
  they were meant, for every name that can be packed, every type with a code and
  every serial.
* `MessagesTrue` (`WireRepliesTrue`: of the name and type that were asked) and `MessagesSent` (`WireRepliesSent`), from
  the resolver's invariant; the second also needs that negative entries and
  replies carry the minimum of the zone (`EntriesTimed`, `RepliesTimed`).

### How the recursive definitions are used

`KeptUpTo`, `ReplayUpTo`, `ChangesAfter` and `AfterOps` are recursive functions.
To use their equations a proof must know that a function satisfying them exists;
`RecursionFacts` shows that for any fold over `0..n` from the least-number
principle, without the induction theorems of the library.  `RecordFacts` says
what the store's operators return, and the lemmas of each component what one more
line or entry does (`ReplayPrefix`, `ReplayAppend`, `ReplaySame`) and what each
action does to each conjunct of an invariant.

Only model-checked: the liveness properties `CallAnswered`, `ServesAgain` and
`TransfersEnd`, which involve fairness and ENABLED and are outside what TLAPS
proves.

## What is abstracted, and what is left out

* Names are matched as a whole: the suffix match that finds the zone of a name is
  the function `ZoneOf`, and zones are disjoint as the seeded ones are.
* Values and the pairs a value parser refuses are small sets (`Malformed`).
  A length matters twice.  `Oversized` holds the changes whose line, escapes and
  all, is above the megabyte the scanner takes, which `Append` writes all the same;
  a TXT above 255 bytes is `Malformed`, and JSON can make one longer (`DataText`).
* The notifier of the repository never fails, but `transfer.Notifier` is an
  interface and `NotifyZone` handles its error, so "notify" is among the faults.
* The keyring's zero `ActiveUntil` ("for ever") does not occur: `Generate` and
  `Rollover` always set it.  `Rollover` is called by the demo only; its lock
  makes it safe to call at any time, and the models do.
* A signature's `Expires` is written and never compared with a clock, and
  nothing resigns as time passes, so an expired signature is no state of its own.
* `Resolver` takes the zone's content and the verdict on a signature as choices.
  Reading the SOA for a negative answer is part of `AnswerNegative`: no update
  may write an SOA record, so its minimum is constant.
* The version and the history of a secondary are left out, since nothing reads
  them; `NextSerial` is called by no code.
* The lists of records are values.  `Apply` filters its list in place; `Lookup`, `All`
  and `Snapshot` copy under the store's lock, so no reader shares a list with it.
* `ZoneCopy` says that a secondary is replaced by one content its primary had while
  the transfer ran.  It does not say which of two transfers that overlap is applied
  last: the older snapshot may be, and no property covers that hazard.
* A message is not packed into bytes: the library does that, and all the code
  decides is what it is given and what it does with what comes back.

Not modelled: metrics, which no code reads back; the vendored packet library,
but for the names it accepts; `Status`, `State` and `Secondary`, which only read;
the parsing and printing of HTTP requests and the configuration, which keep no
state; the scripted demo, whose calls are actions of the modules.
