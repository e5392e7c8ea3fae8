--------------------------- MODULE UpdateService ---------------------------
(***************************************************************************)
(* The dynamic-update path of zonedns: update.Service over the zones, the  *)
(* change journal, the transfer states and the notifier, from the HTTP     *)
(* handler's call to its answer, through shutdown, crash and the replay of *)
(* the journal at the next start.                                          *)
(*                                                                         *)
(* One client is one handler goroutine.  Apply holds the service mutex     *)
(* from validation to its return, but the zone, the journal and the        *)
(* notifier each have their own lock, so every step below is visible to    *)
(* the readers of a zone and may be the last one before a crash.           *)
(*                                                                         *)
(* The resign hook is modelled in module Signing; here it only succeeds or *)
(* fails.  Calls carry an identifier that the program does not have: it    *)
(* lets the properties follow one update through the journal, the history  *)
(* and the notifications.                                                  *)
(*                                                                         *)
(* A line of the journal is JSON.  /update takes any bytes for a name and  *)
(* a value, json.Marshal writes U+FFFD for those that are not UTF-8, and   *)
(* what is read back is another text.  The text of a line is a function of *)
(* the entry it was made from, so a line is named here by that entry, and  *)
(* Read is what Replay makes of it.                                        *)
(***************************************************************************)
EXTENDS RecordStore

CONSTANTS
    Clients,      \* handler goroutines
    Zones,        \* the zones buildApplication seeds
    ZoneOf,       \* ZoneOf[n] is the zone a canonical name lies in
    Seeds,        \* Seeds[z] is the store seedZone builds
    SeedSerial,   \* the SOA serial seedZone writes
    Requests,     \* the [zone, change] pairs callers may ask for
    Kinds,        \* the kinds of change they ask for: the handler only upserts
    NameText,     \* NameText[n] is the name n after a journey through JSON
    DataText,     \* DataText[v] is the value v after it
    None,         \* no holder, no request, no staged change
    Torn,         \* a journal line that does not decode
    Oversized,    \* changes whose line, escapes and all, is above the megabyte
                  \* Replay's scanner takes
    Durable,      \* whether -journal-dir was given
    Faults,       \* which environment faults may happen
    MaxCalls,     \* bound on the number of calls
    MaxStops      \* bound on the number of crashes and shutdowns

Ids == 1..MaxCalls

Entry == [id : Ids, zone : Zones, serial : Nat, change : Change]

FaultKinds == {"refuse", "unsynced", "torn", "resign", "notify", "deadline",
               "crash"}

ASSUME UpdateAssumption ==
    /\ None \notin Clients
    /\ ZoneOf \in [Names -> Zones]
    /\ Seeds \in [Zones -> Stores]
    /\ SeedSerial \in Nat
    /\ \A r \in Requests : r.change \in Change
    /\ None \notin Requests
    /\ Torn \notin Entry
    /\ Oversized \subseteq Change
    /\ Durable \in BOOLEAN
    /\ Faults \subseteq FaultKinds
    /\ MaxCalls \in Nat
    /\ MaxStops \in Nat

\* JSON changes a text once: what was read is read again as it is.  U+FFFD is
\* also what lower-casing leaves of such bytes, so a name stays in its place.
ASSUME TextAssumption ==
    /\ NameText \in [Spellings -> Spellings]
    /\ DataText \in [RDatas -> RDatas]
    /\ \A n \in Spellings : NameText[NameText[n]] = NameText[n] /\ Canon[NameText[n]] = Canon[n]
    /\ \A v \in RDatas : DataText[DataText[v]] = DataText[v]

VARIABLES
    mode,      \* the process: down, replaying, serving, draining, closed, fatal
    stops,     \* crashes and shutdowns so far
    records,   \* Zone.records, per zone
    serial,    \* Zone.serial
    version,   \* Zone.version
    history,   \* Zone.history
    xfer,      \* transfer.Service.states
    events,    \* MemoryNotifier.events
    lines,     \* the lines of changes.journal, each by the entry json.Marshal
               \* was given; survives a stop
    unended,   \* the last line has no newline; survives a stop
    replayed,  \* entries ApplyReplayed has applied since the start
    lock,      \* holder of update.Service.mu
    pc,        \* where each client is in Apply
    call,      \* identifier of each client's current call
    staged,    \* the StagedChange of each client
    request,   \* what each identifier asked for
    outcome    \* what the caller of each identifier was told

zoneVars    == <<records, serial, version, history>>
senderVars  == <<xfer, events>>
journalVars == <<lines, unended>>
processVars == <<mode, stops, replayed>>
callVars    == <<request, outcome>>

vars == <<zoneVars, senderVars, journalVars, processVars, lock, pc, call,
          staged, callVars>>

Step(c, from, to) == pc[c] = from /\ pc' = [pc EXCEPT ![c] = to]

\* A bug: the unlock is not deferred and a failing return misses it.
Return_FailureKeepsLock(c, from, answer) ==
    /\ Step(c, from, "idle")
    /\ lock' = IF answer = "failed" THEN lock ELSE None
    /\ staged' = [staged EXCEPT ![c] = None]
    /\ call' = [call EXCEPT ![c] = 0]
    /\ outcome' = [outcome EXCEPT ![call[c]] = answer]

\* Apply returns: the deferred unlock runs, its locals are gone, and the
\* caller gets its answer.
Return(c, from, answer) ==
    /\ Step(c, from, "idle")
    /\ lock' = None
    /\ staged' = [staged EXCEPT ![c] = None]
    /\ call' = [call EXCEPT ![c] = 0]
    /\ outcome' = [outcome EXCEPT ![call[c]] = answer]

Asked(c)  == request[call[c]]
ZoneAt(c) == Asked(c).zone

-----------------------------------------------------------------------------
(***************************************************************************)
(* The journal file.                                                       *)
(***************************************************************************)

\* Whether Journal.file is non-nil: not in memory, not closed.
FileOpen == Durable /\ mode # "closed"

\* A bug: a write that was slow is made again.
WholeLine_Twice(e) ==
    /\ unended' = FALSE
    /\ lines' = Append(Append(lines, e), e)

\* A write of a whole line.  If the file ends in the middle of a line the
\* new text joins it and neither decodes any more.
WholeLine(e) ==
    /\ unended' = FALSE
    /\ lines' = IF unended THEN [lines EXCEPT ![Len(lines)] = Torn]
                           ELSE Append(lines, e)

\* A write that stops short of the newline; the text may be whole even so.
PartOfLine(e) ==
    /\ unended' = TRUE
    /\ \E l \in {Torn, e} :
          lines' = IF unended THEN [lines EXCEPT ![Len(lines)] = Torn]
                              ELSE Append(lines, l)

\* json.Marshal and json.Unmarshal of a change: every byte of its texts that is
\* not UTF-8 has become U+FFFD.
Decoded(ch) == [ch EXCEPT !.name = NameText[@], !.rdata = DataText[@]]

\* The entry that Replay reads from a line that decodes.
Read(e) == IF e = Torn THEN Torn ELSE [e EXCEPT !.change = Decoded(@)]

\* The entry Apply marshals into a line, and the one Commit adds to the history
\* without that: both carry the serial the zone has now.
EntryOf(c) == [id |-> call[c], zone |-> ZoneAt(c), serial |-> serial[ZoneAt(c)],
               change |-> Asked(c).change]

-----------------------------------------------------------------------------
(***************************************************************************)
(* update.Service.Apply, step by step.                                     *)
(***************************************************************************)

\* A handler enters Apply; it will wait for the mutex.  The one of /update sends
\* upserts; Apply and the journal know deletes too, which nothing asks for yet.
Call(c, r) ==
    /\ mode = "serving"
    /\ r.change.kind \in Kinds
    /\ \E id \in Ids :
          /\ request[id] = None
          /\ \A i \in 1..(id - 1) : request[i] # None
          /\ request' = [request EXCEPT ![id] = r]
          /\ outcome' = [outcome EXCEPT ![id] = "pending"]
          /\ call' = [call EXCEPT ![c] = id]
    /\ Step(c, "idle", "entered")
    /\ UNCHANGED <<zoneVars, senderVars, journalVars, processVars, lock, staged>>

\* validateChange, then the lookup of the zone.
Accepted(r) ==
    /\ Validated(r.change)
    /\ r.zone \in Zones
    /\ ZoneOf[Canon[r.change.name]] = r.zone
    /\ ~ (r.change.type = "CNAME" /\ r.change.kind = "upsert")

\* A bug: the service mutex is not taken.
MutexFree_Unlocked == TRUE

MutexFree == lock = None

Reject(c) ==
    /\ pc[c] = "entered"
    /\ MutexFree
    /\ ~ Accepted(Asked(c))
    /\ Return(c, "entered", "rejected")
    /\ UNCHANGED <<zoneVars, senderVars, journalVars, processVars, request>>

\* Zone.StageChange: the change is in the zone before anything is written.
Stage(c) ==
    LET z == ZoneAt(c) IN
    /\ Step(c, "entered", "staged")
    /\ MutexFree
    /\ Accepted(Asked(c))
    /\ lock' = c
    /\ staged' = [staged EXCEPT ![c] =
          [before |-> records[z], serialBefore |-> serial[z],
           versionBefore |-> version[z]]]
    /\ records' = [records EXCEPT ![z] = ApplyChange(@, Asked(c).change)]
    /\ UNCHANGED <<serial, version, history, senderVars, journalVars,
                   processVars, call, callVars>>

\* Journal.Append writes and syncs the line.
AppendWritten(c) ==
    /\ FileOpen
    /\ Step(c, "staged", "journaled")
    /\ WholeLine(EntryOf(c))
    /\ UNCHANGED <<zoneVars, senderVars, processVars, lock, call, staged, callVars>>

\* Without a file, Append reports success and stores nothing.
AppendWithoutFile(c) ==
    /\ ~ FileOpen
    /\ Step(c, "staged", "journaled")
    /\ UNCHANGED <<zoneVars, senderVars, journalVars, processVars, lock, call,
                   staged, callVars>>

\* A bug: Apply does not look at the error of Append.
AppendRefused_Ignored(c) ==
    /\ "refuse" \in Faults
    /\ Step(c, "staged", "journaled")
    /\ UNCHANGED <<zoneVars, senderVars, journalVars, processVars, lock, call,
                   staged, callVars>>

\* Append fails before a byte is written (also the SetFail hook).
AppendRefused(c) ==
    /\ "refuse" \in Faults
    /\ Step(c, "staged", "undo")
    /\ UNCHANGED <<zoneVars, senderVars, journalVars, processVars, lock, call,
                   staged, callVars>>

\* The line is written but Sync fails.
AppendUnsynced(c) ==
    /\ FileOpen
    /\ "unsynced" \in Faults
    /\ Step(c, "staged", "undo")
    /\ WholeLine(EntryOf(c))
    /\ UNCHANGED <<zoneVars, senderVars, processVars, lock, call, staged, callVars>>

\* Write fails part way through the line.
AppendTorn(c) ==
    /\ FileOpen
    /\ "torn" \in Faults
    /\ Step(c, "staged", "undo")
    /\ PartOfLine(EntryOf(c))
    /\ UNCHANGED <<zoneVars, senderVars, processVars, lock, call, staged, callVars>>

\* A bug: Rollback forgets to put the records back.
Restored_Skipped(c) == records

Restored(c) == [records EXCEPT ![ZoneAt(c)] = staged[c].before]

\* StagedChange.Rollback, and Apply returns its error.  History is not touched.
Rollback(c) ==
    LET z == ZoneAt(c) IN
    /\ Return(c, "undo", "failed")
    /\ records' = Restored(c)
    /\ serial' = [serial EXCEPT ![z] = staged[c].serialBefore]
    /\ version' = [version EXCEPT ![z] = staged[c].versionBefore]
    /\ UNCHANGED <<history, senderVars, journalVars, processVars, request>>

\* The first half of StagedChange.Commit, under Zone.mu.
CommitZone(c) ==
    LET z == ZoneAt(c) IN
    /\ Step(c, "journaled", "resigning")
    /\ version' = [version EXCEPT ![z] = @ + 1]
    /\ history' = [history EXCEPT ![z] = Append(@, EntryOf(c))]
    /\ UNCHANGED <<records, serial, senderVars, journalVars, processVars, lock,
                   call, staged, callVars>>

\* The resign hook (Signer.OnZoneUpdated) returns.
Resigned(c) ==
    /\ Step(c, "resigning", "committing")
    /\ UNCHANGED <<zoneVars, senderVars, journalVars, processVars, lock, call,
                   staged, callVars>>

\* A bug: Commit notifies before it runs the hook.
ResignFailed_AfterNotify(c) ==
    /\ "resign" \in Faults
    /\ Step(c, "committed", "undo")
    /\ UNCHANGED <<zoneVars, senderVars, journalVars, processVars, lock, call,
                   staged, callVars>>

\* The resign hook fails: Commit returns its error and Apply rolls back.
ResignFailed(c) ==
    /\ "resign" \in Faults
    /\ Step(c, "resigning", "undo")
    /\ UNCHANGED <<zoneVars, senderVars, journalVars, processVars, lock, call,
                   staged, callVars>>

\* transfer.Service.NotifyZone: the event is sent, or the transfer is failed.
Notify(c, sent) ==
    /\ xfer' = [xfer EXCEPT ![ZoneAt(c)] = IF sent THEN "complete" ELSE "failed"]
    /\ events' = IF sent THEN Append(events, [id |-> call[c], zone |-> ZoneAt(c),
                                              serial |-> serial[ZoneAt(c)]])
                         ELSE events

NotifyOutcomes == IF "notify" \in Faults THEN {TRUE, FALSE} ELSE {TRUE}

\* The notify callback, the second half of Commit; its error is only counted.
NotifyInCommit(c) ==
    /\ Step(c, "committing", "committed")
    /\ \E sent \in NotifyOutcomes : Notify(c, sent)
    /\ UNCHANGED <<zoneVars, journalVars, processVars, lock, call, staged, callVars>>

\* Apply notifies a second time and returns.
NotifyAndReturn(c) ==
    /\ \E sent \in NotifyOutcomes :
          /\ Return(c, "committed", IF sent THEN "ok" ELSE "notify-failed")
          /\ Notify(c, sent)
    /\ UNCHANGED <<zoneVars, journalVars, processVars, request>>

-----------------------------------------------------------------------------
(***************************************************************************)
(* The process: crash, shutdown, start.                                    *)
(***************************************************************************)

\* What memory holds when the process is gone, and again when seedZone is done.
FreshMemory ==
    /\ records' = Seeds
    /\ serial' = [z \in Zones |-> SeedSerial]
    /\ version' = [z \in Zones |-> 0]
    /\ history' = [z \in Zones |-> << >>]
    /\ xfer' = [z \in Zones |-> "idle"]
    /\ events' = << >>
    /\ replayed' = 0
    /\ lock' = None
    /\ pc' = [c \in Clients |-> "idle"]
    /\ call' = [c \in Clients |-> 0]
    /\ staged' = [c \in Clients |-> None]

\* Callers still waiting will never be told.
LoseCallers ==
    outcome' = [id \in Ids |-> IF outcome[id] = "pending" THEN "lost" ELSE outcome[id]]

\* A bug: the line and its newline are two writes.
CrashLeaves_TwoWrites ==
    \/ UNCHANGED journalVars
    \/ \E c \in Clients : /\ pc[c] = "staged" /\ FileOpen
                          /\ WholeLine(EntryOf(c)) \/ PartOfLine(EntryOf(c))

\* The file a crash leaves: a write that had begun may be there in any part.
CrashLeaves ==
    \/ UNCHANGED journalVars
    \/ \E c \in Clients : /\ pc[c] = "staged" /\ FileOpen
                          /\ \/ WholeLine(EntryOf(c))
                             \/ "torn" \in Faults /\ PartOfLine(EntryOf(c))

Crash ==
    /\ "crash" \in Faults
    /\ mode \in {"replaying", "serving", "draining", "closed"}
    /\ stops < MaxStops
    /\ mode' = "down"
    /\ stops' = stops + 1
    /\ CrashLeaves
    /\ FreshMemory
    /\ LoseCallers
    /\ UNCHANGED request

\* SIGTERM: Server.Shutdown lets no new call in.
Shutdown ==
    /\ mode = "serving"
    /\ stops < MaxStops
    /\ mode' = "draining"
    /\ stops' = stops + 1
    /\ UNCHANGED <<zoneVars, senderVars, journalVars, replayed, lock, pc, call,
                   staged, callVars>>

\* A bug: the server is closed and not shut down.
Drained_Unchecked == TRUE

\* No handler is running.
Drained == \A c \in Clients : pc[c] = "idle"

\* Shutdown returns when the handlers are done, or after three seconds.
CloseJournal ==
    /\ mode = "draining"
    /\ Drained \/ "deadline" \in Faults
    /\ mode' = "closed"
    /\ UNCHANGED <<zoneVars, senderVars, journalVars, stops, replayed, lock, pc,
                   call, staged, callVars>>

\* main returns; handlers still running die with it.
Exit ==
    /\ mode = "closed"
    /\ mode' = "down"
    /\ FreshMemory
    /\ LoseCallers
    /\ UNCHANGED <<journalVars, stops, request>>

\* Replay scans and decodes every line; Append has written lines of any length.
Decodes ==
    \A i \in 1..Len(lines) : lines[i] # Torn /\ lines[i].change \notin Oversized

\* buildApplication opens and decodes the journal; a bad line is fatal.
Start ==
    /\ mode = "down"
    /\ mode' = IF Decodes THEN "replaying" ELSE "fatal"
    /\ UNCHANGED <<zoneVars, senderVars, journalVars, stops, replayed, lock, pc,
                   call, staged, callVars>>

\* A bug: the journal is replayed from its newest entry to its oldest.
NextToReplay_NewestFirst == Len(lines) - replayed

NextToReplay == replayed + 1

\* The types ApplyReplayed can name.
Replayable == {"A", "AAAA", "TXT", "MX", "NS"}

\* ApplyReplayed takes an entry: it can name the type, and the store still
\* accepts the record, which JSON may have made longer than it was.
Applicable(e) == e.change.type \in Replayable /\ Validated(e.change)

\* ApplyReplayed of the next entry as it was read: stage and commit, with no
\* hook and no callback set yet.
ReplayEntry ==
    LET e == Read(lines[NextToReplay]) IN
    /\ mode = "replaying"
    /\ replayed < Len(lines)
    /\ Applicable(e)
    /\ records' = [records EXCEPT ![e.zone] = ApplyChange(@, e.change)]
    /\ version' = [version EXCEPT ![e.zone] = @ + 1]
    /\ history' = [history EXCEPT ![e.zone] =
          Append(@, [e EXCEPT !.serial = serial[e.zone]])]
    /\ replayed' = replayed + 1
    /\ UNCHANGED <<serial, senderVars, journalVars, mode, stops, lock, pc, call,
                   staged, callVars>>

\* A bug: an entry that cannot be applied is tried again.
ReplayFails_Retried ==
    /\ mode = "replaying"
    /\ replayed < Len(lines)
    /\ ~ Applicable(Read(lines[NextToReplay]))
    /\ UNCHANGED vars

\* An entry ApplyReplayed refuses ends the start with log.Fatalf.
ReplayFails ==
    /\ mode = "replaying"
    /\ replayed < Len(lines)
    /\ ~ Applicable(Read(lines[NextToReplay]))
    /\ mode' = "fatal"
    /\ UNCHANGED <<zoneVars, senderVars, journalVars, stops, replayed, lock, pc,
                   call, staged, callVars>>

\* Hooks and callbacks are set and the server listens.
Serve ==
    /\ mode = "replaying"
    /\ replayed = Len(lines)
    /\ mode' = "serving"
    /\ UNCHANGED <<zoneVars, senderVars, journalVars, stops, replayed, lock, pc,
                   call, staged, callVars>>

-----------------------------------------------------------------------------
Init ==
    /\ mode = "down"
    /\ stops = 0
    /\ records = Seeds
    /\ serial = [z \in Zones |-> SeedSerial]
    /\ version = [z \in Zones |-> 0]
    /\ history = [z \in Zones |-> << >>]
    /\ xfer = [z \in Zones |-> "idle"]
    /\ events = << >>
    /\ lines = << >>
    /\ unended = FALSE
    /\ replayed = 0
    /\ lock = None
    /\ pc = [c \in Clients |-> "idle"]
    /\ call = [c \in Clients |-> 0]
    /\ staged = [c \in Clients |-> None]
    /\ request = [id \in Ids |-> None]
    /\ outcome = [id \in Ids |-> "none"]

AppendJournal(c) ==
    \/ AppendWritten(c)
    \/ AppendWithoutFile(c)
    \/ AppendRefused(c)
    \/ AppendUnsynced(c)
    \/ AppendTorn(c)

\* The steps of a call once it is made.
ApplyStep(c) ==
    \/ Reject(c)
    \/ Stage(c)
    \/ AppendJournal(c)
    \/ Rollback(c)
    \/ CommitZone(c)
    \/ Resigned(c)
    \/ ResignFailed(c)
    \/ NotifyInCommit(c)
    \/ NotifyAndReturn(c)

Boot == Start \/ ReplayEntry \/ ReplayFails \/ Serve

Stop == Crash \/ Shutdown \/ CloseJournal \/ Exit

Next ==
    \/ \E c \in Clients, r \in Requests : Call(c, r)
    \/ \E c \in Clients : ApplyStep(c)
    \/ Boot
    \/ Stop

\* A goroutine that can run is run, the mutex wakes every waiter in turn, a
\* supervisor starts the process, and a shutdown that began ends.  Nothing
\* makes a client call or the process stop.
Fairness ==
    /\ \A c \in Clients : SF_vars(ApplyStep(c))
    /\ WF_vars(Boot)
    /\ WF_vars(CloseJournal \/ Exit)

Spec == Init /\ [][Next]_vars

FairSpec == Spec /\ Fairness
=============================================================================
