-------------------------- MODULE UpdateProperties --------------------------
(***************************************************************************)
(* What must be true of the dynamic-update path, and what the repository's *)
(* documents and tests say of it.                                          *)
(***************************************************************************)
EXTENDS UpdateService

Modes == {"down", "replaying", "serving", "draining", "closed", "fatal"}

Places == {"idle", "entered", "staged", "journaled", "undo", "resigning",
           "committing", "committed"}

\* Places inside the critical section of Apply.
Inside == Places \ {"idle", "entered"}

TransferStates == {"idle", "in-progress", "complete", "failed"}

Outcomes == {"none", "pending", "ok", "notify-failed", "failed", "rejected", "lost"}

StagedChange == [before : Stores, serialBefore : Nat, versionBefore : Nat]

Event == [id : Ids, zone : Zones, serial : Nat]

\* The type invariant of the update path: every variable keeps the values the
\* program's own types give it.
TypeOK ==
    /\ mode \in Modes
    /\ stops \in 0..MaxStops
    /\ records \in [Zones -> Stores]
    /\ serial \in [Zones -> Nat]
    /\ version \in [Zones -> Nat]
    /\ history \in [Zones -> Seq(Entry)]
    /\ xfer \in [Zones -> TransferStates]
    /\ events \in Seq(Event)
    /\ lines \in Seq(Entry \cup {Torn})
    /\ unended \in BOOLEAN
    /\ replayed \in 0..Len(lines)
    /\ lock \in Clients \cup {None}
    /\ pc \in [Clients -> Places]
    /\ call \in [Clients -> Ids \cup {0}]
    /\ staged \in [Clients -> StagedChange \cup {None}]
    /\ request \in [Ids -> Requests \cup {None}]
    /\ outcome \in [Ids -> Outcomes]

\* Where a call is and what the rest of the process may assume of it: a call
\* that runs was made, one inside Apply holds the mutex alone, was accepted
\* and has something to roll back to; no call is under way before the server
\* listens, and what is being replayed was decoded whole (update.go, main.go).
Control ==
    /\ \A c \in Clients :
          /\ pc[c] # "idle" => call[c] \in Ids /\ Asked(c) \in Requests
          /\ pc[c] \in Inside =>
                lock = c /\ Accepted(Asked(c)) /\ staged[c] \in StagedChange
    /\ mode \in {"down", "replaying", "fatal"} => \A c \in Clients : pc[c] = "idle"
    /\ mode = "replaying" => \A i \in 1..Len(lines) : lines[i] # Torn

-----------------------------------------------------------------------------
(***************************************************************************)
(* What a log of entries makes of a zone.                                  *)
(***************************************************************************)

\* The store of z after each prefix of a log, from the seeds, leaving out the
\* entries of the updates in undone.
ReplayUpTo(z, log, undone) ==
    LET after[n \in 0..Len(log)] ==
          IF n = 0 THEN Seeds[z]
          ELSE IF log[n] = Torn THEN after[n - 1]
          ELSE IF log[n].zone # z \/ log[n].id \in undone THEN after[n - 1]
          ELSE ApplyChange(after[n - 1], log[n].change)
    IN after

ReplayOf(z, log, undone) == ReplayUpTo(z, log, undone)[Len(log)]

\* A log of which the first n entries have been through JSON.
AsRead(log, n) == [i \in 1..Len(log) |-> IF i <= n THEN Read(log[i]) ELSE log[i]]

\* What the journal says to a start.
OnDisk == AsRead(lines, Len(lines))

\* The same log as memory took it: replayed from the file, or as its callers
\* asked since the start.
AsTaken == AsRead(lines, replayed)

\* What a restart would rebuild of a zone, if it accepts every line.
Durably(z) == ReplayOf(z, OnDisk, {})

\* What memory has made of the lines of a zone.
InMemory(z) == ReplayOf(z, AsTaken, {})

\* What was written of the zone since the start says what was asked: JSON has
\* changed no text of it.
Verbatim(z) ==
    \A i \in (replayed + 1)..Len(lines) :
        lines[i] # Torn /\ lines[i].zone = z => Read(lines[i]) = lines[i]

\* The updates whose callers were told they failed.
FailedIds == {id \in Ids : outcome[id] = "failed"}

Journaled(id) == \E i \in 1..Len(lines) : lines[i] # Torn /\ lines[i].id = id

Acknowledged(id) == outcome[id] \in {"ok", "notify-failed"}

\* The process has recovered and no update is under way.
Quiet == mode \in {"serving", "draining", "closed"} /\ lock = None

-----------------------------------------------------------------------------
(***************************************************************************)
(* Safety.                                                                 *)
(***************************************************************************)

\* Whenever no update is under way, the zone in memory is exactly what a
\* restart would rebuild from the journal, as long as JSON carried the texts of
\* the updates since the start; whatever it did to earlier ones, the start has
\* taken over (update.go, journal.go, replay.go).
ZoneMatchesJournal ==
    Quiet => \A z \in Zones : Verbatim(z) => records[z] = Durably(z)

\* Every state of a service whose journal neither tears nor fails after a write:
\* the file decodes; a zone is what its lines made of it, those before the start
\* as they were read and those since as they were asked, except between the
\* staging of an update and its line, when the update knows what to go back to;
\* and a start that has replayed n lines is at the n-th state of the file.
Synced ==
    /\ unended = FALSE
    /\ \A i \in 1..Len(lines) : lines[i] # Torn
    /\ mode = "down" => replayed = 0 /\ records = Seeds
    /\ mode = "replaying" =>
          \A z \in Zones : records[z] = ReplayUpTo(z, OnDisk, {})[replayed]
    /\ mode = "closed" => \A c \in Clients : pc[c] = "idle"
    /\ mode \in {"serving", "draining", "closed"} =>
          \A z \in Zones :
             \/ records[z] = InMemory(z)
             \/ \E c \in Clients : pc[c] \in {"staged", "undo"} /\ ZoneAt(c) = z
    /\ \A c \in Clients : pc[c] \in {"staged", "undo"} =>
          /\ staged[c].before = InMemory(ZoneAt(c))
          /\ records[ZoneAt(c)] = ApplyChange(staged[c].before, Asked(c).change)

\* No update has two lines.
LinesOnce == \A i, j \in 1..Len(lines) : lines[i].id = lines[j].id => i = j

\* Where an update's line is, by where its call is: written once, by one call,
\* and before anyone is told that it succeeded.
Traced ==
    /\ LinesOnce
    /\ \A id \in Ids :
          /\ Journaled(id) => request[id] # None
          /\ Acknowledged(id) => Journaled(id)
    /\ \A c \in Clients :
          /\ pc[c] \in {"entered", "staged", "undo"} => ~ Journaled(call[c])
          /\ pc[c] \in {"journaled", "resigning", "committing", "committed"} =>
                Journaled(call[c])
          /\ \A d \in Clients :
                pc[c] # "idle" /\ pc[d] # "idle" /\ call[c] = call[d] => c = d

\* An update whose caller was told it succeeded has one line in the journal
\* and no more, through every crash, shutdown and replay that follows.
AckedIsJournaled ==
    Durable => \A id \in Ids : Acknowledged(id) =>
        \E i \in 1..Len(lines) :
            /\ lines[i] # Torn
            /\ lines[i].id = id
            /\ \A j \in 1..Len(lines) : lines[j] # Torn /\ lines[j].id = id => j = i

\* The updates the start brought back, though a caller may have been told that
\* one failed; they cannot be told once a write has damaged a line replayed.
ReplayedIds == {lines[i].id : i \in 1..replayed}

ReplayedIntact == \A i \in 1..replayed : lines[i] # Torn

\* Whenever no update is under way, the change history, which incremental
\* transfers are cut from, explains the zone: the seeds, what was replayed and
\* the changes that were not reported as failed since give its content (zone.go).
HistoryExplainsZone ==
    Quiet /\ ReplayedIntact => \A z \in Zones :
        records[z] = ReplayOf(z, history[z], FailedIds \ ReplayedIds)

\* Secondaries are only told of updates that are in the journal.
NotifyAfterPersist ==
    Durable => \A i \in 1..Len(events) : Journaled(events[i].id)

\* No update is announced to the secondaries and then reported as failed.
AnnouncedNotFailed ==
    \A i \in 1..Len(events) : outcome[events[i].id] \notin {"failed", "rejected"}

\* A shutdown that is not cut short answers every call it let in.
ShutdownAnswersCallers == \A id \in Ids : outcome[id] # "lost"

\* seedZone writes no record twice.
ASSUME SeedAssumption == \A z \in Zones : Distinct(Seeds[z])

\* A name never holds the same value twice, whatever was upserted, rolled back
\* or replayed: an answer would repeat the record (record.go).
ValuesDistinct == \A z \in Zones : Distinct(records[z])

\* A line that a start gets through: it decodes, the scanner takes it, and what
\* it says is applied.
Legible(e) == e # Torn /\ e.change \notin Oversized /\ Applicable(Read(e))

\* The service can always start on the journal it wrote itself, as long as every
\* line it writes is legible and no write stops part way: a crash at any point
\* leaves a file that is read (main.go, buildApplication; journal.go, Replay).
Restartable == mode # "fatal"

\* The update path implements DurableZones: what the journal says is the durable
\* content, an update takes effect when its line is written, and what is kept of
\* a change is what JSON makes of it.
Promise == INSTANCE DurableZones WITH
    content   <- [z \in Zones |-> Durably(z)],
    effective <- {id \in Ids : Journaled(id)},
    Written   <- Decoded

ImplementsDurableZones == Promise!Spec

-----------------------------------------------------------------------------
(***************************************************************************)
(* Liveness.                                                               *)
(***************************************************************************)

\* Every call of Apply is answered, unless the process stops first.
CallAnswered == \A id \in Ids : outcome[id] = "pending" ~> outcome[id] # "pending"

\* A process that went down serves again or refuses to start, and on a file whose
\* every line is legible it does serve.
ServesAgain ==
    /\ mode = "down" ~> mode \in {"serving", "fatal"}
    /\ (mode = "down" /\ \A i \in 1..Len(lines) : Legible(lines[i])) ~> mode = "serving"

-----------------------------------------------------------------------------
(***************************************************************************)
(* What documents and tests claim and the code does not do.                *)
(***************************************************************************)

\* The serial a zone has when an update is committed is above the one it had
\* when the update was staged (zone_verify_test.go, TestRecordUpdateBumpsSoaSerial).
CommitAdvancesSerial ==
    \A c \in Clients : pc[c] = "committed" =>
        serial[ZoneAt(c)] > staged[c].serialBefore

\* A change is in the journal before it is in the zone: what readers see is
\* never ahead of what a restart would rebuild (BENZHI_README.md, features).
JournalLeadsMemory ==
    mode = "serving" => \A z \in Zones :
        \E n \in 0..Len(lines) : records[z] = ReplayUpTo(z, AsTaken, {})[n]

\* The journal keeps the change that was acknowledged: what a start reads of the
\* line of an update is what its caller asked (BENZHI_README.md, features: the
\* change is first put on disk).
JournalKeepsChange ==
    Durable => \A id \in Ids : Acknowledged(id) =>
        \E i \in 1..Len(lines) :
            /\ lines[i] # Torn
            /\ lines[i].id = id
            /\ Read(lines[i]).change = request[id].change

\* An update reported as failed is not in the zone when the service is quiet.
FailedHasNoEffect ==
    Quiet => \A z \in Zones : \A i \in 1..Len(history[z]) :
        outcome[history[z][i].id] # "failed"
=============================================================================
