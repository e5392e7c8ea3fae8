------------------------------ MODULE Transfer ------------------------------
(***************************************************************************)
(* Zone transfers (internal/transfer, zone/snapshot.go) beside the update  *)
(* path: workers copy a primary zone to its secondary while the handlers   *)
(* of UpdateService stage, roll back, commit and notify, and the process   *)
(* stops and starts.                                                       *)
(*                                                                         *)
(* Covered: AXFR, IXFR, ApplyAXFR, ApplyIXFR, the transfer states that     *)
(* every one of them and every notification writes, and the transfer an    *)
(* operator triggers.  A step is one critical section of Zone.mu, of the   *)
(* record store of a secondary, or of transfer.Service.mu.  A secondary's  *)
(* version and history are left out: nothing reads them.                   *)
(*                                                                         *)
(* offered is not in the program: the contents the primary has had since a *)
(* worker began.                                                           *)
(***************************************************************************)
EXTENDS UpdateService

CONSTANTS
    Workers,       \* goroutines that transfer zones
    FromSerials,   \* the serials an incremental transfer is asked from
    Position,      \* where Store.All puts a record, by its key and value
    MaxTransfers   \* bound on the number of transfers

Keys == Names \X ManagedTypes

\* A record with its key, as Store.All lists it.
Row == [key : Keys, rdata : RDatas, ttl : TTLs]

ASSUME TransferAssumption ==
    /\ None \notin Zones
    /\ FromSerials \subseteq Nat
    /\ Position \in [Keys \X RDatas -> Nat]
    /\ MaxTransfers \in Nat

VARIABLES
    copy,        \* the records of each secondary zone
    copySerial,  \* its serial
    place,       \* where each worker is
    job,         \* the zone it transfers
    wanted,      \* the serial AXFR read first, or the one IXFR is asked from
    reached,     \* the serial of the snapshot or delta
    rows,        \* the records of the snapshot
    todo,        \* those of them ApplyFull has not applied yet
    ops,         \* the operations of the delta
    offered,     \* the contents the primary has had since the worker began
    begun        \* transfers so far

copyVars   == <<copy, copySerial>>
packetVars == <<wanted, reached, rows, todo, ops>>
workVars   == <<place, job, packetVars, begun>>

systemVars == <<vars, copyVars, workVars, offered>>

\* What a transfer leaves alone of the update path: all but the states.
updateRest == <<zoneVars, events, journalVars, processVars, lock, pc, call,
                staged, callVars>>

Move(w, from, to) == place[w] = from /\ place' = [place EXCEPT ![w] = to]

\* Store.All: what a zone holds, whatever the order in each list.
RowsOf(st) ==
    {r \in Row : \E i \in 1..Len(st[r.key]) :
        st[r.key][i] = [rdata |-> r.rdata, ttl |-> r.ttl]}

\* A bug: a transfer takes the records with no lock, and a staged change is
\* in none of the lists it has already read.
Taken_Torn(z) == {r \in RowsOf(records[z]) : \A c \in Clients :
                     staged[c] # None => r \notin RowsOf(staged[c].before)}

\* Zone.Snapshot, under the lock that StageChange and Rollback take.
Taken(z) == RowsOf(records[z])

Begin(w, z, place1) ==
    /\ mode = "serving"
    /\ begun < MaxTransfers
    /\ begun' = begun + 1
    /\ Move(w, "idle", place1)
    /\ job' = [job EXCEPT ![w] = z]

-----------------------------------------------------------------------------
(***************************************************************************)
(* The transfer states.                                                    *)
(***************************************************************************)

\* transfer.Service.Finish; the worker goes on.
Finish(w, from, to, state) ==
    /\ Move(w, from, to)
    /\ xfer' = [xfer EXCEPT ![job[w]] = state]
    /\ UNCHANGED <<updateRest, copyVars, begun>>

\* A transfer is over and its locals are gone.
Leave(w) ==
    /\ job' = [job EXCEPT ![w] = None]
    /\ wanted' = [wanted EXCEPT ![w] = 0]
    /\ reached' = [reached EXCEPT ![w] = 0]
    /\ rows' = [rows EXCEPT ![w] = {}]
    /\ todo' = [todo EXCEPT ![w] = {}]
    /\ ops' = [ops EXCEPT ![w] = << >>]

Stay == UNCHANGED <<job, packetVars>>

\* control.TriggerTransfer claims the state, unless it is claimed ...
StartTransfer(w, z) ==
    /\ xfer[z] # "in-progress"
    /\ Begin(w, z, "triggered")
    /\ xfer' = [xfer EXCEPT ![z] = "in-progress"]
    /\ UNCHANGED <<updateRest, copyVars, packetVars>>

\* A bug: the state is set back to idle if there was nothing to move, but only
\* by the worker that transfers.
EndTriggered_Forgotten(w) ==
    /\ Finish(w, "triggered", "idle", xfer[job[w]])
    /\ Leave(w)

\* ... and finishes it.  No record is moved.
EndTriggered(w) == Finish(w, "triggered", "idle", "complete") /\ Leave(w)

\* AXFR, IXFR or the application of a delta has failed.
Fail(w) == Finish(w, "failing", "idle", "failed") /\ Leave(w)

-----------------------------------------------------------------------------
(***************************************************************************)
(* AXFR and ApplyAXFR.                                                     *)
(***************************************************************************)

\* AXFR reads the serial it will ask SnapshotAt for.
AskFull(w, z) ==
    /\ Begin(w, z, "numbered")
    /\ wanted' = [wanted EXCEPT ![w] = serial[z]]
    /\ UNCHANGED <<xfer, updateRest, copyVars, reached, rows, todo, ops>>

\* SnapshotAt; it fails if the serial is another by now.
TakeSnapshot(w) ==
    LET z == job[w] IN
    /\ Move(w, "numbered",
            IF wanted[w] # 0 /\ wanted[w] # serial[z] THEN "failing" ELSE "copied")
    /\ rows' = [rows EXCEPT ![w] = Taken(z)]
    /\ reached' = [reached EXCEPT ![w] = serial[z]]
    /\ UNCHANGED <<xfer, updateRest, copyVars, job, wanted, todo, ops, begun>>

ReturnSnapshot(w) == Finish(w, "copied", "have", "complete") /\ Stay

\* A bug: ApplyFull does not take the lock of the secondary.
Unlocked_NoLock(z) == TRUE

\* Nobody holds the lock of a secondary zone.
Unlocked(z) == \A w \in Workers : ~ (place[w] = "loading" /\ job[w] = z)

\* A bug: ApplyFull drops the records and makes no map for new ones.
Cleared_Nil(z) == [copy EXCEPT ![z] = << >>]

Cleared(z) == [copy EXCEPT ![z] = EmptyStore]

\* ApplyFull clears the secondary ...
BeginLoad(w) ==
    /\ Move(w, "have", "loading")
    /\ Unlocked(job[w])
    /\ copy' = Cleared(job[w])
    /\ todo' = [todo EXCEPT ![w] = rows[w]]
    /\ UNCHANGED <<xfer, updateRest, copySerial, job, wanted, reached, rows, ops, begun>>

\* The first in the order of All of the records that are left.
FirstOf(s) ==
    CHOOSE r \in s : \A o \in s :
        Position[<<r.key, r.rdata>>] <= Position[<<o.key, o.rdata>>]

UpsertOf(r) == [kind |-> "upsert", name |-> r.key[1], type |-> r.key[2],
                rdata |-> r.rdata, ttl |-> r.ttl]

\* ... applies the records one at a time ...
LoadRow(w) ==
    LET r == FirstOf(todo[w]) IN
    /\ Move(w, "loading", "loading")
    /\ todo[w] # {}
    /\ copy' = [copy EXCEPT ![job[w]] = ApplyChange(@, UpsertOf(r))]
    /\ todo' = [todo EXCEPT ![w] = @ \ {r}]
    /\ UNCHANGED <<xfer, updateRest, copySerial, job, wanted, reached, rows, ops, begun>>

\* ... and takes over the serial.
EndLoad(w) ==
    /\ Move(w, "loading", "applied")
    /\ todo[w] = {}
    /\ copySerial' = [copySerial EXCEPT ![job[w]] = reached[w]]
    /\ UNCHANGED <<xfer, updateRest, copy, job, packetVars, begun>>

EndApply(w) == Finish(w, "applied", "idle", "complete") /\ Leave(w)

-----------------------------------------------------------------------------
(***************************************************************************)
(* IXFR and ApplyIXFR.                                                     *)
(***************************************************************************)

\* buildDelta reads the serial: there is nothing to do from the current one.
AskDelta(w, z, from) ==
    /\ Begin(w, z, IF from = serial[z] THEN "cut" ELSE "asking")
    /\ wanted' = [wanted EXCEPT ![w] = from]
    /\ UNCHANGED <<xfer, updateRest, copyVars, reached, rows, todo, ops>>

\* ChangesSince: the changes recorded with a later serial.
ChangesAfter(z, from) ==
    LET later[n \in 0..Len(history[z])] ==
          IF n = 0 THEN << >>
          ELSE IF history[z][n].serial > from THEN Append(later[n - 1], history[z][n].change)
          ELSE later[n - 1]
    IN later[Len(history[z])]

\* ChangesSince has nothing to say of an empty history.
CutHistory(w) ==
    LET z == job[w] IN
    /\ Move(w, "asking", IF history[z] = << >> THEN "failing" ELSE "cut")
    /\ ops' = [ops EXCEPT ![w] = ChangesAfter(z, wanted[w])]
    /\ UNCHANGED <<xfer, updateRest, copyVars, job, wanted, reached, rows, todo, begun>>

\* DeltaRangeFor reads the serial again.
SetRange(w) ==
    /\ Move(w, "cut", "ranged")
    /\ reached' = [reached EXCEPT ![w] = serial[job[w]]]
    /\ UNCHANGED <<xfer, updateRest, copyVars, job, wanted, rows, todo, ops, begun>>

ReturnDelta(w) == Finish(w, "ranged", "delta", "complete") /\ Stay

\* The operations of a delta applied to a store.
AfterOps(st, cs) ==
    LET after[n \in 0..Len(cs)] ==
          IF n = 0 THEN st ELSE ApplyChange(after[n - 1], cs[n])
    IN after[Len(cs)]

\* A bug: a delta is applied wherever it starts.
ApplyDelta_Unchecked(w) ==
    LET z == job[w] IN
    /\ Move(w, "delta", "changed")
    /\ Unlocked(z)
    /\ copy' = [copy EXCEPT ![z] = AfterOps(@, ops[w])]
    /\ copySerial' = [copySerial EXCEPT ![z] = reached[w]]
    /\ UNCHANGED <<xfer, updateRest, job, packetVars, begun>>

\* ApplyDelta of a delta that starts at the serial of the secondary.
ApplyDelta(w) ==
    LET z == job[w] IN
    /\ Move(w, "delta", "changed")
    /\ Unlocked(z)
    /\ wanted[w] = copySerial[z]
    /\ copy' = [copy EXCEPT ![z] = AfterOps(@, ops[w])]
    /\ copySerial' = [copySerial EXCEPT ![z] = reached[w]]
    /\ UNCHANGED <<xfer, updateRest, job, packetVars, begun>>

\* ApplyDelta of any other changes nothing.
RefuseDelta(w) ==
    /\ Move(w, "delta", "failing")
    /\ Unlocked(job[w])
    /\ wanted[w] # copySerial[job[w]]
    /\ UNCHANGED <<xfer, updateRest, copyVars, job, packetVars, begun>>

EndChange(w) == Finish(w, "changed", "idle", "complete") /\ Leave(w)

-----------------------------------------------------------------------------
(***************************************************************************)
(* The process.                                                            *)
(***************************************************************************)

\* The next start gives every zone an empty secondary with the serial of its
\* primary; the workers are gone.
FreshSecondaries ==
    /\ copy' = [z \in Zones |-> EmptyStore]
    /\ copySerial' = [z \in Zones |-> SeedSerial]
    /\ place' = [w \in Workers |-> "idle"]
    /\ job' = [w \in Workers |-> None]
    /\ wanted' = [w \in Workers |-> 0]
    /\ reached' = [w \in Workers |-> 0]
    /\ rows' = [w \in Workers |-> {}]
    /\ todo' = [w \in Workers |-> {}]
    /\ ops' = [w \in Workers |-> << >>]

\* The steps of the update path that do not end the process.  The server waits
\* for the handlers that transfer too.
UpdateStep ==
    /\ \/ \E c \in Clients, r \in Requests : Call(c, r)
       \/ \E c \in Clients : ApplyStep(c)
       \/ Boot
       \/ Shutdown
       \/ CloseJournal /\ (\A w \in Workers : place[w] = "idle" \/ "deadline" \in Faults)
    /\ UNCHANGED <<copyVars, workVars>>

EndProcess == (Crash \/ Exit) /\ FreshSecondaries /\ begun' = begun

WorkerBegins(w, z) ==
    \/ StartTransfer(w, z)
    \/ AskFull(w, z)
    \/ \E from \in FromSerials : AskDelta(w, z, from)

WorkerStep(w) ==
    \/ EndTriggered(w)
    \/ Fail(w)
    \/ TakeSnapshot(w)
    \/ ReturnSnapshot(w)
    \/ BeginLoad(w)
    \/ LoadRow(w)
    \/ EndLoad(w)
    \/ EndApply(w)
    \/ CutHistory(w)
    \/ SetRange(w)
    \/ ReturnDelta(w)
    \/ ApplyDelta(w)
    \/ RefuseDelta(w)
    \/ EndChange(w)

\* Where a worker has begun a full transfer and not yet written to the secondary,
\* and where it makes an incremental one.
FullPlaces == {"numbered", "copied", "have"}

DeltaPlaces == {"asking", "cut", "ranged", "delta", "changed"}

\* What an update under way would be rolled back to, before it is in the history.
Uncommitted(z) ==
    {RowsOf(staged[c].before) : c \in
        {d \in Clients : pc[d] \in {"staged", "journaled", "undo"} /\ ZoneAt(d) = z}}

\* What the primary holds when a worker begins; the history may be one behind.
FirstOffer(w) ==
    {RowsOf(records[job'[w]])} \cup
        IF place'[w] \in FullPlaces THEN {} ELSE Uncommitted(job'[w])

\* Every step adds the content the primary has now to what is on offer.
Offering ==
    offered' = [w \in Workers |->
        IF place'[w] \notin FullPlaces \cup DeltaPlaces THEN {}
        ELSE IF place[w] = "idle" THEN FirstOffer(w)
        ELSE offered[w] \cup {RowsOf(records'[job[w]])}]

SystemInit ==
    /\ Init
    /\ copy = [z \in Zones |-> EmptyStore]
    /\ copySerial = [z \in Zones |-> SeedSerial]
    /\ place = [w \in Workers |-> "idle"]
    /\ job = [w \in Workers |-> None]
    /\ wanted = [w \in Workers |-> 0]
    /\ reached = [w \in Workers |-> 0]
    /\ rows = [w \in Workers |-> {}]
    /\ todo = [w \in Workers |-> {}]
    /\ ops = [w \in Workers |-> << >>]
    /\ offered = [w \in Workers |-> {}]
    /\ begun = 0

SystemNext ==
    /\ \/ UpdateStep
       \/ EndProcess
       \/ \E w \in Workers, z \in Zones : WorkerBegins(w, z)
       \/ \E w \in Workers : WorkerStep(w)
    /\ Offering

SystemSpec == SystemInit /\ [][SystemNext]_systemVars

\* A worker that can run is run, and the lock of a secondary wakes its waiters.
FairSystem ==
    /\ SystemSpec
    /\ \A w \in Workers : SF_systemVars(WorkerStep(w) /\ Offering)
=============================================================================
