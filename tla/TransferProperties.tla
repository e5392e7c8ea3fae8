------------------------- MODULE TransferProperties -------------------------
(***************************************************************************)
(* What must be true of zone transfers beside the update path.             *)
(***************************************************************************)
EXTENDS Transfer, UpdateProperties

WorkPlaces == {"idle", "triggered", "failing", "numbered", "copied", "have", "loading",
               "applied", "asking", "cut", "ranged", "delta", "changed"}

\* The type invariant of the transfer service and the secondaries; a worker
\* that is not idle has a zone.
TransferTypeOK ==
    /\ copy \in [Zones -> Stores]
    /\ copySerial \in [Zones -> Nat]
    /\ place \in [Workers -> WorkPlaces]
    /\ job \in [Workers -> Zones \cup {None}]
    /\ wanted \in [Workers -> Nat]
    /\ reached \in [Workers -> Nat]
    /\ rows \in [Workers -> SUBSET Row]
    /\ todo \in [Workers -> SUBSET Row]
    /\ ops \in [Workers -> Seq(Change)]
    /\ offered \in [Workers -> SUBSET SUBSET Row]
    /\ begun \in 0..MaxTransfers
    /\ \A w \in Workers : place[w] # "idle" => job[w] \in Zones

\* A snapshot in hand is a whole content the primary has had since its transfer
\* began; a secondary that is being filled holds what has been applied of one
\* snapshot and nothing else, and one worker fills it (snapshot.go).
Carried ==
    \A w \in Workers :
        /\ place[w] \in {"copied", "have"} => rows[w] \in offered[w]
        /\ place[w] = "loading" =>
              /\ todo[w] \subseteq rows[w]
              /\ RowsOf(copy[job[w]]) = rows[w] \ todo[w]
              /\ \A v \in Workers : place[v] = "loading" /\ job[v] = job[w] => v = w

\* Transfers implement ZoneCopy: the copy is replaced when ApplyFull takes the
\* lock of the secondary, and what a reader without that lock may see of the
\* filling is hidden.
Loaders(z) == {w \in Workers : place[w] = "loading" /\ job[w] = z}

Primary == [z \in Zones |-> RowsOf(records[z])]

Shown ==
    [z \in Zones |->
        IF Loaders(z) = {} THEN RowsOf(copy[z]) ELSE UNION {rows[w] : w \in Loaders(z)}]

Aim == [w \in Workers |-> IF place[w] \in FullPlaces THEN job[w] ELSE None]

Window == [w \in Workers |-> IF place[w] \in FullPlaces THEN offered[w] ELSE {}]

Copied == INSTANCE ZoneCopy WITH
    Contents <- SUBSET Row,
    Nothing  <- {},
    content  <- Primary,
    copy     <- Shown,
    target   <- Aim,
    window   <- Window

ImplementsZoneCopy == Copied!Spec

\* A transfer that is said to be in progress is: whoever claimed the state has
\* not finished, though notifications and transfers all write it (transfer.go).
InProgressIsOwned ==
    \A z \in Zones : xfer[z] = "in-progress" =>
        \E w \in Workers : place[w] = "triggered" /\ job[w] = z

\* A delta names durable changes only: each was written to the journal before a
\* secondary could be sent it, though the text there may be what JSON makes of
\* it; of a snapshot that cannot be said (zone.go, ChangesSince).
DeltaIsDurable ==
    Durable => \A w \in Workers : \A i \in 1..Len(ops[w]) :
        \E n \in 1..Len(lines) :
            /\ lines[n] # Torn
            /\ lines[n].zone = job[w]
            /\ Read(lines[n]).change = Decoded(ops[w][i])

\* When no update is under way, a secondary that is not being filled is empty or
\* holds what the lines of the journal had made of its primary after some line,
\* those since the start in the texts they were asked in, as long as every append
\* that is asked for is answered with a line: full transfers read staged changes
\* too, and one that is rolled back stays on the secondary (zone.go, StageChange;
\* snapshot.go, Snapshot).
SecondaryIsJournaled ==
    Quiet => \A z \in Zones : Loaders(z) # {} \/ RowsOf(copy[z]) = {}
        \/ \E n \in 0..Len(lines) : RowsOf(copy[z]) = RowsOf(ReplayUpTo(z, AsTaken, {})[n])

\* A claimed transfer state is given back, and no worker is stuck, unless the
\* process stops first.
TransfersEnd ==
    /\ \A z \in Zones : xfer[z] = "in-progress" ~> xfer[z] # "in-progress"
    /\ \A w \in Workers : place[w] # "idle" ~> place[w] = "idle"

-----------------------------------------------------------------------------
(***************************************************************************)
(* What documents and tests claim and the code does not do.                *)
(***************************************************************************)

\* An incremental transfer that succeeded leaves a secondary that has been
\* filled with a content its primary has committed since the transfer began
\* (main.go, runDemo: a record updated before is on the secondary after it).
IncrementCatchesUp ==
    \A w \in Workers : place[w] = "changed" /\ RowsOf(copy[job[w]]) # {} =>
        RowsOf(copy[job[w]]) \in offered[w]

\* Two transfers of one zone are never in progress at once (transfer.go,
\* StartTransfer).
OneTransfer ==
    \A v, w \in Workers :
        place[v] = "triggered" /\ place[w] = "triggered" /\ job[v] = job[w] => v = w
=============================================================================
