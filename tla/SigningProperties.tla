------------------------- MODULE SigningProperties -------------------------
(***************************************************************************)
(* What must be true of a zone's signatures.                               *)
(***************************************************************************)
EXTENDS Signing

\* The type invariant of the signer, the keyring and the goroutines that use
\* them.
TypeOK ==
    /\ records \in Stores
    /\ journal \in Seq(Changes)
    /\ updates \in 0..MaxUpdates
    /\ change \in Changes \cup {None}
    /\ before \in Stores
    /\ signatures \in [Spellings \X ManagedTypes -> Signature \cup {None}]
    /\ keys \in [KeyIds -> KeyTimes \cup {None}]
    /\ active \in KeyIds
    /\ verifying \in SUBSET KeyIds
    /\ now \in Nat
    /\ pc \in [Resigners -> {"idle", "staged", "reading", "signing", "done"}]
    /\ names \in [Reloaders -> SUBSET Names]
    /\ plan \in [Resigners -> [Indices -> Seq(Record)]]
    /\ at \in [Resigners -> 1..(Len(KeyOrder) + 1)]
    /\ held \in [Resigners -> KeyIds \cup {None}]
    /\ clean \in [Reloaders -> BOOLEAN]
    /\ asked \in [Queriers -> RRKeys \cup {None}]
    /\ seen \in [Queriers -> Seq(Record)]
    /\ found \in [Queriers -> Signature \cup {None}]
    /\ result \in [Queriers -> Ended \cup {"looked", "signed"}]
    /\ since \in [Queriers -> 0..Len(journal)]
    /\ calm \in [Queriers -> BOOLEAN]

\* Whenever no update is under way, every RRset of the zone carries a signature
\* the resolver will accept, through updates, rollbacks and rollovers
\* (Signer.OnZoneUpdated, Keyring.Rollover).
SignedAtRest ==
    pc[Updater] = "idle" => \A k \in Present(records) : Covered(k)

\* A query is only refused if its RRset was not covered when it began, if an
\* update, or a reload that one had overlapped, was under way, or if the key has
\* outlived its time: neither a reload nor a rollover, at whatever moment of the
\* query, makes an answer fail (Signer.SignResponse, Keyring.VerifyKeys).
RefusalExplained ==
    \A q \in Queriers : result[q] = "refused" =>
        ~ calm[q] \/ (found[q] # None /\ Aged(found[q].key))

\* A reload that no update overlapped, and no reload that one had overlapped,
\* leaves every RRset covered, whatever state the signatures were in before:
\* after a restart, a failed resigning or a race (control.Service.Reload).
ReloadRepairs ==
    \A r \in Reloaders :
        pc[r] = "done" /\ clean[r] => \A k \in Present(records) : Covered(k)

\* The records of an answer are the zone's at some point of the journal: a
\* change that is staged is not signed, so the resolver cannot answer it before
\* it is on disk, nor when it is rolled back (Resolver.resolveAuthoritative).
AnswersAreDurable ==
    \A q \in Queriers : result[q] = "answered" =>
        \E n \in 0..Len(journal) :
            Payload(seen[q]) = Payload(ReplayUpTo(journal)[n][asked[q]])

\* The records of an answer were on disk at some moment of the very query, and
\* not only before it: a signature that an update has outdated answers nobody
\* who asks after the update is on disk.  A deleted RRset keeps its signature,
\* so one that was missing from the disk at some moment of the query is left
\* out (Signer.SignResponse, Signer.OnZoneUpdated).
AnswersAreCurrent ==
    \A q \in Queriers : result[q] = "answered" =>
        \E n \in since[q]..Len(journal) :
            LET there == ReplayUpTo(journal)[n][asked[q]] IN
            there = << >> \/ Payload(there) = Payload(seen[q])
=============================================================================
