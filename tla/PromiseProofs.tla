--------------------------- MODULE PromiseProofs ---------------------------
(***************************************************************************)
(* Proofs of what the update path promises those outside it: its callers,  *)
(* the secondaries it notifies, and DurableZones.                          *)
(***************************************************************************)
EXTENDS UpdateProofs

-----------------------------------------------------------------------------
(***************************************************************************)
(* Calls and their answers, whatever fails.                                *)
(***************************************************************************)

\* Each call under way waits for its own answer, and nobody else waits.
CallsOpen ==
    /\ \A c \in Clients : pc[c] # "idle" => outcome[call[c]] = "pending"
    /\ \A c, d \in Clients :
          pc[c] # "idle" /\ pc[d] # "idle" /\ call[c] = call[d] => c = d
    /\ \A id \in Ids : request[id] = None => outcome[id] = "none"
    /\ \A id \in Ids : outcome[id] = "pending" =>
          \E c \in Clients : pc[c] # "idle" /\ call[c] = id

\* An update is announced by a call that can only succeed from there on.
Announced ==
    \A i \in 1..Len(events) :
        \/ outcome[events[i].id] \in {"ok", "notify-failed"}
        \/ \E c \in Clients : pc[c] = "committed" /\ call[c] = events[i].id

\* A call moves on inside Apply.
Moves(c) ==
    \E to \in Places \ {"idle"} :
        /\ pc[c] # "idle"
        /\ pc' = [pc EXCEPT ![c] = to]
        /\ UNCHANGED <<call, callVars>>

\* A call returns with an answer.
Returns(c, answer) ==
    /\ pc[c] # "idle"
    /\ pc' = [pc EXCEPT ![c] = "idle"]
    /\ call' = [call EXCEPT ![c] = 0]
    /\ outcome' = [outcome EXCEPT ![call[c]] = answer]
    /\ UNCHANGED request

\* The process is gone and its callers with it.
AllLost ==
    /\ \A c \in Clients : pc'[c] = "idle"
    /\ events' = << >>
    /\ LoseCallers
    /\ UNCHANGED request

\* What a step does to the calls is one of these.
LEMMA ApplyStepKinds ==
    ASSUME NEW c \in Clients, ApplyStep(c)
    PROVE  \/ Moves(c)
           \/ Reject(c) /\ Returns(c, "rejected")
           \/ Rollback(c) /\ Returns(c, "failed")
           \/ NotifyAndReturn(c) /\ \E answer \in {"ok", "notify-failed"} : Returns(c, answer)
<1> USE DEF callVars, Places, Step
<1>1. CASE Reject(c) \/ Rollback(c) \/ NotifyAndReturn(c)
  BY <1>1 DEF Reject, Rollback, NotifyAndReturn, Return, Returns
<1>2. CASE Stage(c) \/ AppendJournal(c) \/ CommitZone(c) \/ Resigned(c) \/ ResignFailed(c)
               \/ NotifyInCommit(c)
  BY <1>2 DEF Stage, AppendJournal, AppendWritten, AppendWithoutFile, AppendRefused,
              AppendUnsynced, AppendTorn, CommitZone, Resigned, ResignFailed,
              NotifyInCommit, Moves
<1> QED BY <1>1, <1>2 DEF ApplyStep

LEMMA ProcessKinds ==
    ASSUME Boot \/ Stop
    PROVE  \/ UNCHANGED <<pc, call, callVars, events>>
           \/ AllLost
BY DEF Boot, Start, ReplayEntry, ReplayFails, Serve, Stop, Crash, Shutdown,
       CloseJournal, Exit, FreshMemory, AllLost, callVars, senderVars

\* A call that moves goes on waiting.
LEMMA OpenMoves ==
    ASSUME TypeInv, CallsOpen, NEW c \in Clients, Moves(c)
    PROVE  CallsOpen'
<1>1. PICK to \in Places \ {"idle"} :
        pc[c] # "idle" /\ pc' = [pc EXCEPT ![c] = to]
  BY DEF Moves
<1>2. \A d \in Clients : pc'[d] # "idle" <=> pc[d] # "idle"
  BY <1>1 DEF TypeInv, TypeOK
<1>3. UNCHANGED <<call, request, outcome>>
  BY DEF Moves, callVars
<1> QED BY <1>2, <1>3 DEF CallsOpen

\* A call that returns no longer waits.
LEMMA OpenReturns ==
    ASSUME TypeInv, CallsOpen, NEW c \in Clients,
           NEW answer \in Outcomes \ {"pending"}, Returns(c, answer)
    PROVE  CallsOpen'
<1>1. /\ call[c] \in Ids /\ request[call[c]] # None /\ pc[c] # "idle"
      /\ outcome[call[c]] = "pending"
  BY UpdateAssumption DEF Returns, TypeInv, Control, Asked, CallsOpen
<1>2. /\ pc'[c] = "idle"
      /\ \A d \in Clients : d # c => pc'[d] = pc[d] /\ call'[d] = call[d]
  BY DEF Returns, TypeInv, TypeOK
<1>3. /\ outcome'[call[c]] # "pending"
      /\ \A id \in Ids : id # call[c] => outcome'[id] = outcome[id]
      /\ UNCHANGED request
  BY <1>1 DEF Returns, TypeInv, TypeOK
<1>4. ASSUME NEW d \in Clients, pc'[d] # "idle"
      PROVE  d # c /\ pc[d] # "idle" /\ call'[d] = call[d] /\ call[d] \in Ids
             /\ call[d] # call[c]
  BY <1>1, <1>2, <1>4 DEF CallsOpen, TypeInv, Control
<1>5. \A d \in Clients : pc'[d] # "idle" => outcome'[call'[d]] = "pending"
  BY <1>3, <1>4 DEF CallsOpen
<1>6. \A d, b \in Clients :
        pc'[d] # "idle" /\ pc'[b] # "idle" /\ call'[d] = call'[b] => d = b
  BY <1>4 DEF CallsOpen
<1>7. \A id \in Ids : request'[id] = None => outcome'[id] = "none"
  BY <1>1, <1>3 DEF CallsOpen
<1>8. ASSUME NEW id \in Ids, outcome'[id] = "pending"
      PROVE  \E d \in Clients : pc'[d] # "idle" /\ call'[d] = id
  <2>1. id # call[c] /\ outcome[id] = "pending"
    BY <1>3, <1>8
  <2>2. PICK d \in Clients : pc[d] # "idle" /\ call[d] = id
    BY <2>1 DEF CallsOpen
  <2> QED BY <2>1, <2>2, <1>2
<1> QED BY <1>5, <1>6, <1>7, <1>8 DEF CallsOpen

\* A new call is the only one that waits for its answer.
LEMMA OpenCall ==
    ASSUME TypeInv, CallsOpen, NEW c \in Clients, NEW r \in Requests, Call(c, r)
    PROVE  CallsOpen'
<1>1. PICK id \in Ids :
        /\ request[id] = None
        /\ request' = [request EXCEPT ![id] = r]
        /\ outcome' = [outcome EXCEPT ![id] = "pending"]
        /\ call' = [call EXCEPT ![c] = id]
  BY DEF Call
<1>2. pc[c] = "idle" /\ pc' = [pc EXCEPT ![c] = "entered"]
  BY DEF Call, Step
<1>3. /\ pc'[c] = "entered" /\ call'[c] = id
      /\ \A d \in Clients : d # c => pc'[d] = pc[d] /\ call'[d] = call[d]
  BY <1>1, <1>2 DEF TypeInv, TypeOK
<1>4. /\ outcome'[id] = "pending" /\ request'[id] = r /\ r # None
      /\ \A i \in Ids : i # id => outcome'[i] = outcome[i] /\ request'[i] = request[i]
  BY <1>1, UpdateAssumption DEF TypeInv, TypeOK
<1>5. \A d \in Clients : pc[d] # "idle" => call[d] \in Ids /\ call[d] # id
  BY <1>1, UpdateAssumption DEF TypeInv, Control, Asked
<1>6. \A d \in Clients : pc'[d] # "idle" => outcome'[call'[d]] = "pending"
  BY <1>3, <1>4, <1>5 DEF CallsOpen
<1>7. \A d, b \in Clients :
        pc'[d] # "idle" /\ pc'[b] # "idle" /\ call'[d] = call'[b] => d = b
  BY <1>3, <1>5 DEF CallsOpen
<1>8. \A i \in Ids : request'[i] = None => outcome'[i] = "none"
  BY <1>4 DEF CallsOpen
<1>9. ASSUME NEW i \in Ids, outcome'[i] = "pending"
      PROVE  \E d \in Clients : pc'[d] # "idle" /\ call'[d] = i
  <2>1. CASE i = id
    BY <1>3, <2>1
  <2>2. CASE i # id
    <3>1. PICK d \in Clients : pc[d] # "idle" /\ call[d] = i
      BY <1>4, <1>9, <2>2 DEF CallsOpen
    <3> QED BY <1>2, <1>3, <3>1
  <2> QED BY <2>1, <2>2
<1> QED BY <1>6, <1>7, <1>8, <1>9 DEF CallsOpen

\* A process that is gone has no callers.
LEMMA OpenLost ==
    ASSUME TypeInv, CallsOpen, AllLost
    PROVE  CallsOpen'
BY DEF AllLost, LoseCallers, CallsOpen, TypeInv, TypeOK

LEMMA OpenInit == Init => CallsOpen
BY DEF Init, CallsOpen

\* Every step keeps calls and answers paired.
LEMMA OpenStep == TypeInv /\ CallsOpen /\ [Next]_vars => CallsOpen'
<1> SUFFICES ASSUME TypeInv, CallsOpen, [Next]_vars PROVE CallsOpen'
  OBVIOUS
<1>1. CASE UNCHANGED <<pc, call, callVars>>
  BY <1>1 DEF callVars, CallsOpen
<1>2. CASE \E c \in Clients : ApplyStep(c)
  <2>1. PICK c \in Clients : ApplyStep(c)
    BY <1>2
  <2>2. {"rejected", "failed", "ok", "notify-failed"} \subseteq Outcomes \ {"pending"}
    BY DEF Outcomes
  <2>3. Moves(c) \/ \E answer \in Outcomes \ {"pending"} : Returns(c, answer)
    BY <2>1, <2>2, ApplyStepKinds
  <2> QED BY <2>3, OpenMoves, OpenReturns
<1>3. CASE UNCHANGED vars
  BY <1>1, <1>3 DEF vars
<1> QED BY <1>1, <1>2, <1>3, OpenCall, OpenLost, ProcessKinds DEF Next

\* Every event is about some update.
LEMMA EventIds ==
    ASSUME TypeInv
    PROVE  \A i \in 1..Len(events) : events[i].id \in Ids
<1>1. events \in Seq(Event)
  BY DEF TypeInv, TypeOK
<1>2. \A i \in 1..Len(events) : events[i] \in Event
  BY <1>1, ElementOfSeq
<1> QED BY <1>2 DEF Event

\* No event is announced but of an open call on its way to success.
LEMMA AnnouncedMoves ==
    ASSUME TypeInv, CallsOpen, Announced, NEW c \in Clients, ApplyStep(c), Moves(c)
    PROVE  Announced'
<1>1. PICK to \in Places \ {"idle"} :
        pc[c] # "idle" /\ pc' = [pc EXCEPT ![c] = to] /\ UNCHANGED <<call, callVars>>
  BY DEF Moves
<1>2. pc[c] # "committed"
  BY <1>1 DEF ApplyStep, Reject, Stage, AppendJournal, AppendWritten,
     AppendWithoutFile, AppendRefused, AppendUnsynced, AppendTorn, Rollback, CommitZone,
     Resigned, ResignFailed, NotifyInCommit, NotifyAndReturn, Return, Step, TypeInv, TypeOK
<1>3. \A d \in Clients : pc[d] = "committed" => pc'[d] = "committed"
  BY <1>1, <1>2 DEF TypeInv, TypeOK
<1>4. CASE UNCHANGED events
  BY <1>1, <1>3, <1>4 DEF callVars, Announced
<1>5. CASE NotifyInCommit(c)
  <2>1. PICK sent \in BOOLEAN : Notify(c, sent)
    BY <1>5 DEF NotifyInCommit, NotifyOutcomes
  <2>2. pc'[c] = "committed"
    BY <1>5 DEF NotifyInCommit, Step, TypeInv, TypeOK
  <2>3. ASSUME NEW i \in 1..Len(events')
        PROVE  \/ i \in 1..Len(events) /\ events'[i] = events[i]
               \/ events'[i].id = call[c]
    BY <2>1 DEF Notify, TypeInv, TypeOK
  <2> QED BY <1>1, <1>3, <2>2, <2>3 DEF callVars, Announced
<1>6. UNCHANGED events \/ NotifyInCommit(c)
  BY <1>1 DEF ApplyStep, Reject, Stage, AppendJournal, AppendWritten,
     AppendWithoutFile, AppendRefused, AppendUnsynced, AppendTorn, Rollback, CommitZone,
     Resigned, ResignFailed, NotifyAndReturn, Return, Step, senderVars, TypeInv, TypeOK
<1> QED BY <1>4, <1>5, <1>6

\* A call that fails has announced nothing; one that succeeds may announce.
LEMMA AnnouncedReturns ==
    ASSUME TypeInv, CallsOpen, Announced, NEW c \in Clients, NEW answer,
           Returns(c, answer),
           \/ pc[c] # "committed" /\ UNCHANGED events
           \/ NotifyAndReturn(c) /\ answer \in {"ok", "notify-failed"}
    PROVE  Announced'
<1>1. /\ call[c] \in Ids /\ pc[c] # "idle" /\ outcome[call[c]] = "pending"
      /\ \A d \in Clients : d # c => pc'[d] = pc[d] /\ call'[d] = call[d]
      /\ \A id \in Ids : id # call[c] => outcome'[id] = outcome[id]
      /\ outcome'[call[c]] = answer
  BY DEF Returns, TypeInv, TypeOK, Control, CallsOpen
<1>2. \A i \in 1..Len(events) : events[i].id \in Ids
  BY EventIds
<1>3. ASSUME NEW i \in 1..Len(events),
             pc[c] # "committed" \/ answer \in {"ok", "notify-failed"}
      PROVE  \/ outcome'[events[i].id] \in {"ok", "notify-failed"}
             \/ \E d \in Clients : pc'[d] = "committed" /\ call'[d] = events[i].id
  <2>1. CASE events[i].id = call[c]
    <3>1. outcome[events[i].id] \notin {"ok", "notify-failed"}
      BY <1>1, <2>1
    <3>2. PICK d \in Clients : pc[d] = "committed" /\ call[d] = call[c]
      BY <2>1, <3>1 DEF Announced
    <3>3. d = c
      BY <1>1, <3>2 DEF CallsOpen
    <3> QED BY <1>1, <1>3, <2>1, <3>2, <3>3
  <2>2. CASE events[i].id # call[c]
    <3>1. outcome'[events[i].id] = outcome[events[i].id]
      BY <1>1, <1>2, <2>2
    <3>2. \A d \in Clients : call[d] = events[i].id => pc'[d] = pc[d] /\ call'[d] = call[d]
      BY <1>1, <2>2
    <3> QED BY <3>1, <3>2 DEF Announced
  <2> QED BY <2>1, <2>2
<1>4. CASE pc[c] # "committed" /\ UNCHANGED events
  BY <1>3, <1>4 DEF Announced
<1>5. CASE NotifyAndReturn(c) /\ answer \in {"ok", "notify-failed"}
  <2>1. PICK sent \in BOOLEAN : Notify(c, sent)
    BY <1>5 DEF NotifyAndReturn, NotifyOutcomes
  <2>2. ASSUME NEW i \in 1..Len(events')
        PROVE  \/ i \in 1..Len(events) /\ events'[i] = events[i]
               \/ events'[i].id = call[c]
    BY <2>1 DEF Notify, TypeInv, TypeOK
  <2> QED BY <1>1, <1>3, <1>5, <2>2 DEF Announced
<1> QED BY <1>4, <1>5

\* A new call has announced nothing and disturbs no call that has.
LEMMA AnnouncedCall ==
    ASSUME TypeInv, CallsOpen, Announced, NEW c \in Clients, NEW r \in Requests, Call(c, r)
    PROVE  Announced'
<1>1. PICK id \in Ids :
        /\ request[id] = None
        /\ outcome' = [outcome EXCEPT ![id] = "pending"]
        /\ call' = [call EXCEPT ![c] = id]
  BY DEF Call
<1>2. /\ pc[c] = "idle" /\ pc' = [pc EXCEPT ![c] = "entered"]
      /\ UNCHANGED events
  BY DEF Call, Step, senderVars
<1>3. outcome[id] = "none"
  BY <1>1 DEF CallsOpen
<1>4. \A i \in 1..Len(events) : events[i].id \in Ids
  BY EventIds
<1>5. \A i \in Ids : outcome[i] \in {"ok", "notify-failed"} => outcome'[i] = outcome[i]
  BY <1>1, <1>3 DEF TypeInv, TypeOK
<1>6. \A d \in Clients : pc[d] = "committed" => pc'[d] = "committed" /\ call'[d] = call[d]
  BY <1>1, <1>2 DEF TypeInv, TypeOK
<1> QED BY <1>2, <1>4, <1>5, <1>6 DEF Announced

LEMMA AnnouncedInit == Init => Announced
BY DEF Init, Announced

\* Every step announces on behalf of a call that will succeed.
LEMMA AnnouncedStep == TypeInv /\ CallsOpen /\ Announced /\ [Next]_vars => Announced'
<1> SUFFICES ASSUME TypeInv, CallsOpen, Announced, [Next]_vars PROVE Announced'
  OBVIOUS
<1>1. CASE UNCHANGED <<pc, call, callVars, events>>
  BY <1>1 DEF callVars, Announced
<1>2. ASSUME NEW c \in Clients, ApplyStep(c) PROVE Announced'
  <2>1. CASE Moves(c)
    BY <1>2, <2>1, AnnouncedMoves
  <2>2. CASE Reject(c) /\ Returns(c, "rejected")
    <3>1. pc[c] # "committed" /\ UNCHANGED events
      BY <2>2 DEF Reject, senderVars
    <3> QED BY <2>2, <3>1, AnnouncedReturns
  <2>3. CASE Rollback(c) /\ Returns(c, "failed")
    <3>1. pc[c] # "committed" /\ UNCHANGED events
      BY <2>3 DEF Rollback, Return, Step, senderVars
    <3> QED BY <2>3, <3>1, AnnouncedReturns
  <2>4. CASE NotifyAndReturn(c) /\ \E answer \in {"ok", "notify-failed"} : Returns(c, answer)
    BY <2>4, AnnouncedReturns
  <2> QED BY <1>2, <2>1, <2>2, <2>3, <2>4, ApplyStepKinds
<1>3. CASE AllLost
  BY <1>3 DEF AllLost, Announced
<1>4. CASE UNCHANGED vars
  BY <1>1, <1>4 DEF vars, senderVars
<1> QED BY <1>1, <1>2, <1>3, <1>4, AnnouncedCall, ProcessKinds DEF Next

LEMMA AnnouncedAnswered == CallsOpen /\ Announced => AnnouncedNotFailed
BY DEF CallsOpen, Announced, AnnouncedNotFailed

\* Whatever fails and whenever, the secondaries are never told of an update
\* whose caller is told that it failed: nothing can fail once Commit notifies.
THEOREM AnnouncedSucceeds == Spec => []AnnouncedNotFailed
<1>1. CallsOpen /\ Announced => AnnouncedNotFailed
  BY AnnouncedAnswered
<1>2. Init => TypeInv /\ CallsOpen /\ Announced
  BY InitType, OpenInit, AnnouncedInit
<1>3. TypeInv /\ CallsOpen /\ Announced /\ [Next]_vars => TypeInv' /\ CallsOpen' /\ Announced'
  BY StepType, OpenStep, AnnouncedStep
<1> QED BY <1>1, <1>2, <1>3, PTL DEF Spec

-----------------------------------------------------------------------------
(***************************************************************************)
(* Orderly stops.                                                          *)
(***************************************************************************)

\* No crash, and handlers that are done within the deadline of a shutdown.
Orderly == Faults \cap {"crash", "deadline"} = {}

\* When the journal is closed no call is left, and none was lost before.
NobodyLost ==
    /\ mode = "closed" => \A c \in Clients : pc[c] = "idle"
    /\ ShutdownAnswersCallers

LEMMA NobodyLostStep ==
    Orderly => (TypeInv /\ CallsOpen /\ NobodyLost /\ [Next]_vars => NobodyLost')
<1> SUFFICES ASSUME Orderly, TypeInv, CallsOpen, NobodyLost, [Next]_vars PROVE NobodyLost'
  OBVIOUS
<1> USE DEF processVars, callVars
<1>1. CASE UNCHANGED vars
  BY <1>1 DEF vars, NobodyLost, ShutdownAnswersCallers
<1>2. ASSUME NEW c \in Clients, NEW r \in Requests, Call(c, r) PROVE NobodyLost'
  BY <1>2 DEF Call, NobodyLost, ShutdownAnswersCallers, TypeInv, TypeOK
<1>3. ASSUME NEW c \in Clients, ApplyStep(c) PROVE NobodyLost'
  <2>1. mode' = mode
    BY <1>3 DEF ApplyStep, Reject, Stage, AppendJournal, AppendWritten,
       AppendWithoutFile, AppendRefused, AppendUnsynced, AppendTorn, Rollback, CommitZone,
       Resigned, ResignFailed, NotifyInCommit, NotifyAndReturn
  <2>2. PICK d \in Clients : d = c /\ pc[d] # "idle"
    BY <1>3, ApplyStepKinds DEF Moves, Returns
  <2>3. mode # "closed"
    BY <2>2 DEF NobodyLost
  <2>4. ShutdownAnswersCallers'
    BY <1>3, ApplyStepKinds DEF Moves, Returns, NobodyLost, ShutdownAnswersCallers,
       TypeInv, TypeOK
  <2> QED BY <2>1, <2>3, <2>4 DEF NobodyLost
<1>4. CASE Boot
  BY <1>4 DEF Boot, Start, ReplayEntry, ReplayFails, Serve, NobodyLost,
     ShutdownAnswersCallers, TypeInv, Control
<1>5. CASE Shutdown
  BY <1>5 DEF Shutdown, NobodyLost, ShutdownAnswersCallers
<1>6. CASE CloseJournal
  BY <1>6 DEF CloseJournal, Drained, Orderly, NobodyLost, ShutdownAnswersCallers
<1>7. CASE Exit
  <2>1. \A id \in Ids : outcome[id] # "pending"
    BY <1>7 DEF Exit, NobodyLost, CallsOpen
  <2> QED BY <1>7, <2>1 DEF Exit, LoseCallers, NobodyLost, ShutdownAnswersCallers
<1>8. ~ Crash
  BY DEF Crash, Orderly
<1> QED BY <1>1, <1>2, <1>3, <1>4, <1>5, <1>6, <1>7, <1>8 DEF Next, Stop

\* An orderly stop answers every call it let in, however many there are and
\* wherever the signal finds them.
THEOREM OrderlyStopAnswers == Orderly => (Spec => []ShutdownAnswersCallers)
<1> SUFFICES ASSUME Orderly PROVE Spec => []ShutdownAnswersCallers
  OBVIOUS
<1>1. Init => TypeInv /\ CallsOpen /\ NobodyLost
  <2>1. Init => NobodyLost
    BY DEF Init, NobodyLost, ShutdownAnswersCallers
  <2> QED BY <2>1, InitType, OpenInit
<1>2. TypeInv /\ CallsOpen /\ NobodyLost /\ [Next]_vars => TypeInv' /\ CallsOpen' /\ NobodyLost'
  BY StepType, OpenStep, NobodyLostStep
<1>3. NobodyLost => ShutdownAnswersCallers
  BY DEF NobodyLost
<1> QED BY <1>1, <1>2, <1>3, PTL DEF Spec

-----------------------------------------------------------------------------
(***************************************************************************)
(* Nothing is announced before it is in the journal.                       *)
(***************************************************************************)

\* A line that is written stays.
LEMMA JournaledStays ==
    ASSUME Whole, FiledInv, [Next]_vars, NEW id, Journaled(id)
    PROVE  Journaled(id)'
<1>1. CASE UNCHANGED journalVars
  BY <1>1 DEF Journaled, journalVars
<1>2. CASE \E c \in Clients : pc[c] = "staged" /\ WholeLine(EntryOf(c))
  BY <1>2, FiledWrite
<1> QED BY <1>1, <1>2, WholeLinesOnly DEF Whole

EventsJournaled == \A i \in 1..Len(events) : Journaled(events[i].id)

\* The events grow by one of a journaled update, or are lost with the process.
LEMMA EventsStep ==
    ASSUME [Next]_vars
    PROVE  \/ UNCHANGED events
           \/ events' = << >>
           \/ \E c \in Clients, sent \in BOOLEAN :
                 Notify(c, sent) /\ pc[c] \in {"committing", "committed"}
<1> USE DEF senderVars
<1>1. CASE UNCHANGED vars
  BY <1>1 DEF vars
<1>2. CASE \E c \in Clients, r \in Requests : Call(c, r)
  BY <1>2 DEF Call
<1>3. ASSUME NEW c \in Clients, ApplyStep(c)
      PROVE  \/ UNCHANGED events
             \/ \E sent \in BOOLEAN :
                   Notify(c, sent) /\ pc[c] \in {"committing", "committed"}
  BY <1>3 DEF ApplyStep, Reject, Stage, AppendJournal, AppendWritten,
     AppendWithoutFile, AppendRefused, AppendUnsynced, AppendTorn, Rollback, CommitZone,
     Resigned, ResignFailed, NotifyInCommit, NotifyAndReturn, NotifyOutcomes, Return, Step
<1>4. CASE Boot \/ Stop
  BY <1>4, ProcessKinds DEF AllLost
<1> QED BY <1>1, <1>2, <1>3, <1>4 DEF Next

LEMMA EventsJournaledStep ==
    Whole => (FiledInv /\ EventsJournaled /\ [Next]_vars => EventsJournaled')
<1> SUFFICES ASSUME Whole, FiledInv, EventsJournaled, [Next]_vars
             PROVE  EventsJournaled'
  OBVIOUS
<1>1. \A id : Journaled(id) => Journaled(id)'
  BY JournaledStays
<1>2. ASSUME NEW i \in 1..Len(events'), NEW id, id = events'[i].id
      PROVE  Journaled(id)'
  <2>1. CASE UNCHANGED events
    BY <1>1, <1>2, <2>1 DEF EventsJournaled
  <2>2. CASE events' = << >>
    BY <2>2
  <2>3. CASE \E c \in Clients, sent \in BOOLEAN :
                Notify(c, sent) /\ pc[c] \in {"committing", "committed"}
    <3>1. PICK c \in Clients, sent \in BOOLEAN :
            Notify(c, sent) /\ pc[c] \in {"committing", "committed"}
      BY <2>3
    <3>2. Journaled(call[c])
      BY <3>1 DEF FiledInv, Filed, After
    <3>3. \/ i \in 1..Len(events) /\ events'[i] = events[i]
          \/ events'[i].id = call[c]
      BY <3>1 DEF Notify, FiledInv, TypeInv, TypeOK
    <3>4. Journaled(id)
      BY <1>2, <3>2, <3>3 DEF EventsJournaled
    <3> QED BY <1>1, <3>4
  <2> QED BY <2>1, <2>2, <2>3, EventsStep
<1>3. ASSUME NEW i \in 1..Len(events') PROVE Journaled(events[i].id)'
  <2>1. PICK id : id = events'[i].id
    OBVIOUS
  <2>2. Journaled(id)'
    BY <1>2, <2>1
  <2> QED BY <2>1, <2>2 DEF Journaled
<1> QED BY <1>3 DEF EventsJournaled

\* When writes are whole and no handler outlives the file, the secondaries hear
\* of an update only when it is in the file, so a crash cannot take back what they
\* were told, whatever syncs and hooks fail.
THEOREM AnnouncedIsDurable == Whole => (Spec => []NotifyAfterPersist)
<1> SUFFICES ASSUME Whole PROVE Spec => []NotifyAfterPersist
  OBVIOUS
<1>1. CASE Durable
  <2>1. EventsJournaled => NotifyAfterPersist
    BY DEF EventsJournaled, NotifyAfterPersist
  <2>2. Init => FiledInv /\ EventsJournaled
    <3>1. Init => EventsJournaled
      BY DEF Init, EventsJournaled
    <3> QED BY <3>1, FiledInit
  <2>3. FiledInv /\ EventsJournaled /\ [Next]_vars => FiledInv' /\ EventsJournaled'
    BY <1>1, FiledStep, EventsJournaledStep
  <2> QED BY <2>1, <2>2, <2>3, PTL DEF Spec
<1>2. CASE ~ Durable
  <2>1. NotifyAfterPersist
    BY <1>2 DEF NotifyAfterPersist
  <2> QED BY <2>1, PTL
<1> QED BY <1>1, <1>2

-----------------------------------------------------------------------------
(***************************************************************************)
(* The update path implements DurableZones.                                *)
(***************************************************************************)

DurableInv == TypeInv /\ Synced /\ Traced /\ CallsOpen

\* With a dependable journal the file changes only by the whole line of an
\* update that has none.
LEMMA LinesStep ==
    ASSUME Dependable, DurableInv, [Next]_vars
    PROVE  \/ UNCHANGED lines
           \/ \E c \in Clients : /\ AppendWritten(c) \/ Crash
                                 /\ pc[c] = "staged" /\ WholeLine(EntryOf(c))
<1> USE DEF journalVars
<1>1. CASE \E c \in Clients : AppendJournal(c)
  BY <1>1 DEF AppendJournal, AppendWritten, AppendWithoutFile, AppendRefused,
     AppendUnsynced, AppendTorn, Step, Dependable
<1>2. CASE Crash
  BY <1>2 DEF Crash, CrashLeaves, Dependable
<1>3. CASE UNCHANGED vars
  BY <1>3 DEF vars
<1>4. CASE \E c \in Clients, r \in Requests : Call(c, r)
  BY <1>4 DEF Call
<1>5. CASE \E c \in Clients : ApplyStep(c) /\ ~ AppendJournal(c)
  BY <1>5 DEF ApplyStep, Reject, Stage, Rollback, CommitZone, Resigned, ResignFailed,
     NotifyInCommit, NotifyAndReturn
<1>6. CASE Boot \/ Shutdown \/ CloseJournal \/ Exit
  BY <1>6 DEF Boot, Start, ReplayEntry, ReplayFails, Serve, Shutdown, CloseJournal, Exit
<1> QED BY <1>1, <1>2, <1>3, <1>4, <1>5, <1>6 DEF Next, Stop

LEMMA DurableInit == Init => DurableInv
BY InitType, SyncedInit, TracedInit, OpenInit DEF DurableInv

LEMMA DurableStep == Dependable => (DurableInv /\ [Next]_vars => DurableInv')
BY StepType, SyncedStep, TracedStep, OpenStep DEF DurableInv

\* With a dependable journal memory and file are in step in every state, in the
\* middle of updates and replays too.
THEOREM JournalInStep == Dependable => (Spec => []Synced)
<1> SUFFICES ASSUME Dependable PROVE Spec => []Synced
  OBVIOUS
<1>1. DurableInv => Synced
  BY DEF DurableInv
<1> QED BY <1>1, DurableInit, DurableStep, PTL DEF Spec

\* With a dependable journal every line is one of a call that got so far, and no
\* call has two.
THEOREM LinesTraced == Dependable => (Spec => []Traced)
<1> SUFFICES ASSUME Dependable PROVE Spec => []Traced
  OBVIOUS
<1>1. DurableInv => Traced
  BY DEF DurableInv
<1> QED BY <1>1, DurableInit, DurableStep, PTL DEF Spec

Content == [z \in Zones |-> Durably(z)]

Effective == {id \in Ids : Journaled(id)}

LEMMA PromiseInit == Init => Promise!Init
<1> SUFFICES ASSUME Init PROVE Promise!Init
  OBVIOUS
<1>1. lines = << >> /\ lines \in Logs /\ Len(lines) = 0
  BY DEF Init, Logs
<1>5. OnDisk \in Logs /\ Len(OnDisk) = 0
  BY <1>1, AsReadType DEF OnDisk
<1>2. ASSUME NEW z \in Zones PROVE Durably(z) = Seeds[z]
  <2>1. ReplayUpTo(z, OnDisk, {})[0] = Seeds[z]
    BY <1>5, ReplaySolves DEF ReplayStep
  <2> QED BY <1>5, <2>1 DEF Durably, ReplayOf
<1>3. Content = Seeds
  BY <1>2, UpdateAssumption DEF Content
<1>4. Effective = {}
  BY <1>1 DEF Effective, Journaled
<1> QED BY <1>3, <1>4 DEF Init, Promise!Init, Promise!Ids, Ids, Content, Effective

\* DurableZones changes a store as the update path does.
LEMMA SameStore ==
    ASSUME NEW st, NEW ch
    PROVE  Promise!ApplyChange(st, ch) = ApplyChange(st, ch)
BY DEF ApplyChange, Promise!ApplyChange, KeyOf, Promise!KeyOf, RecordOf, Promise!RecordOf,
       ChangedList, Promise!ChangedList, Kept, Promise!Kept, KeptUpTo, Promise!KeptUpTo

\* The line of an update is the instant at which it takes effect, as JSON has it.
LEMMA LineTakesEffect ==
    ASSUME DurableInv, NEW c \in Clients, pc[c] = "staged", WholeLine(EntryOf(c)),
           NEW id, id = call[c]
    PROVE  id \in Ids /\ Promise!Applied(id)
<1> DEFINE e == EntryOf(c)
<1>1. /\ e \in Entry /\ e # Torn /\ ZoneAt(c) \in Zones
      /\ e.zone = request[id].zone /\ e.change = request[id].change
      /\ ZoneAt(c) = request[id].zone
  BY EntryType, UpdateAssumption DEF EntryOf, ZoneAt, Asked, DurableInv, Inside, Places
<1>2. lines \in Logs /\ lines' = Append(lines, e)
  BY DEF WholeLine, DurableInv, Synced, TypeInv, TypeOK, Logs
<1>7. OnDisk \in Logs /\ OnDisk' = Append(OnDisk, Read(e))
  <2>1. Len(lines') = Len(lines) + 1
    BY <1>2 DEF Logs
  <2> HIDE DEF e
  <2> QED BY <1>1, <1>2, <2>1, AsReadType, AsReadAppend DEF OnDisk
<1>8. /\ Read(e) \in Entry /\ Read(e) # Torn /\ Read(e).zone = e.zone
      /\ Read(e).change = Decoded(e.change)
  <2> HIDE DEF e
  <2> QED BY <1>1, ReadType
<1>3. /\ id \in Ids /\ outcome[id] = "pending" /\ ~ Journaled(id)
      /\ \A i : Journaled(i)' <=> Journaled(i) \/ i = id
  BY TracedIsFiled, FiledWrite DEF DurableInv, CallsOpen, Traced
<1> HIDE DEF e
<1>4. ASSUME NEW z \in Zones
      PROVE  Durably(z)' = IF z = request[id].zone
                           THEN ApplyChange(Durably(z), Decoded(request[id].change))
                           ELSE Durably(z)
  <2>1. Durably(z)' = Effect(z, {}, Durably(z), Read(e))
    BY <1>7, <1>8, ReplayAppend DEF Durably
  <2> QED BY <1>1, <1>8, <2>1 DEF Effect
<1>5. Content' = [Content EXCEPT ![request[id].zone] =
                    ApplyChange(@, Decoded(request[id].change))]
  BY <1>1, <1>4 DEF Content
<1>6. Effective' = Effective \cup {id} /\ id \notin Effective
  BY <1>3 DEF Effective
<1> QED BY <1>3, <1>5, <1>6, SameStore DEF Promise!Applied, Content, Effective

\* A step that writes no line changes nothing that is durable.
LEMMA NothingWritten ==
    ASSUME UNCHANGED lines
    PROVE  UNCHANGED <<Content, Effective>>
BY DEF Content, Effective, Durably, OnDisk, Journaled

\* Every step of the update path is a step of DurableZones or none at all.
LEMMA PromiseStep ==
    Dependable => (DurableInv /\ [Next]_vars => [Promise!Next]_(Promise!vars))
<1> SUFFICES ASSUME Dependable, DurableInv, [Next]_vars,
                    ~ UNCHANGED <<Content, Effective, request, outcome>>
             PROVE  Promise!Next
  BY DEF Promise!vars, Content, Effective
<1> USE DEF Promise!Ids, Ids
<1>1. ASSUME NEW c \in Clients, NEW r \in Requests, Call(c, r) PROVE Promise!Next
  <2>1. PICK id \in Ids :
          /\ request[id] = None
          /\ request' = [request EXCEPT ![id] = r]
          /\ outcome' = [outcome EXCEPT ![id] = "pending"]
    BY <1>1 DEF Call
  <2>2. outcome[id] = "none" /\ UNCHANGED <<Content, Effective>>
    BY <1>1, <2>1, NothingWritten DEF Call, journalVars, DurableInv, CallsOpen
  <2>3. Promise!Invoke(id, r)
    BY <2>1, <2>2 DEF Promise!Invoke, Content, Effective
  <2> QED BY <2>3 DEF Promise!Next
<1>2. ASSUME NEW c \in Clients, pc[c] = "staged", WholeLine(EntryOf(c)),
             AppendWritten(c) \/ Crash
      PROVE  Promise!Next
  <2>1. PICK id : id = call[c]
    OBVIOUS
  <2>2. id \in Ids /\ Promise!Applied(id)
    BY <1>2, <2>1, LineTakesEffect
  <2>3. CASE AppendWritten(c)
    <3>1. Promise!TakeEffect(id)
      BY <2>2, <2>3 DEF Promise!TakeEffect, AppendWritten, callVars
    <3> QED BY <2>2, <3>1 DEF Promise!Next
  <2>4. CASE Crash
    <3>1. Promise!Stop
      BY <2>2, <2>4 DEF Promise!Stop, Crash, LoseCallers
    <3> QED BY <3>1 DEF Promise!Next
  <2> QED BY <1>2, <2>3, <2>4
<1>3. ASSUME NEW c \in Clients, ApplyStep(c), UNCHANGED lines PROVE Promise!Next
  <2>1. UNCHANGED <<Content, Effective>>
    BY <1>3, NothingWritten
  <2>2. ~ Moves(c)
    BY <2>1 DEF Moves, callVars
  <2>3. PICK answer :
          /\ Returns(c, answer)
          /\ \/ Reject(c) /\ answer = "rejected"
             \/ Rollback(c) /\ answer = "failed"
             \/ NotifyAndReturn(c) /\ answer \in {"ok", "notify-failed"}
    BY <1>3, <2>2, ApplyStepKinds
  <2>4. PICK id : id = call[c]
    OBVIOUS
  <2>5. /\ id \in Ids /\ outcome[id] = "pending" /\ UNCHANGED request
        /\ outcome' = [outcome EXCEPT ![id] = answer]
    BY <2>3, <2>4 DEF Returns, DurableInv, TypeInv, Control, CallsOpen
  <2>6. CASE NotifyAndReturn(c) /\ answer \in {"ok", "notify-failed"}
    <3>1. id \in Effective
      BY <2>4, <2>5, <2>6 DEF NotifyAndReturn, Return, Step, DurableInv, Traced, Effective
    <3>2. Promise!Confirm(id, answer)
      BY <2>1, <2>5, <3>1 DEF Promise!Confirm, Content, Effective
    <3> QED BY <2>5, <2>6, <3>2 DEF Promise!Next
  <2>7. CASE (Reject(c) /\ answer = "rejected") \/ (Rollback(c) /\ answer = "failed")
    <3>1. pc[c] \in {"entered", "undo"}
      BY <2>7 DEF Reject, Rollback, Return, Step
    <3>2. id \notin Effective
      BY <2>4, <3>1 DEF DurableInv, Traced, Effective
    <3>3. Promise!Refuse(id, answer)
      BY <2>1, <2>5, <3>2 DEF Promise!Refuse, Content, Effective
    <3> QED BY <2>5, <2>7, <3>3 DEF Promise!Next
  <2> QED BY <2>3, <2>6, <2>7
<1>4. CASE (Crash \/ Exit) /\ UNCHANGED lines
  <2>1. UNCHANGED <<Content, Effective>>
    BY <1>4, NothingWritten
  <2>2. Promise!Stop
    BY <1>4, <2>1 DEF Promise!Stop, Crash, Exit, LoseCallers, Content, Effective
  <2> QED BY <2>2 DEF Promise!Next
<1>5. CASE (Boot \/ Shutdown \/ CloseJournal \/ UNCHANGED vars) /\ UNCHANGED lines
  <2>1. UNCHANGED <<Content, Effective>>
    BY <1>5, NothingWritten
  <2>2. UNCHANGED callVars
    BY <1>5 DEF Boot, Start, ReplayEntry, ReplayFails, Serve, Shutdown, CloseJournal, vars
  <2> QED BY <2>1, <2>2 DEF callVars
<1>6. UNCHANGED lines \/ \E c \in Clients :
        /\ AppendWritten(c) \/ Crash
        /\ pc[c] = "staged" /\ WholeLine(EntryOf(c))
  BY LinesStep
<1> QED BY <1>1, <1>2, <1>3, <1>4, <1>5, <1>6 DEF Next, Stop

\* With a dependable journal the update path keeps the promise of DurableZones:
\* content changes only by a whole update, at one instant between its call and
\* its answer, success means it is durable and failure that it never will be.
THEOREM PromiseKept == Dependable => (Spec => ImplementsDurableZones)
<1> SUFFICES ASSUME Dependable PROVE Spec => ImplementsDurableZones
  OBVIOUS
<1>1. Init => DurableInv /\ Promise!Init
  BY DurableInit, PromiseInit
<1>2. DurableInv /\ [Next]_vars => DurableInv'
  BY DurableStep
<1>3. DurableInv /\ [Next]_vars => [Promise!Next]_(Promise!vars)
  BY PromiseStep
<1> QED BY <1>1, <1>2, <1>3, PTL DEF Spec, ImplementsDurableZones, Promise!Spec

-----------------------------------------------------------------------------
(***************************************************************************)
(* The history explains each zone, whatever fails.                         *)
(***************************************************************************)

\* Two sets of undone updates that have the same entries of a log make the same
\* of it.
LEMMA ReplaySame ==
    ASSUME NEW z \in Zones, NEW log \in Seq(Entry), NEW undone, NEW others,
           \A i \in 1..Len(log) : log[i].id \in undone <=> log[i].id \in others
    PROVE  ReplayOf(z, log, undone) = ReplayOf(z, log, others)
<1> DEFINE S == {k \in 0..Len(log) :
                    ReplayUpTo(z, log, undone)[k] = ReplayUpTo(z, log, others)[k]}
<1>1. Len(log) \in Nat /\ log \in Logs
  BY DEF Logs
<1>2. \A k \in 0..Len(log) :
        /\ ReplayUpTo(z, log, undone)[k] =
              ReplayStep(z, log, undone, ReplayUpTo(z, log, undone), k)
        /\ ReplayUpTo(z, log, others)[k] =
              ReplayStep(z, log, others, ReplayUpTo(z, log, others), k)
  BY <1>1, ReplaySolves
<1>3. 0 \in S
  BY <1>1, <1>2 DEF ReplayStep
<1>4. ASSUME NEW k \in 1..Len(log), k - 1 \in S PROVE k \in S
  <2>1. k \in 0..Len(log) /\ k # 0
    BY <1>1
  <2>2. ReplayUpTo(z, log, undone)[k - 1] = ReplayUpTo(z, log, others)[k - 1]
    BY <1>4
  <2>3. ReplayUpTo(z, log, undone)[k] = ReplayUpTo(z, log, others)[k]
    BY <1>2, <2>1, <2>2 DEF ReplayStep, Effect
  <2> QED BY <2>1, <2>3
<1>5. \A k \in 0..Len(log) : k \in S
  <2> HIDE DEF S
  <2> QED BY <1>1, <1>3, <1>4, IntervalInduction
<1>6. Len(log) \in S
  BY <1>1, <1>5
<1> QED BY <1>6 DEF ReplayOf

Named(log, id) == \E i \in 1..Len(log) : log[i].id = id

\* What the history leaves out: updates reported as failed that no start has
\* brought back.
Undone == FailedIds \ ReplayedIds

\* Where a call may have its entry in the history.
Recorded == {"resigning", "committing", "committed", "undo"}

\* Lines and history are of calls that were made, and the history of a zone has
\* an entry of a call under way only if the call got so far there.
Known ==
    /\ \A i \in 1..Len(lines) : lines[i] # Torn => request[lines[i].id] # None
    /\ \A z \in Zones : \A i \in 1..Len(history[z]) : request[history[z][i].id] # None
    /\ \A c \in Clients, z \in Zones : pc[c] # "idle" /\ Named(history[z], call[c]) =>
          z = ZoneAt(c) /\ pc[c] \in Recorded

\* A start has only what it replays, and no call under way is one of those.
Apart ==
    /\ mode \in {"down", "replaying", "fatal"} =>
          \A z \in Zones : \A i \in 1..Len(history[z]) : history[z][i].id \in ReplayedIds
    /\ \A c \in Clients : pc[c] # "idle" => call[c] \notin ReplayedIds

\* A call at p inside Apply would go back to what the history explains without
\* it; the zone is ahead of the history until it is committed.
AtWork(p, before, ch, st, z, log, undone, id) ==
    /\ before = ReplayOf(z, log, undone \cup {id})
    /\ p \in {"staged", "journaled"} => st = ApplyChange(before, ch)
    /\ p \in {"resigning", "committing", "committed"} => st = ReplayOf(z, log, undone)

Explained ==
    /\ \A z \in Zones : (\A c \in Clients : pc[c] \in Inside => ZoneAt(c) # z) =>
          records[z] = ReplayOf(z, history[z], Undone)
    /\ \A c \in Clients : pc[c] \in Inside =>
          AtWork(pc[c], staged[c].before, Asked(c).change, records[ZoneAt(c)], ZoneAt(c),
                 history[ZoneAt(c)], Undone, call[c])

ExplainInv == Known /\ (ReplayedIntact => Apart /\ Explained)

\* A write adds a line or damages the last one.
LEMMA LinesChange ==
    ASSUME [Next]_vars
    PROVE  \/ lines' = lines
           \/ \E c \in Clients :
                 /\ pc[c] = "staged"
                 /\ \/ lines' = [lines EXCEPT ![Len(lines)] = Torn]
                    \/ \E l \in {Torn, EntryOf(c)} : lines' = Append(lines, l)
<1> USE DEF journalVars
<1>1. CASE \E c \in Clients : AppendJournal(c)
  BY <1>1 DEF AppendJournal, AppendWritten, AppendWithoutFile, AppendRefused,
     AppendUnsynced, AppendTorn, Step, WholeLine, PartOfLine
<1>2. CASE Crash
  BY <1>2 DEF Crash, CrashLeaves, WholeLine, PartOfLine
<1>3. CASE UNCHANGED vars
  BY <1>3 DEF vars
<1>4. CASE \E c \in Clients, r \in Requests : Call(c, r)
  BY <1>4 DEF Call
<1>5. CASE \E c \in Clients : ApplyStep(c) /\ ~ AppendJournal(c)
  BY <1>5 DEF ApplyStep, Reject, Stage, Rollback, CommitZone, Resigned, ResignFailed,
     NotifyInCommit, NotifyAndReturn
<1>6. CASE Boot \/ Shutdown \/ CloseJournal \/ Exit
  BY <1>6 DEF Boot, Start, ReplayEntry, ReplayFails, Serve, Shutdown, CloseJournal, Exit
<1> QED BY <1>1, <1>2, <1>3, <1>4, <1>5, <1>6 DEF Next, Stop

\* The lines replayed stay as they are, unless a write damages one.
LEMMA ReplayedStay ==
    ASSUME TypeInv, [Next]_vars, replayed' = replayed, ReplayedIntact'
    PROVE  ReplayedIntact /\ ReplayedIds' = ReplayedIds
<1>1. replayed \in 0..Len(lines) /\ Len(lines) \in Nat /\ lines \in Logs
  BY DEF TypeInv, TypeOK, Logs
<1>2. \A i \in 1..replayed : lines'[i] # Torn
  BY DEF ReplayedIntact
<1>3. ASSUME NEW i \in 1..replayed PROVE lines'[i] = lines[i]
  <2>1. i \in 1..Len(lines) /\ lines'[i] # Torn
    BY <1>1, <1>2
  <2>2. CASE lines' = [lines EXCEPT ![Len(lines)] = Torn]
    <3>1. lines'[i] = IF i = Len(lines) THEN Torn ELSE lines[i]
      BY <1>1, <2>1, <2>2 DEF Logs
    <3> QED BY <2>1, <3>1
  <2>3. ASSUME NEW l, lines' = Append(lines, l) PROVE lines'[i] = lines[i]
    BY <1>1, <2>1, <2>3 DEF Logs
  <2> QED BY <2>2, <2>3, LinesChange
<1> QED BY <1>2, <1>3 DEF ReplayedIntact, ReplayedIds

\* No call is forgotten.
LEMMA RequestsStay ==
    ASSUME TypeInv, [Next]_vars
    PROVE  \A id \in Ids : request[id] # None => request'[id] = request[id]
<1>1. ASSUME NEW c \in Clients, NEW r \in Requests, Call(c, r), NEW id \in Ids, request[id] # None
      PROVE  request'[id] = request[id]
  BY <1>1 DEF Call, TypeInv, TypeOK
<1>2. CASE \E c \in Clients : ApplyStep(c)
  BY <1>2, ApplyStepKinds DEF Moves, Returns, callVars
<1>3. CASE Boot \/ Stop
  BY <1>3, ProcessKinds DEF AllLost, callVars
<1>4. CASE UNCHANGED vars
  BY <1>4 DEF vars, callVars
<1> QED BY <1>1, <1>2, <1>3, <1>4 DEF Next

\* So every line is of a call that was made.
LEMMA LinesKnown ==
    ASSUME TypeInv, Known, [Next]_vars
    PROVE  \A i \in 1..Len(lines') : lines'[i] # Torn => request'[lines'[i].id] # None
<1>1. lines \in Logs /\ Len(lines) \in Nat
  BY DEF TypeInv, TypeOK, Logs
<1>2. ASSUME NEW i \in 1..Len(lines), lines[i] # Torn PROVE request'[lines[i].id] # None
  <2>1. lines[i] \in Entry
    BY <1>1, <1>2, ElementOfSeq DEF Logs
  <2>2. lines[i].id \in Ids /\ request[lines[i].id] # None
    BY <1>2, <2>1 DEF Entry, Known
  <2> QED BY <2>2, RequestsStay
<1>3. CASE lines' = lines
  BY <1>2, <1>3
<1>4. CASE lines' = [lines EXCEPT ![Len(lines)] = Torn]
  <2>1. Len(lines') = Len(lines) /\ \A i \in 1..Len(lines) :
            lines'[i] = IF i = Len(lines) THEN Torn ELSE lines[i]
    BY <1>1, <1>4 DEF Logs
  <2> QED BY <1>2, <2>1
<1>5. ASSUME NEW c \in Clients, pc[c] = "staged", NEW l \in {Torn, EntryOf(c)},
             lines' = Append(lines, l)
      PROVE  \A i \in 1..Len(lines') : lines'[i] # Torn => request'[lines'[i].id] # None
  <2>1. Len(lines') = Len(lines) + 1 /\ lines'[Len(lines) + 1] = l
        /\ \A i \in 1..Len(lines) : lines'[i] = lines[i]
    BY <1>1, <1>5 DEF Logs
  <2>2. request'[call[c]] # None
    BY <1>5, RequestsStay, UpdateAssumption DEF TypeInv, Control, Asked
  <2>3. l # Torn => request'[l.id] # None
    BY <1>5, <2>2 DEF EntryOf
  <2>4. \A i \in 1..Len(lines') : i \in 1..Len(lines) \/ i = Len(lines) + 1
    BY <1>1, <2>1
  <2> QED BY <1>2, <2>1, <2>3, <2>4
<1> QED BY <1>3, <1>4, <1>5, LinesChange

\* The history of a zone grows by a commit or a replay, or is lost with the rest.
LEMMA HistoryChange ==
    ASSUME [Next]_vars
    PROVE  \/ history' = history
           \/ AllLost /\ FreshMemory
           \/ \E c \in Clients : CommitZone(c)
           \/ ReplayEntry
<1> USE DEF zoneVars
<1>1. CASE UNCHANGED vars
  BY <1>1 DEF vars
<1>2. CASE \E c \in Clients, r \in Requests : Call(c, r)
  BY <1>2 DEF Call
<1>3. CASE \E c \in Clients : ApplyStep(c) /\ ~ CommitZone(c)
  BY <1>3 DEF ApplyStep, Reject, Stage, AppendJournal, AppendWritten,
     AppendWithoutFile, AppendRefused, AppendUnsynced, AppendTorn, Rollback,
     Resigned, ResignFailed, NotifyInCommit, NotifyAndReturn
<1>4. CASE Start \/ ReplayFails \/ Serve \/ Shutdown \/ CloseJournal
  BY <1>4 DEF Start, ReplayFails, Serve, Shutdown, CloseJournal
<1>5. CASE Crash \/ Exit
  BY <1>5 DEF Crash, Exit, FreshMemory, AllLost
<1> QED BY <1>1, <1>2, <1>3, <1>4, <1>5 DEF Next, Boot, Stop

\* What a commit and a replay add to it.
LEMMA HistoryAppend ==
    ASSUME TypeInv, NEW z \in Zones, NEW e \in Entry, NEW h, h = history[z]
    PROVE  /\ h \in Logs /\ h \in Seq(Entry) /\ Len(h) \in Nat
           /\ Len(Append(h, e)) = Len(h) + 1 /\ Append(h, e)[Len(h) + 1] = e
           /\ \A i \in 1..Len(h) : Append(h, e)[i] = h[i] /\ h[i] \in Entry /\ h[i].id \in Ids
           /\ \A i \in 1..Len(Append(h, e)) : i \in 1..Len(h) \/ i = Len(h) + 1
           /\ \A id : Named(Append(h, e), id) <=> Named(h, id) \/ id = e.id
<1>1. h \in Seq(Entry) /\ Len(h) \in Nat
  BY DEF TypeInv, TypeOK
<1>2. h \in Logs
  BY <1>1 DEF Logs
<1>3. /\ Len(Append(h, e)) = Len(h) + 1 /\ Append(h, e)[Len(h) + 1] = e
      /\ \A i \in 1..Len(h) : Append(h, e)[i] = h[i] /\ h[i] \in Entry
  BY <1>1
<1>4. \A i \in 1..Len(Append(h, e)) : i \in 1..Len(h) \/ i = Len(h) + 1
  BY <1>1, <1>3
<1>5. \A i \in 1..Len(h) : h[i].id \in Ids
  BY <1>3 DEF Entry
<1>6. \A id : Named(Append(h, e), id) <=> Named(h, id) \/ id = e.id
  <2>1. Len(h) + 1 \in 1..Len(Append(h, e)) /\ 1..Len(h) \subseteq 1..Len(Append(h, e))
    BY <1>1, <1>3
  <2> QED BY <2>1, <1>3, <1>4 DEF Named
<1> QED BY <1>1, <1>2, <1>3, <1>4, <1>5, <1>6

\* The entry of a call that commits, and the one a start replays.
LEMMA CommitsEntry ==
    ASSUME TypeInv, NEW c \in Clients, CommitZone(c)
    PROVE  /\ EntryOf(c) \in Entry /\ ZoneAt(c) \in Zones /\ EntryOf(c).id = call[c]
           /\ EntryOf(c).zone = ZoneAt(c) /\ EntryOf(c).change = Asked(c).change
           /\ call[c] \in Ids /\ request[call[c]] # None
           /\ pc[c] = "journaled" /\ pc' = [pc EXCEPT ![c] = "resigning"]
           /\ UNCHANGED <<records, call, staged, request, outcome, mode, replayed, lines>>
           /\ history' = [history EXCEPT ![ZoneAt(c)] = Append(@, EntryOf(c))]
<1>1. /\ pc[c] = "journaled" /\ pc' = [pc EXCEPT ![c] = "resigning"]
      /\ UNCHANGED <<records, call, staged, request, outcome, mode, replayed, lines>>
      /\ history' = [history EXCEPT ![ZoneAt(c)] = Append(@, EntryOf(c))]
  BY DEF CommitZone, Step, processVars, callVars, journalVars
<1>2. EntryOf(c) \in Entry /\ ZoneAt(c) \in Zones
  BY <1>1, EntryType DEF Inside, Places
<1>3. call[c] \in Ids /\ request[call[c]] # None
  BY <1>1, UpdateAssumption DEF TypeInv, Control, Asked
<1> QED BY <1>1, <1>2, <1>3 DEF EntryOf

Replays(e) == [e EXCEPT !.serial = serial[e.zone]]

LEMMA ReplaysEntry ==
    ASSUME TypeInv, ReplayEntry, NEW e, e = Read(lines[replayed + 1])
    PROVE  /\ e \in Entry /\ Replays(e) \in Entry /\ Replays(e).id = e.id
           /\ Replays(e).zone = e.zone /\ Replays(e).change = e.change
           /\ e.zone \in Zones /\ replayed + 1 \in 1..Len(lines)
           /\ lines[replayed + 1].id = e.id
           /\ mode = "replaying" /\ \A c \in Clients : pc[c] = "idle"
           /\ \A i \in 1..Len(lines) : lines[i] # Torn
           /\ UNCHANGED <<pc, call, staged, request, outcome, mode, lines>>
           /\ replayed' = replayed + 1 /\ replayed \in 0..Len(lines) /\ Len(lines) \in Nat
           /\ records' = [records EXCEPT ![e.zone] = ApplyChange(@, e.change)]
           /\ history' = [history EXCEPT ![e.zone] = Append(@, Replays(e))]
<1>1. /\ mode = "replaying" /\ replayed < Len(lines) /\ replayed' = replayed + 1
      /\ UNCHANGED <<pc, call, staged, request, outcome, mode, lines>>
      /\ records' = [records EXCEPT ![e.zone] = ApplyChange(@, e.change)]
      /\ history' = [history EXCEPT ![e.zone] = Append(@, Replays(e))]
  BY DEF ReplayEntry, NextToReplay, callVars, journalVars, Replays
<1>2. /\ replayed \in 0..Len(lines) /\ Len(lines) \in Nat /\ lines \in Logs
      /\ \A i \in 1..Len(lines) : lines[i] # Torn
      /\ \A c \in Clients : pc[c] = "idle"
  BY <1>1 DEF TypeInv, TypeOK, Control, Logs
<1>3. replayed + 1 \in 1..Len(lines)
  BY <1>1, <1>2
<1>7. lines[replayed + 1] \in Entry
  BY <1>2, <1>3, ElementOfSeq DEF Logs
<1>4. e \in Entry /\ lines[replayed + 1].id = e.id
  BY <1>7, ReadType
<1>5. serial[e.zone] \in Nat /\ e.zone \in Zones
  BY <1>4 DEF Entry, TypeInv, TypeOK
<1>6. Replays(e) \in Entry /\ Replays(e).id = e.id
      /\ Replays(e).zone = e.zone /\ Replays(e).change = e.change
  BY <1>4, <1>5 DEF Entry, Replays
<1> QED BY <1>1, <1>2, <1>3, <1>4, <1>5, <1>6

\* Every step keeps the history of calls that were made, each in its zone.
LEMMA KnownStep ==
    ASSUME TypeInv, CallsOpen, Known, [Next]_vars
    PROVE  Known'
<1>1. \A id \in Ids : request[id] # None => request'[id] # None
  BY RequestsStay
<1>2. ASSUME NEW z \in Zones, NEW i \in 1..Len(history[z])
      PROVE  request'[history[z][i].id] # None
  <2>1. PICK h : h = history[z]
    OBVIOUS
  <2>2. h \in Seq(Entry) /\ i \in 1..Len(h)
    BY <2>1 DEF TypeInv, TypeOK
  <2>3. h[i] \in Entry
    BY <2>2, ElementOfSeq
  <2>4. h[i].id \in Ids /\ request[h[i].id] # None
    BY <2>1, <2>3 DEF Entry, Known
  <2> QED BY <1>1, <2>1, <2>4
<1>3. CASE history' = history
  <2>1. ASSUME NEW c \in Clients, NEW z \in Zones, pc'[c] # "idle", Named(history[z], call'[c])
        PROVE  z = ZoneAt(c)' /\ pc'[c] \in Recorded
    <3>1. ASSUME pc[c] # "idle", call'[c] = call[c], pc[c] \in Recorded => pc'[c] \in Recorded
          PROVE  z = ZoneAt(c)' /\ pc'[c] \in Recorded
      <4>1. z = ZoneAt(c) /\ pc'[c] \in Recorded
        BY <2>1, <3>1 DEF Known
      <4>2. request'[call[c]] = request[call[c]]
        BY <3>1, RequestsStay, UpdateAssumption DEF TypeInv, Control, Asked
      <4> QED BY <3>1, <4>1, <4>2 DEF ZoneAt, Asked
    <3>2. ASSUME NEW d \in Clients, NEW r \in Requests, Call(d, r)
          PROVE  z = ZoneAt(c)' /\ pc'[c] \in Recorded
      <4>1. CASE c = d
        <5>1. PICK id \in Ids : request[id] = None /\ call'[c] = id
          BY <3>2, <4>1 DEF Call, TypeInv, TypeOK
        <5> QED BY <2>1, <5>1 DEF Known, Named
      <4>2. CASE c # d
        <5>1. pc'[c] = pc[c] /\ call'[c] = call[c]
          BY <3>2, <4>2 DEF Call, Step, TypeInv, TypeOK
        <5> QED BY <2>1, <3>1, <5>1
      <4> QED BY <4>1, <4>2
    <3>3. ASSUME NEW d \in Clients, ApplyStep(d)
          PROVE  z = ZoneAt(c)' /\ pc'[c] \in Recorded
      <4>1. pc[c] # "idle" /\ call'[c] = call[c]
        BY <2>1, <3>3, ApplyStepKinds DEF Moves, Returns, TypeInv, TypeOK
      <4>2. CASE c # d
        <5>1. pc'[c] = pc[c]
          BY <3>3, <4>2, ApplyStepKinds DEF Moves, Returns, TypeInv, TypeOK
        <5> QED BY <3>1, <4>1, <5>1
      <4>3. CASE c = d
        <5>1. pc[c] \in Recorded => pc'[c] \in Recorded \cup {"idle"}
          BY <3>3, <4>3 DEF Recorded, ApplyStep, Reject, Stage, AppendJournal, AppendWritten,
             AppendWithoutFile, AppendRefused, AppendUnsynced, AppendTorn, Rollback,
             CommitZone, Resigned, ResignFailed, NotifyInCommit, NotifyAndReturn, Return,
             Step, TypeInv, TypeOK
        <5> QED BY <2>1, <3>1, <4>1, <5>1
      <4> QED BY <4>2, <4>3
    <3>4. CASE UNCHANGED <<pc, call>>
      BY <2>1, <3>1, <3>4
    <3>5. CASE Boot \/ Stop
      BY <2>1, <3>4, <3>5, ProcessKinds DEF AllLost
    <3>6. CASE UNCHANGED vars
      BY <3>4, <3>6 DEF vars
    <3> QED BY <3>2, <3>3, <3>5, <3>6 DEF Next
  <2>2. \A z \in Zones : \A i \in 1..Len(history'[z]) : request'[history'[z][i].id] # None
    BY <1>2, <1>3
  <2> QED BY <1>3, <2>1, <2>2, LinesKnown DEF Known
<1>4. CASE AllLost /\ FreshMemory
  <2>1. \A z \in Zones : Len(history'[z]) = 0
    BY <1>4 DEF FreshMemory
  <2>2. \A c \in Clients : pc'[c] = "idle"
    BY <1>4 DEF AllLost
  <2> QED BY <2>1, <2>2, LinesKnown DEF Known
<1>5. ASSUME NEW d \in Clients, CommitZone(d) PROVE Known'
  <2> DEFINE e == EntryOf(d)
  <2>1. /\ e \in Entry /\ ZoneAt(d) \in Zones /\ e.id = call[d]
        /\ call[d] \in Ids /\ request[call[d]] # None
        /\ pc[d] = "journaled" /\ pc' = [pc EXCEPT ![d] = "resigning"]
        /\ UNCHANGED <<call, request>>
        /\ history' = [history EXCEPT ![ZoneAt(d)] = Append(@, e)]
    BY <1>5, CommitsEntry
  <2> HIDE DEF e
  <2>2. \A z \in Zones : history'[z] = IF z = ZoneAt(d) THEN Append(history[z], e)
                                                        ELSE history[z]
    BY <2>1 DEF TypeInv, TypeOK
  <2>3. \A c \in Clients : pc'[c] = IF c = d THEN "resigning" ELSE pc[c]
    BY <2>1 DEF TypeInv, TypeOK
  <2>4. ASSUME NEW z \in Zones, NEW i \in 1..Len(history'[z])
        PROVE  request'[history'[z][i].id] # None
    <3>1. PICK h : h = history[z]
      OBVIOUS
    <3>2. \/ i \in 1..Len(h) /\ history'[z][i] = h[i]
          \/ history'[z][i] = e
      BY <2>1, <2>2, <2>4, <3>1, HistoryAppend
    <3> QED BY <1>2, <2>1, <3>1, <3>2
  <2>5. ASSUME NEW c \in Clients, NEW z \in Zones, pc'[c] # "idle", Named(history'[z], call'[c])
        PROVE  z = ZoneAt(c)' /\ pc'[c] \in Recorded
    <3>1. PICK h : h = history[z]
      OBVIOUS
    <3>2. Named(history[z], call[c]) \/ (z = ZoneAt(d) /\ call[c] = call[d])
      BY <2>1, <2>2, <2>5, <3>1, HistoryAppend
    <3>3. ZoneAt(c)' = ZoneAt(c) /\ pc[c] # "idle"
      BY <2>1, <2>3, <2>5 DEF ZoneAt, Asked
    <3>4. CASE Named(history[z], call[c])
      <4>1. z = ZoneAt(c) /\ pc[c] \in Recorded
        BY <3>3, <3>4 DEF Known
      <4> QED BY <2>3, <3>3, <4>1 DEF Recorded
    <3>5. CASE z = ZoneAt(d) /\ call[c] = call[d]
      <4>1. c = d
        BY <2>1, <3>3, <3>5 DEF CallsOpen
      <4> QED BY <2>3, <3>3, <3>5, <4>1 DEF Recorded
    <3> QED BY <3>2, <3>4, <3>5
  <2> QED BY <2>4, <2>5, LinesKnown DEF Known
<1>6. CASE ReplayEntry
  <2>1. PICK e : e = Read(lines[replayed + 1])
    OBVIOUS
  <2>2. PICK n : n = Replays(e)
    OBVIOUS
  <2>3. /\ n \in Entry /\ n.id = e.id /\ e.zone \in Zones /\ replayed + 1 \in 1..Len(lines)
        /\ e # Torn /\ UNCHANGED <<pc, request>> /\ \A c \in Clients : pc[c] = "idle"
        /\ history' = [history EXCEPT ![e.zone] = Append(@, n)]
    BY <1>6, <2>1, <2>2, ReplaysEntry, UpdateAssumption
  <2>4. request[e.id] # None
    <3>1. /\ lines[replayed + 1].id = e.id /\ replayed + 1 \in 1..Len(lines)
          /\ \A i \in 1..Len(lines) : lines[i] # Torn
      BY <1>6, <2>1, ReplaysEntry
    <3> QED BY <2>3, <3>1 DEF Known
  <2>5. \A z \in Zones : history'[z] = IF z = e.zone THEN Append(history[z], n)
                                                     ELSE history[z]
    BY <2>3 DEF TypeInv, TypeOK
  <2>6. ASSUME NEW z \in Zones, NEW i \in 1..Len(history'[z])
        PROVE  request'[history'[z][i].id] # None
    <3>1. PICK h : h = history[z]
      OBVIOUS
    <3>2. \/ i \in 1..Len(h) /\ history'[z][i] = h[i]
          \/ history'[z][i] = n
      BY <2>3, <2>5, <2>6, <3>1, HistoryAppend
    <3> QED BY <1>2, <2>3, <2>4, <3>1, <3>2
  <2> QED BY <2>3, <2>6, LinesKnown DEF Known
<1> QED BY <1>3, <1>4, <1>5, <1>6, HistoryChange

\* Only a rollback reports a failure.
LEMMA FailedChange ==
    ASSUME TypeInv, CallsOpen, [Next]_vars
    PROVE  \/ FailedIds' = FailedIds
           \/ \E c \in Clients : Rollback(c)
<1>1. ASSUME UNCHANGED outcome PROVE FailedIds' = FailedIds
  BY <1>1 DEF FailedIds
<1>2. ASSUME NEW c \in Clients, NEW r \in Requests, Call(c, r) PROVE FailedIds' = FailedIds
  <2>1. PICK id \in Ids : request[id] = None /\ outcome' = [outcome EXCEPT ![id] = "pending"]
    BY <1>2 DEF Call
  <2>2. outcome[id] = "none"
    BY <2>1 DEF CallsOpen
  <2> QED BY <2>1, <2>2 DEF FailedIds, TypeInv, TypeOK
<1>3. ASSUME NEW c \in Clients, NEW answer \in {"rejected", "ok", "notify-failed"},
             Returns(c, answer)
      PROVE  FailedIds' = FailedIds
  BY <1>3 DEF Returns, FailedIds, CallsOpen, TypeInv, TypeOK
<1>4. ASSUME AllLost PROVE FailedIds' = FailedIds
  BY <1>4 DEF AllLost, LoseCallers, FailedIds, TypeInv, TypeOK
<1>5. ASSUME UNCHANGED vars PROVE FailedIds' = FailedIds
  BY <1>1, <1>5 DEF vars, callVars
<1>6. ASSUME Boot \/ Stop PROVE FailedIds' = FailedIds
  BY <1>1, <1>4, <1>6, ProcessKinds DEF callVars
<1>7. ASSUME NEW c \in Clients, ApplyStep(c) PROVE FailedIds' = FailedIds \/ Rollback(c)
  <2>1. CASE Moves(c)
    <3>1. UNCHANGED outcome
      BY <2>1 DEF Moves, callVars
    <3> QED BY <1>1, <3>1
  <2>2. CASE \E answer \in {"rejected", "ok", "notify-failed"} : Returns(c, answer)
    BY <1>3, <2>2
  <2> QED BY <1>7, <2>1, <2>2, ApplyStepKinds
<1> QED BY <1>2, <1>5, <1>6, <1>7 DEF Next

\* Every step keeps what a start has apart from the calls under way.
LEMMA ApartStep ==
    ASSUME TypeInv, CallsOpen, Known, ReplayedIntact => Apart, ReplayedIntact', [Next]_vars
    PROVE  Apart'
<1>1. CASE UNCHANGED <<pc, call, history, replayed>> /\
           (mode' \in {"down", "replaying", "fatal"} => mode \in {"down", "replaying", "fatal"})
  BY <1>1, ReplayedStay DEF Apart
<1>2. ASSUME NEW c \in Clients, NEW r \in Requests, Call(c, r) PROVE Apart'
  <2>1. PICK id \in Ids : request[id] = None /\ call' = [call EXCEPT ![c] = id]
    BY <1>2 DEF Call
  <2>2. /\ mode' = "serving" /\ pc' = [pc EXCEPT ![c] = "entered"] /\ replayed' = replayed
    BY <1>2 DEF Call, Step, processVars
  <2>3. ReplayedIntact /\ ReplayedIds' = ReplayedIds
    BY <2>2, ReplayedStay
  <2>4. id \notin ReplayedIds
    <3>1. \A i \in 1..replayed : i \in 1..Len(lines) /\ lines[i] # Torn
      BY <2>3 DEF ReplayedIntact, TypeInv, TypeOK
    <3> QED BY <2>1, <3>1 DEF Known, ReplayedIds
  <2>5. \A d \in Clients : pc'[d] # "idle" => call'[d] \notin ReplayedIds
    BY <2>1, <2>2, <2>3, <2>4 DEF Apart, TypeInv, TypeOK
  <2> QED BY <2>2, <2>3, <2>5 DEF Apart
<1>3. ASSUME NEW c \in Clients, ApplyStep(c) PROVE Apart'
  <2>1. UNCHANGED <<mode, replayed>>
    BY <1>3 DEF processVars, ApplyStep, Reject, Stage, AppendJournal, AppendWritten,
       AppendWithoutFile, AppendRefused, AppendUnsynced, AppendTorn, Rollback, CommitZone,
       Resigned, ResignFailed, NotifyInCommit, NotifyAndReturn
  <2>2. ReplayedIntact /\ ReplayedIds' = ReplayedIds
    BY <2>1, ReplayedStay
  <2>3. mode \notin {"down", "replaying", "fatal"}
    BY <1>3, ApplyStepKinds DEF Moves, Returns, TypeInv, Control
  <2>4. \A d \in Clients : pc'[d] # "idle" => pc[d] # "idle" /\ call'[d] = call[d]
    BY <1>3, ApplyStepKinds DEF Moves, Returns, TypeInv, TypeOK
  <2> QED BY <2>1, <2>2, <2>3, <2>4 DEF Apart
<1>4. CASE Start \/ ReplayFails \/ Serve \/ Shutdown \/ CloseJournal
  BY <1>1, <1>4 DEF Start, ReplayFails, Serve, Shutdown, CloseJournal, zoneVars
<1>5. CASE Crash \/ Exit
  <2>1. \A z \in Zones : Len(history'[z]) = 0
    BY <1>5 DEF Crash, Exit, FreshMemory
  <2>2. \A d \in Clients : pc'[d] = "idle"
    BY <1>5 DEF Crash, Exit, FreshMemory
  <2> QED BY <2>1, <2>2 DEF Apart
<1>6. CASE ReplayEntry
  <2>1. PICK e : e = Read(lines[replayed + 1])
    OBVIOUS
  <2>2. PICK n : n = Replays(e)
    OBVIOUS
  <2>3. /\ n \in Entry /\ n.id = e.id /\ e.zone \in Zones
        /\ lines[replayed + 1].id = e.id
        /\ mode = "replaying" /\ UNCHANGED <<mode, pc, lines>>
        /\ \A c \in Clients : pc[c] = "idle"
        /\ \A i \in 1..Len(lines) : lines[i] # Torn
        /\ replayed' = replayed + 1 /\ replayed \in 0..Len(lines) /\ Len(lines) \in Nat
        /\ history' = [history EXCEPT ![e.zone] = Append(@, n)]
    BY <1>6, <2>1, <2>2, ReplaysEntry
  <2>4. ReplayedIds \subseteq ReplayedIds' /\ e.id \in ReplayedIds'
    <3>1. 1..replayed \subseteq 1..replayed' /\ replayed + 1 \in 1..replayed'
      BY <2>3
    <3> QED BY <2>1, <2>3, <3>1 DEF ReplayedIds
  <2>5. ReplayedIntact
    BY <2>3 DEF ReplayedIntact
  <2>6. \A z \in Zones : history'[z] = IF z = e.zone THEN Append(history[z], n)
                                                     ELSE history[z]
    BY <2>3 DEF TypeInv, TypeOK
  <2>7. ASSUME NEW z \in Zones, NEW i \in 1..Len(history'[z])
        PROVE  history'[z][i].id \in ReplayedIds'
    <3>1. PICK h : h = history[z]
      OBVIOUS
    <3>2. \/ i \in 1..Len(h) /\ history'[z][i] = h[i]
          \/ history'[z][i] = n
      BY <2>3, <2>6, <2>7, <3>1, HistoryAppend
    <3>3. \A j \in 1..Len(h) : h[j].id \in ReplayedIds
      BY <2>3, <2>5, <3>1 DEF Apart
    <3> QED BY <2>3, <2>4, <3>2, <3>3
  <2> QED BY <2>3, <2>7 DEF Apart
<1>7. CASE UNCHANGED vars
  BY <1>1, <1>7 DEF vars, zoneVars, processVars
<1> QED BY <1>2, <1>3, <1>4, <1>5, <1>6, <1>7 DEF Next, Boot, Stop

\* What a history without an update makes of a zone is the same with the update
\* undone.
LEMMA SameHistory ==
    ASSUME TypeInv, NEW z \in Zones, NEW undone, NEW others,
           \A id : Named(history[z], id) => (id \in undone <=> id \in others)
    PROVE  ReplayOf(z, history[z], undone) = ReplayOf(z, history[z], others)
<1>1. PICK h : h = history[z]
  OBVIOUS
<1>2. h \in Seq(Entry)
  BY <1>1 DEF TypeInv, TypeOK
<1>3. \A i \in 1..Len(h) : h[i].id \in undone <=> h[i].id \in others
  BY <1>1 DEF Named
<1> QED BY <1>1, <1>2, <1>3, ReplaySame

LEMMA ExplainedStage ==
    ASSUME TypeInv, Known, Explained, NEW c \in Clients, Stage(c), Undone' = Undone
    PROVE  Explained'
<1>1. /\ pc[c] = "entered" /\ pc' = [pc EXCEPT ![c] = "staged"]
      /\ lock = None /\ Accepted(Asked(c))
      /\ UNCHANGED <<history, call, request>>
      /\ staged'[c].before = records[ZoneAt(c)]
      /\ records' = [records EXCEPT ![ZoneAt(c)] = ApplyChange(@, Asked(c).change)]
  BY DEF Stage, Step, MutexFree, callVars, TypeInv, TypeOK
<1>2. \A d \in Clients : pc[d] \notin Inside
  BY <1>1, UpdateAssumption DEF TypeInv, Control
<1>3. ZoneAt(c) \in Zones
  BY <1>1 DEF Accepted, ZoneAt
<1>4. /\ Asked(c)' = Asked(c) /\ ZoneAt(c)' = ZoneAt(c)
      /\ \A d \in Clients : pc'[d] = IF d = c THEN "staged" ELSE pc[d]
      /\ \A z \in Zones : records'[z] = IF z = ZoneAt(c)
            THEN ApplyChange(records[z], Asked(c).change) ELSE records[z]
  BY <1>1, <1>3 DEF Asked, ZoneAt, TypeInv, TypeOK
<1>5. \A z \in Zones : records[z] = ReplayOf(z, history[z], Undone)
  BY <1>2 DEF Explained
<1>6. pc'[c] \in Inside /\ \A d \in Clients : pc'[d] \in Inside => d = c
  BY <1>2, <1>4 DEF Inside, Places
<1>7. records[ZoneAt(c)] = ReplayOf(ZoneAt(c), history[ZoneAt(c)], Undone \cup {call[c]})
  <2>1. ~ Named(history[ZoneAt(c)], call[c])
    BY <1>1, <1>3 DEF Known, Recorded
  <2>2. \A id : Named(history[ZoneAt(c)], id) => (id \in Undone <=> id \in Undone \cup {call[c]})
    BY <2>1
  <2>3. ReplayOf(ZoneAt(c), history[ZoneAt(c)], Undone) =
            ReplayOf(ZoneAt(c), history[ZoneAt(c)], Undone \cup {call[c]})
    BY <1>3, <2>2, SameHistory
  <2> QED BY <1>3, <1>5, <2>3
<1>8. AtWork("staged", staged'[c].before, Asked(c).change, records'[ZoneAt(c)], ZoneAt(c),
             history[ZoneAt(c)], Undone, call[c])
  BY <1>1, <1>3, <1>4, <1>7 DEF AtWork
<1>9. \A z \in Zones : z # ZoneAt(c) => records'[z] = ReplayOf(z, history[z], Undone)
  BY <1>4, <1>5
<1>10. \A d \in Clients : pc'[d] \in Inside => d = c /\ pc'[d] = "staged"
  BY <1>4, <1>6
<1> QED BY <1>1, <1>4, <1>6, <1>8, <1>9, <1>10 DEF Explained

\* A call moves on inside Apply while the zone and its history stay.
LEMMA ExplainedMoves ==
    ASSUME TypeInv, Explained, Undone' = Undone, NEW c \in Clients, NEW to \in Inside,
           pc[c] \in Inside, pc' = [pc EXCEPT ![c] = to],
           UNCHANGED <<records, history, staged, call, request>>,
           to \in {"staged", "journaled"} => pc[c] \in {"staged", "journaled"},
           to \in {"resigning", "committing", "committed"} =>
               pc[c] \in {"resigning", "committing", "committed"}
    PROVE  Explained'
<1>1. \A d \in Clients : pc'[d] = IF d = c THEN to ELSE pc[d]
  BY DEF TypeInv, TypeOK
<1>2. \A d \in Clients : /\ pc'[d] \in Inside <=> pc[d] \in Inside
                         /\ Asked(d)' = Asked(d) /\ ZoneAt(d)' = ZoneAt(d)
  BY <1>1 DEF Asked, ZoneAt
<1>3. \A d \in Clients : \A before, ch, st, z, log, undone, id :
        AtWork(pc[d], before, ch, st, z, log, undone, id) =>
            AtWork(pc'[d], before, ch, st, z, log, undone, id)
  BY <1>1 DEF AtWork
<1> QED BY <1>2, <1>3 DEF Explained

LEMMA ExplainedCommit ==
    ASSUME TypeInv, CallsOpen, Known, Explained, Undone' = Undone,
           NEW c \in Clients, CommitZone(c)
    PROVE  Explained'
<1> DEFINE e == EntryOf(c)
<1>1. /\ e \in Entry /\ ZoneAt(c) \in Zones /\ e.id = call[c] /\ call[c] \in Ids
      /\ e.zone = ZoneAt(c) /\ e.change = Asked(c).change
      /\ pc[c] = "journaled" /\ pc' = [pc EXCEPT ![c] = "resigning"]
      /\ UNCHANGED <<records, call, staged, request>>
      /\ history' = [history EXCEPT ![ZoneAt(c)] = Append(@, e)]
  BY CommitsEntry
<1> HIDE DEF e
<1>2. PICK z : z = ZoneAt(c)
  OBVIOUS
<1>3. PICK h : h = history[z]
  OBVIOUS
<1>4. PICK id : id = call[c]
  OBVIOUS
<1>5. /\ Asked(c)' = Asked(c) /\ ZoneAt(c)' = z /\ z \in Zones
      /\ \A d \in Clients : pc'[d] = IF d = c THEN "resigning" ELSE pc[d]
      /\ \A y \in Zones : history'[y] = IF y = z THEN Append(h, e) ELSE history[y]
  BY <1>1, <1>2, <1>3 DEF Asked, ZoneAt, TypeInv, TypeOK
<1>6. \A d \in Clients : d # c => pc[d] \notin Inside
  BY <1>1, OneUnwritten DEF Inside, Places
<1>7. h \in Logs
  BY <1>3, <1>5 DEF TypeInv, TypeOK, Logs
<1>8. id \notin Undone
  BY <1>1, <1>4 DEF CallsOpen, Undone, FailedIds
<1>9. ReplayOf(z, h, Undone \cup {id}) = ReplayOf(z, h, Undone)
  <2>1. ~ Named(history[z], id)
    BY <1>1, <1>4, <1>5 DEF Known, Recorded
  <2>2. \A i : Named(history[z], i) => (i \in Undone \cup {id} <=> i \in Undone)
    BY <2>1
  <2> QED BY <1>3, <1>5, <2>2, SameHistory
<1>10. AtWork("journaled", staged[c].before, Asked(c).change, records[z], z, h, Undone, id)
  BY <1>1, <1>2, <1>3, <1>4 DEF Explained, Inside, Places
<1>11. ReplayOf(z, Append(h, e), Undone \cup {id}) = ReplayOf(z, h, Undone \cup {id})
  <2>1. ReplayOf(z, Append(h, e), Undone \cup {id}) =
            Effect(z, Undone \cup {id}, ReplayOf(z, h, Undone \cup {id}), e)
    BY <1>1, <1>5, <1>7, ReplayAppend
  <2> QED BY <1>1, <1>4, <2>1 DEF Effect
<1>12. ReplayOf(z, Append(h, e), Undone) = ApplyChange(ReplayOf(z, h, Undone), Asked(c).change)
  <2>1. ReplayOf(z, Append(h, e), Undone) = Effect(z, Undone, ReplayOf(z, h, Undone), e)
    BY <1>1, <1>5, <1>7, ReplayAppend
  <2>2. e # Torn
    BY <1>1, UpdateAssumption
  <2> QED BY <1>1, <1>2, <1>4, <1>8, <2>1, <2>2 DEF Effect
<1>13. AtWork("resigning", staged[c].before, Asked(c).change, records[z], z, Append(h, e),
              Undone, id)
  BY <1>9, <1>10, <1>11, <1>12 DEF AtWork
<1>14. \A y \in Zones : y # z => records[y] = ReplayOf(y, history[y], Undone)
  BY <1>2, <1>6 DEF Explained
<1>15. pc'[c] \in Inside /\ \A d \in Clients : pc'[d] \in Inside => d = c
  BY <1>5, <1>6 DEF Inside, Places
<1>16. ASSUME NEW y \in Zones, \A d \in Clients : pc'[d] \in Inside => ZoneAt(d)' # y
       PROVE  records'[y] = ReplayOf(y, history'[y], Undone')
  <2>1. y # z
    BY <1>5, <1>15, <1>16
  <2> QED BY <1>1, <1>5, <1>14, <2>1
<1>17. ASSUME NEW d \in Clients, pc'[d] \in Inside
       PROVE  AtWork(pc'[d], staged'[d].before, Asked(d)'.change, records'[ZoneAt(d)'],
                     ZoneAt(d)', history'[ZoneAt(d)'], Undone', call'[d])
  <2>1. d = c
    BY <1>15, <1>17
  <2>2. /\ pc'[c] = "resigning" /\ staged'[c] = staged[c] /\ Asked(c)' = Asked(c)
        /\ ZoneAt(c)' = z /\ records'[z] = records[z] /\ history'[z] = Append(h, e)
        /\ call'[c] = id
    BY <1>1, <1>4, <1>5
  <2> QED BY <1>13, <2>1, <2>2
<1> QED BY <1>16, <1>17 DEF Explained

\* A call that returns leaves its zone as the history has it.
LEMMA ExplainedReturn ==
    ASSUME TypeInv, Explained, Undone' = Undone, NEW c \in Clients,
           pc[c] = "committed" \/ lock = None, pc' = [pc EXCEPT ![c] = "idle"],
           UNCHANGED <<records, history>>
    PROVE  Explained'
<1>1. \A d \in Clients : d # c => pc[d] \notin Inside
  BY OneUnwritten DEF Inside, Places
<1>2. \A d \in Clients : pc'[d] \notin Inside
  BY <1>1 DEF Inside, Places, TypeInv, TypeOK
<1>3. \A z \in Zones : records[z] = ReplayOf(z, history[z], Undone)
  <2>1. CASE pc[c] \notin Inside
    BY <1>1, <2>1 DEF Explained
  <2>2. CASE pc[c] \in Inside
    <3>1. pc[c] = "committed"
      BY <2>2, UpdateAssumption DEF TypeInv, Control
    <3>2. records[ZoneAt(c)] = ReplayOf(ZoneAt(c), history[ZoneAt(c)], Undone)
      BY <2>2, <3>1 DEF Explained, AtWork
    <3>3. \A z \in Zones : z # ZoneAt(c) => records[z] = ReplayOf(z, history[z], Undone)
      BY <1>1 DEF Explained
    <3> QED BY <3>2, <3>3
  <2> QED BY <2>1, <2>2
<1> QED BY <1>2, <1>3 DEF Explained

LEMMA ExplainedRollback ==
    ASSUME TypeInv, CallsOpen, Known, Apart, Explained, ReplayedIds' = ReplayedIds,
           NEW c \in Clients, Rollback(c)
    PROVE  Explained'
<1>1. /\ pc[c] = "undo" /\ pc' = [pc EXCEPT ![c] = "idle"]
      /\ records' = [records EXCEPT ![ZoneAt(c)] = staged[c].before]
      /\ outcome' = [outcome EXCEPT ![call[c]] = "failed"]
      /\ UNCHANGED history
  BY DEF Rollback, Restored, Return, Step
<1>2. ZoneAt(c) \in Zones /\ call[c] \in Ids
  BY <1>1, EntryType DEF Inside, Places, TypeInv, Control
<1>3. \A d \in Clients : d # c => pc[d] \notin Inside
  BY <1>1, OneUnwritten DEF Inside, Places
<1>4. \A d \in Clients : pc'[d] \notin Inside
  BY <1>1, <1>3 DEF Inside, Places, TypeInv, TypeOK
<1>5. Undone' = Undone \cup {call[c]}
  <2>1. FailedIds' = FailedIds \cup {call[c]}
    BY <1>1, <1>2 DEF FailedIds, TypeInv, TypeOK
  <2>2. call[c] \notin ReplayedIds
    BY <1>1 DEF Apart
  <2> QED BY <2>1, <2>2 DEF Undone
<1>6. records'[ZoneAt(c)] = ReplayOf(ZoneAt(c), history[ZoneAt(c)], Undone')
  <2>1. staged[c].before = ReplayOf(ZoneAt(c), history[ZoneAt(c)], Undone \cup {call[c]})
    BY <1>1 DEF Explained, AtWork, Inside, Places
  <2> QED BY <1>1, <1>2, <1>5, <2>1 DEF TypeInv, TypeOK
<1>7. ASSUME NEW z \in Zones, z # ZoneAt(c)
      PROVE  records'[z] = ReplayOf(z, history[z], Undone')
  <2>1. records'[z] = ReplayOf(z, history[z], Undone)
    BY <1>1, <1>3, <1>7 DEF Explained, TypeInv, TypeOK
  <2>2. ~ Named(history[z], call[c])
    BY <1>1, <1>7 DEF Known
  <2>3. ReplayOf(z, history[z], Undone) = ReplayOf(z, history[z], Undone \cup {call[c]})
    <3>1. \A id : Named(history[z], id) => (id \in Undone <=> id \in Undone \cup {call[c]})
      BY <2>2
    <3> QED BY <3>1, SameHistory
  <2> QED BY <1>5, <2>1, <2>3
<1>8. \A z \in Zones : records'[z] = ReplayOf(z, history'[z], Undone')
  BY <1>1, <1>6, <1>7
<1> QED BY <1>4, <1>8 DEF Explained

LEMMA ExplainedReplay ==
    ASSUME TypeInv, Apart, Explained, ReplayEntry, FailedIds' = FailedIds
    PROVE  Explained'
<1>1. PICK e : e = Read(lines[replayed + 1])
  OBVIOUS
<1>2. PICK n : n = Replays(e)
  OBVIOUS
<1>3. /\ e \in Entry /\ n \in Entry /\ n.id = e.id /\ n.zone = e.zone /\ n.change = e.change
      /\ e.zone \in Zones /\ mode = "replaying" /\ \A c \in Clients : pc[c] = "idle"
      /\ lines[replayed + 1].id = e.id
      /\ UNCHANGED <<pc, lines>>
      /\ replayed' = replayed + 1 /\ replayed \in 0..Len(lines) /\ Len(lines) \in Nat
      /\ records' = [records EXCEPT ![e.zone] = ApplyChange(@, e.change)]
      /\ history' = [history EXCEPT ![e.zone] = Append(@, n)]
  BY <1>1, <1>2, ReplaysEntry
<1>4. \A z \in Zones :
        /\ history'[z] = IF z = e.zone THEN Append(history[z], n) ELSE history[z]
        /\ records'[z] = IF z = e.zone THEN ApplyChange(records[z], e.change) ELSE records[z]
  BY <1>3 DEF TypeInv, TypeOK
<1>5. ReplayedIds \subseteq ReplayedIds' /\ e.id \in ReplayedIds'
  <2>1. 1..replayed \subseteq 1..replayed' /\ replayed + 1 \in 1..replayed'
    BY <1>3
  <2> QED BY <1>1, <1>3, <2>1 DEF ReplayedIds
<1>6. /\ e.id \notin Undone' /\ \A id \in ReplayedIds : id \notin Undone /\ id \notin Undone'
  BY <1>5 DEF Undone
<1>7. \A c \in Clients : pc[c] \notin Inside /\ pc'[c] \notin Inside
  BY <1>3 DEF Inside
<1>8. ASSUME NEW z \in Zones PROVE records[z] = ReplayOf(z, history[z], Undone')
  <2>1. records[z] = ReplayOf(z, history[z], Undone)
    BY <1>7 DEF Explained
  <2>2. \A id : Named(history[z], id) => (id \in Undone <=> id \in Undone')
    BY <1>3, <1>6 DEF Named, Apart
  <2>3. PICK U : U = Undone'
    OBVIOUS
  <2>4. ReplayOf(z, history[z], Undone) = ReplayOf(z, history[z], U)
    BY <2>2, <2>3, SameHistory
  <2> QED BY <2>1, <2>3, <2>4
<1>9. ASSUME NEW z \in Zones, z = e.zone
      PROVE  records'[z] = ReplayOf(z, history'[z], Undone')
  <2>1. PICK h : h = history[z]
    OBVIOUS
  <2>2. PICK U : U = Undone'
    OBVIOUS
  <2>3. h \in Logs
    BY <2>1 DEF TypeInv, TypeOK, Logs
  <2>4. ReplayOf(z, Append(h, n), U) = Effect(z, U, ReplayOf(z, h, U), n)
    BY <1>3, <2>3, ReplayAppend
  <2>5. n # Torn
    BY <1>3, UpdateAssumption
  <2>6. Effect(z, U, ReplayOf(z, h, U), n) = ApplyChange(ReplayOf(z, h, U), e.change)
    BY <1>3, <1>6, <1>9, <2>2, <2>5 DEF Effect
  <2> QED BY <1>4, <1>8, <1>9, <2>1, <2>2, <2>4, <2>6
<1>10. \A z \in Zones : records'[z] = ReplayOf(z, history'[z], Undone')
  BY <1>4, <1>8, <1>9
<1> QED BY <1>7, <1>10 DEF Explained

\* An empty log leaves a zone as it was seeded.
LEMMA ReplayNothing ==
    ASSUME NEW z \in Zones, NEW undone
    PROVE  ReplayOf(z, << >>, undone) = Seeds[z]
<1> DEFINE log == << >>
<1>1. log \in Logs /\ Len(log) = 0
  BY DEF Logs
<1> HIDE DEF log
<1>2. ReplayUpTo(z, log, undone)[0] = Seeds[z]
  BY <1>1, ReplaySolves DEF ReplayStep
<1>3. ReplayOf(z, log, undone) = Seeds[z]
  BY <1>1, <1>2 DEF ReplayOf
<1> QED BY <1>3 DEF log

\* Every step keeps the history explaining the zones.
LEMMA ExplainedStep ==
    ASSUME TypeInv, CallsOpen, Known, ReplayedIntact => Apart /\ Explained,
           ReplayedIntact', [Next]_vars
    PROVE  Explained'
<1>1. ASSUME UNCHANGED <<records, history, staged, call, request, pc, replayed>>,
             FailedIds' = FailedIds
      PROVE  Explained'
  <2>1. Explained /\ Undone' = Undone
    BY <1>1, ReplayedStay DEF Undone
  <2>2. \A d \in Clients : Asked(d)' = Asked(d) /\ ZoneAt(d)' = ZoneAt(d)
    BY <1>1 DEF Asked, ZoneAt
  <2> QED BY <1>1, <2>1, <2>2 DEF Explained
<1>2. ASSUME NEW c \in Clients, NEW r \in Requests, Call(c, r) PROVE Explained'
  <2>1. PICK id \in Ids : /\ request[id] = None /\ request' = [request EXCEPT ![id] = r]
                          /\ call' = [call EXCEPT ![c] = id]
    BY <1>2 DEF Call
  <2>2. /\ pc[c] = "idle" /\ pc' = [pc EXCEPT ![c] = "entered"]
        /\ UNCHANGED <<records, history, staged, replayed>>
    BY <1>2 DEF Call, Step, zoneVars, processVars
  <2>3. Explained /\ Undone' = Undone
    <3>1. ~ \E d \in Clients : Rollback(d)
      <4> SUFFICES ASSUME NEW d \in Clients, Rollback(d) PROVE FALSE
        OBVIOUS
      <4>1. pc'[d] = "idle" /\ pc[d] = "undo"
        BY DEF Rollback, Return, Step, TypeInv, TypeOK
      <4> QED BY <2>2, <4>1 DEF TypeInv, TypeOK
    <3> QED BY <2>2, <3>1, ReplayedStay, FailedChange DEF Undone
  <2>4. \A d \in Clients : /\ pc'[d] \in Inside <=> pc[d] \in Inside
                           /\ pc[d] \in Inside => pc'[d] = pc[d] /\ call'[d] = call[d]
    BY <2>1, <2>2 DEF Inside, Places, TypeInv, TypeOK
  <2>5. \A d \in Clients : pc[d] \in Inside => Asked(d)' = Asked(d) /\ ZoneAt(d)' = ZoneAt(d)
    <3>1. \A d \in Clients : pc[d] \in Inside => call[d] \in Ids /\ call[d] # id
      BY <2>1, UpdateAssumption DEF TypeInv, Control, Asked, Inside
    <3> QED BY <2>1, <2>4, <3>1 DEF Asked, ZoneAt, TypeInv, TypeOK
  <2> QED BY <2>2, <2>3, <2>4, <2>5 DEF Explained
<1>3. ASSUME NEW c \in Clients, ApplyStep(c) PROVE Explained'
  <2>1. UNCHANGED replayed
    BY <1>3 DEF processVars, ApplyStep, Reject, Stage, AppendJournal, AppendWritten,
       AppendWithoutFile, AppendRefused, AppendUnsynced, AppendTorn, Rollback, CommitZone,
       Resigned, ResignFailed, NotifyInCommit, NotifyAndReturn
  <2>2. Apart /\ Explained /\ ReplayedIds' = ReplayedIds
    BY <2>1, ReplayedStay
  <2>3. CASE Rollback(c)
    BY <2>2, <2>3, ExplainedRollback
  <2>4. ~ Rollback(c) => Undone' = Undone
    <3>1. ASSUME NEW d \in Clients, Rollback(d) PROVE d = c
      <4>1. pc'[d] = "idle" /\ pc[d] = "undo"
        BY <3>1 DEF Rollback, Return, Step, TypeInv, TypeOK
      <4> QED BY <1>3, <4>1, ApplyStepKinds DEF Moves, Returns, TypeInv, TypeOK
    <3> QED BY <2>2, <3>1, FailedChange DEF Undone
  <2>5. CASE Reject(c) \/ NotifyAndReturn(c)
    <3>1. ~ Rollback(c)
      BY <2>5 DEF Reject, NotifyAndReturn, Rollback, Return, Step
    <3>2. /\ pc[c] = "committed" \/ lock = None
          /\ pc' = [pc EXCEPT ![c] = "idle"] /\ UNCHANGED <<records, history>>
      BY <2>5 DEF Reject, NotifyAndReturn, MutexFree, Return, Step, zoneVars
    <3> QED BY <2>2, <2>4, <3>1, <3>2, ExplainedReturn
  <2>6. CASE Stage(c)
    <3>1. ~ Rollback(c)
      BY <2>6 DEF Stage, Rollback, Return, Step
    <3> QED BY <2>2, <2>4, <2>6, <3>1, ExplainedStage
  <2>7. CASE CommitZone(c)
    <3>1. ~ Rollback(c)
      BY <2>7 DEF CommitZone, Rollback, Return, Step
    <3> QED BY <2>2, <2>4, <2>7, <3>1, ExplainedCommit
  <2>8. CASE AppendJournal(c)
    <3>1. \E to \in {"journaled", "undo"} :
            /\ pc[c] = "staged" /\ pc' = [pc EXCEPT ![c] = to]
            /\ UNCHANGED <<records, history, staged, call, request>>
      BY <2>8 DEF AppendJournal, AppendWritten, AppendWithoutFile, AppendRefused,
         AppendUnsynced, AppendTorn, Step, zoneVars, callVars
    <3>2. ~ Rollback(c)
      BY <3>1 DEF Rollback, Return, Step
    <3> QED BY <2>2, <2>4, <3>1, <3>2, ExplainedMoves DEF Inside, Places
  <2>9. CASE Resigned(c) \/ ResignFailed(c) \/ NotifyInCommit(c)
    <3>1. \E to \in {"committing", "committed", "undo"} :
            /\ pc[c] \in {"resigning", "committing"} /\ pc' = [pc EXCEPT ![c] = to]
            /\ UNCHANGED <<records, history, staged, call, request>>
      BY <2>9 DEF Resigned, ResignFailed, NotifyInCommit, Step, zoneVars, callVars
    <3>2. ~ Rollback(c)
      BY <3>1 DEF Rollback, Return, Step
    <3> QED BY <2>2, <2>4, <3>1, <3>2, ExplainedMoves DEF Inside, Places
  <2> QED BY <1>3, <2>3, <2>5, <2>6, <2>7, <2>8, <2>9 DEF ApplyStep
<1>4. CASE Start \/ ReplayFails \/ Serve \/ Shutdown \/ CloseJournal \/ UNCHANGED vars
  <2>1. UNCHANGED <<records, history, staged, call, request, pc, replayed>>
    BY <1>4 DEF Start, ReplayFails, Serve, Shutdown, CloseJournal, vars, zoneVars, callVars,
       processVars
  <2>2. UNCHANGED outcome
    BY <1>4 DEF Start, ReplayFails, Serve, Shutdown, CloseJournal, vars, callVars
  <2>3. FailedIds' = FailedIds
    BY <2>2 DEF FailedIds
  <2> QED BY <1>1, <2>1, <2>3
<1>5. CASE Crash \/ Exit
  <2>1. /\ records' = Seeds /\ \A z \in Zones : history'[z] = << >>
        /\ \A c \in Clients : pc'[c] \notin Inside
    BY <1>5 DEF Crash, Exit, FreshMemory, Inside
  <2>2. PICK U : U = Undone'
    OBVIOUS
  <2>3. \A z \in Zones : records'[z] = ReplayOf(z, history'[z], U)
    BY <2>1, ReplayNothing
  <2> QED BY <2>1, <2>2, <2>3 DEF Explained
<1>6. CASE ReplayEntry
  <2>1. ReplayedIntact
    <3>1. PICK e : e = Read(lines[replayed + 1])
      OBVIOUS
    <3> QED BY <1>6, <3>1, ReplaysEntry DEF ReplayedIntact
  <2>2. FailedIds' = FailedIds
    BY <1>6 DEF ReplayEntry, callVars, FailedIds
  <2> QED BY <1>6, <2>1, <2>2, ExplainedReplay
<1> QED BY <1>2, <1>3, <1>4, <1>5, <1>6 DEF Next, Boot, Stop

LEMMA ExplainInit == Init => ExplainInv
<1> SUFFICES ASSUME Init PROVE ExplainInv
  OBVIOUS
<1>1. /\ Len(lines) = 0 /\ \A z \in Zones : history[z] = << >> /\ Len(history[z]) = 0
      /\ records = Seeds /\ \A c \in Clients : pc[c] = "idle"
  BY DEF Init
<1>2. \A z \in Zones : \A id : ~ Named(history[z], id)
  BY <1>1 DEF Named
<1>3. Known /\ Apart
  BY <1>1 DEF Known, Apart
<1>4. Explained
  BY <1>1, ReplayNothing DEF Explained, Inside
<1> QED BY <1>3, <1>4 DEF ExplainInv

LEMMA ExplainStep == TypeInv /\ CallsOpen /\ ExplainInv /\ [Next]_vars => ExplainInv'
<1> SUFFICES ASSUME TypeInv, CallsOpen, ExplainInv, [Next]_vars PROVE ExplainInv'
  OBVIOUS
<1>1. Known /\ (ReplayedIntact => Apart /\ Explained)
  BY DEF ExplainInv
<1>2. Known'
  BY <1>1, KnownStep
<1>3. ASSUME ReplayedIntact' PROVE Apart' /\ Explained'
  BY <1>1, <1>3, ApartStep, ExplainedStep
<1> QED BY <1>2, <1>3 DEF ExplainInv

\* What is explained in every state is explained when no update is under way.
LEMMA ExplainedHistory == TypeInv /\ ExplainInv => HistoryExplainsZone
<1> SUFFICES ASSUME TypeInv, ExplainInv, Quiet, ReplayedIntact, NEW z \in Zones
             PROVE  records[z] = ReplayOf(z, history[z], FailedIds \ ReplayedIds)
  BY DEF HistoryExplainsZone
<1>1. \A c \in Clients : pc[c] \notin Inside
  BY UpdateAssumption DEF Quiet, TypeInv, Control
<1> QED BY <1>1 DEF ExplainInv, Explained, Undone

\* Whatever fails, and through every restart, the history that incremental
\* transfers are cut from explains each zone when no update is under way: the
\* changes not reported as failed, in their order, give its content.
THEOREM HistoryExplains == Spec => []HistoryExplainsZone
<1>1. TypeInv /\ ExplainInv => HistoryExplainsZone
  BY ExplainedHistory
<1>2. Init => TypeInv /\ CallsOpen /\ ExplainInv
  BY InitType, OpenInit, ExplainInit
<1>3. TypeInv /\ CallsOpen /\ ExplainInv /\ [Next]_vars => TypeInv' /\ CallsOpen' /\ ExplainInv'
  BY StepType, OpenStep, ExplainStep
<1> QED BY <1>1, <1>2, <1>3, PTL DEF Spec

-----------------------------------------------------------------------------
(***************************************************************************)
(* A start that fails: there are four causes and no other.                 *)
(***************************************************************************)

\* No write stops part way, and every change that can be accepted is of a type
\* that ApplyReplayed knows, makes a line that the scanner takes and is valid
\* still when JSON has changed its texts.
Rereadable ==
    /\ "torn" \notin Faults
    /\ \A r \in Requests : Accepted(r) => /\ r.change.type \in Replayable
                                          /\ r.change \notin Oversized
                                          /\ Validated(Decoded(r.change))

LegibleInv ==
    /\ Restartable
    /\ unended = FALSE
    /\ \A i \in 1..Len(lines) : Legible(lines[i])

\* A line that is written is of a change that was accepted.
LEMMA LegibleLines ==
    ASSUME Rereadable, TypeInv, LegibleInv, [Next]_vars
    PROVE  unended' = FALSE /\ \A i \in 1..Len(lines') : Legible(lines'[i])
<1>1. CASE UNCHANGED journalVars
  BY <1>1 DEF LegibleInv, journalVars
<1>2. ASSUME NEW c \in Clients, pc[c] = "staged", WholeLine(EntryOf(c))
      PROVE  unended' = FALSE /\ \A i \in 1..Len(lines') : Legible(lines'[i])
  <2>0. pc[c] \in Inside
    BY <1>2 DEF Inside, Places
  <2>1. Asked(c) \in Requests /\ Accepted(Asked(c))
    BY <1>2, <2>0 DEF TypeInv, Control
  <2>2. EntryOf(c) \in Entry /\ EntryOf(c).change = Asked(c).change
    <3>1. EntryOf(c) \in Entry
      BY <2>0, EntryType
    <3> QED BY <3>1 DEF EntryOf
  <2>3. Legible(EntryOf(c))
    <3>1. PICK e \in Entry : e = EntryOf(c)
      BY <2>2
    <3>2. /\ e # Torn /\ e.change \in Change /\ e.change = Asked(c).change
          /\ Read(e).change = Decoded(e.change)
      BY <2>2, <3>1, ReadType, UpdateAssumption DEF Entry
    <3>3. Decoded(e.change).type = e.change.type
      BY <3>2 DEF Decoded, Change
    <3> QED BY <2>1, <3>1, <3>2, <3>3 DEF Rereadable, Legible, Applicable
  <2>4. unended' = FALSE /\ lines' = Append(lines, EntryOf(c)) /\ lines \in Seq(Entry \cup {Torn})
    BY <1>2 DEF WholeLine, LegibleInv, TypeInv, TypeOK
  <2>5. \A i \in 1..Len(lines') : Legible(lines'[i])
    <3>1. PICK e \in Entry : e = EntryOf(c)
      BY <2>2
    <3>2. lines' = Append(lines, e)
      BY <2>4, <3>1
    <3>3. \A i \in 1..Len(lines') : (i \in 1..Len(lines) /\ lines'[i] = lines[i]) \/ lines'[i] = e
      BY <2>4, <3>2
    <3> QED BY <2>3, <3>1, <3>3 DEF LegibleInv
  <2> QED BY <2>4, <2>5
<1> QED BY <1>1, <1>2, WholeLinesOnly DEF Rereadable

\* Only a start can end in log.Fatalf, on a line that it cannot read.
LEMMA LegibleStep == Rereadable => (TypeInv /\ LegibleInv /\ [Next]_vars => LegibleInv')
<1> SUFFICES ASSUME Rereadable, TypeInv, LegibleInv, [Next]_vars PROVE LegibleInv'
  OBVIOUS
<1> USE DEF processVars
<1>1. mode # "fatal" /\ mode' # "fatal" => Restartable'
  BY DEF Restartable
<1>2. mode # "fatal"
  BY DEF LegibleInv, Restartable
<1>3. CASE UNCHANGED vars \/ \E c \in Clients, r \in Requests : Call(c, r)
  BY <1>1, <1>2, <1>3, LegibleLines DEF vars, Call, LegibleInv
<1>4. ASSUME NEW c \in Clients, ApplyStep(c) PROVE LegibleInv'
  <2>1. UNCHANGED mode
    BY <1>4 DEF ApplyStep, Reject, Stage, AppendJournal, AppendWritten, AppendWithoutFile,
       AppendRefused, AppendUnsynced, AppendTorn, Rollback, CommitZone, Resigned,
       ResignFailed, NotifyInCommit, NotifyAndReturn
  <2> QED BY <1>1, <1>2, <2>1, LegibleLines DEF LegibleInv
<1>5. CASE Start
  <2>1. Decodes
    BY DEF Decodes, LegibleInv, Legible
  <2> QED BY <1>1, <1>2, <1>5, <2>1, LegibleLines DEF Start, LegibleInv
<1>6. ~ ReplayFails
  <2> SUFFICES ASSUME ReplayFails PROVE FALSE
    OBVIOUS
  <2>1. replayed \in Nat /\ Len(lines) \in Nat /\ replayed < Len(lines)
    BY DEF ReplayFails, TypeInv, TypeOK
  <2>2. replayed + 1 \in 1..Len(lines)
    BY <2>1
  <2>3. Applicable(Read(lines[replayed + 1]))
    BY <2>2 DEF LegibleInv, Legible
  <2> QED BY <2>3 DEF ReplayFails, NextToReplay
<1>7. CASE ReplayEntry \/ Serve \/ Stop
  BY <1>1, <1>2, <1>7, LegibleLines
     DEF ReplayEntry, Serve, Stop, Crash, Shutdown, CloseJournal, Exit, LegibleInv
<1> QED BY <1>3, <1>4, <1>5, <1>6, <1>7 DEF Next, Boot

LEMMA LegibleInit == Init => LegibleInv
BY DEF Init, LegibleInv, Restartable

\* As long as no write stops part way, and no change is accepted that a start
\* does not know, cannot scan or finds invalid once JSON has changed its texts,
\* the service can always start on its own journal: refused appends, failed
\* syncs, hooks and notifications, crashes and a shutdown that runs out of time
\* never leave a file that it refuses.
THEOREM StartsOnItsJournal == Rereadable => (Spec => []Restartable)
<1> SUFFICES ASSUME Rereadable PROVE Spec => []Restartable
  OBVIOUS
<1>1. LegibleInv => Restartable
  BY DEF LegibleInv
<1> QED BY <1>1, LegibleInit, LegibleStep, InitType, StepType, PTL DEF Spec
=============================================================================
