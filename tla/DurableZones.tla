---------------------------- MODULE DurableZones ----------------------------
(***************************************************************************)
(* What the dynamic-update service promises its callers, with no journal,  *)
(* no memory and no steps inside an update: the content of the zones is    *)
(* durable, an accepted update changes it once and at one instant between  *)
(* its call and its answer, a refused one never does, and a stop of the    *)
(* process loses callers but no content.  What is kept of a change may     *)
(* differ in its texts from what was asked: Written says how.              *)
(***************************************************************************)
EXTENDS RecordStore

CONSTANTS
    Zones, Seeds, Requests, None, MaxCalls,
    Written(_)    \* the change that is kept when another is asked for

VARIABLES
    content,    \* content[z] is the store the zone durably holds
    effective,  \* the updates that have taken effect
    request,    \* what each update asked for
    outcome     \* what its caller was told

vars == <<content, effective, request, outcome>>

Ids == 1..MaxCalls

Init ==
    /\ content = Seeds
    /\ effective = {}
    /\ request = [id \in Ids |-> None]
    /\ outcome = [id \in Ids |-> "none"]

Invoke(id, r) ==
    /\ outcome[id] = "none"
    /\ outcome' = [outcome EXCEPT ![id] = "pending"]
    /\ request' = [request EXCEPT ![id] = r]
    /\ UNCHANGED <<content, effective>>

\* The change is applied to its zone, once, in the form in which it is kept.
Applied(id) ==
    /\ outcome[id] = "pending"
    /\ id \notin effective
    /\ effective' = effective \cup {id}
    /\ content' = [content EXCEPT ![request[id].zone] =
                      ApplyChange(@, Written(request[id].change))]

TakeEffect(id) == Applied(id) /\ UNCHANGED <<request, outcome>>

\* Success is reported only of an update that is durable.
Confirm(id, answer) ==
    /\ outcome[id] = "pending"
    /\ id \in effective
    /\ outcome' = [outcome EXCEPT ![id] = answer]
    /\ UNCHANGED <<content, effective, request>>

\* Failure is reported only of an update that has no effect.
Refuse(id, answer) ==
    /\ outcome[id] = "pending"
    /\ id \notin effective
    /\ outcome' = [outcome EXCEPT ![id] = answer]
    /\ UNCHANGED <<content, effective, request>>

\* The process stops: callers are lost, and one update may just have taken
\* effect.
Stop ==
    /\ \/ UNCHANGED <<content, effective>>
       \/ \E id \in Ids : Applied(id)
    /\ outcome' = [id \in Ids |-> IF outcome[id] = "pending" THEN "lost" ELSE outcome[id]]
    /\ UNCHANGED request

Next ==
    \/ \E id \in Ids, r \in Requests : Invoke(id, r)
    \/ \E id \in Ids : TakeEffect(id)
    \/ \E id \in Ids : Confirm(id, "ok") \/ Confirm(id, "notify-failed")
    \/ \E id \in Ids : Refuse(id, "failed") \/ Refuse(id, "rejected")
    \/ Stop

Spec == Init /\ [][Next]_vars
=============================================================================
