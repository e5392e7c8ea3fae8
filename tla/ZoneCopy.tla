------------------------------ MODULE ZoneCopy ------------------------------
(***************************************************************************)
(* What a zone transfer promises a secondary, with no snapshots, serials,  *)
(* locks or states: its copy is replaced in one instant by a whole content *)
(* its primary has had since that transfer began, and by nothing else.     *)
(***************************************************************************)
CONSTANTS
    Zones,
    Contents,   \* the contents a zone may have
    Nothing,    \* the content of a secondary that was never filled
    Workers,
    None

VARIABLES
    content,    \* what each primary holds
    copy,       \* what each secondary holds
    target,     \* the zone each worker is copying
    window      \* the contents it may deliver

vars == <<content, copy, target, window>>

Init ==
    /\ content \in [Zones -> Contents]
    /\ copy = [z \in Zones |-> Nothing]
    /\ target = [w \in Workers |-> None]
    /\ window = [w \in Workers |-> {}]

\* A primary has another content, which every transfer of it under way may
\* still pick up.
Change(z) ==
    /\ \E c \in Contents : content' = [content EXCEPT ![z] = c]
    /\ window' = [w \in Workers |->
          IF target[w] = z THEN window[w] \cup {content'[z]} ELSE window[w]]
    /\ UNCHANGED <<copy, target>>

Begin(w, z) ==
    /\ target[w] = None
    /\ target' = [target EXCEPT ![w] = z]
    /\ window' = [window EXCEPT ![w] = {content[z]}]
    /\ UNCHANGED <<content, copy>>

Over(w) ==
    /\ target[w] # None
    /\ target' = [target EXCEPT ![w] = None]
    /\ window' = [window EXCEPT ![w] = {}]

Deliver(w) ==
    /\ Over(w)
    /\ \E c \in window[w] : copy' = [copy EXCEPT ![target[w]] = c]
    /\ UNCHANGED content

GiveUp(w) == Over(w) /\ UNCHANGED <<content, copy>>

\* Secondaries live in memory.
Restart ==
    /\ content' \in [Zones -> Contents]
    /\ copy' = [z \in Zones |-> Nothing]
    /\ target' = [w \in Workers |-> None]
    /\ window' = [w \in Workers |-> {}]

Next ==
    \/ \E z \in Zones : Change(z)
    \/ \E w \in Workers, z \in Zones : Begin(w, z)
    \/ \E w \in Workers : Deliver(w) \/ GiveUp(w)
    \/ Restart

Spec == Init /\ [][Next]_vars
=============================================================================
