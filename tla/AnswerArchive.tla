--------------------------- MODULE AnswerArchive ---------------------------
(***************************************************************************)
(* What the assistant's conversations promise whoever reads them later,    *)
(* whatever the sessions that write them do: a conversation is filed once  *)
(* with its audit events and is never changed, taken back or audited again *)
(* and prose is an answer only when it cites records that were there when  *)
(* it was filed (ADR 0018).                                                *)
(***************************************************************************)

VARIABLES
    filed,      \* conversations: [id, status, message, text, citations, ...]
    trail,      \* audit events: [id, action, ...]
    records     \* what has been published to cite

file == <<filed, trail>>

Supported(c) ==
    /\ c.citations \subseteq records
    /\ c.status = "ACTIVE" <=> c.message = "NONE"
    /\ c.message = "ASSISTANT" => c.text /\ c.citations # {}

Init == filed = {} /\ trail = {} /\ records = {}

Publish == records \subseteq records' /\ UNCHANGED file

\* New conversations, each with its start in the trail, and no event of a
\* conversation that was filed before.
File ==
    LET new == filed' \ filed
        events == trail' \ trail
    IN /\ filed \subseteq filed' /\ trail \subseteq trail'
       /\ \A c \in new : Supported(c) /\ \A d \in filed' : d.id = c.id => d = c
       /\ \A c \in new : \E e \in events : e.id = c.id /\ e.action = "AI_CONVERSATION_STARTED"
       /\ \A e \in events : \E c \in new : c.id = e.id
       /\ UNCHANGED records

Next == File \/ Publish

Spec == Init /\ [][Next]_<<filed, trail, records>>
=============================================================================
