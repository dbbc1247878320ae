------------------------------ MODULE Syllabus ------------------------------
(***************************************************************************)
(* What the progress tracker promises about the order of study: one topic  *)
(* at a time, the next one only when this one is complete, the next module *)
(* only when the Gate of this one has passed, and a Gate only when the     *)
(* last topic of its module is complete.  Work on a topic may complete it  *)
(* or reopen it, until its module's Gate has passed.                       *)
(***************************************************************************)
EXTENDS Integers

CONSTANTS MaxModules, Expected, Legacy

VARIABLES
    topic,     \* the topic being studied: <<module, number>>
    done,      \* it is complete
    closed     \* the modules whose Gate has passed

vars == <<topic, done, closed>>

Init ==
    /\ topic \in {Legacy + 1} \X (1..Expected[Legacy + 1])
    /\ done \in BOOLEAN
    /\ closed = 1..Legacy

Work ==
    /\ topic[1] \notin closed
    /\ done' \in BOOLEAN
    /\ UNCHANGED <<topic, closed>>

Advance ==
    /\ done
    /\ topic[2] < Expected[topic[1]]
    /\ topic' = <<topic[1], topic[2] + 1>>
    /\ done' = FALSE
    /\ UNCHANGED closed

Close ==
    /\ done
    /\ topic[2] = Expected[topic[1]]
    /\ topic[1] \notin closed
    /\ closed' = closed \cup {topic[1]}
    /\ UNCHANGED <<topic, done>>

NextModule ==
    /\ topic[1] \in closed
    /\ topic[1] < MaxModules
    /\ topic' = <<topic[1] + 1, 1>>
    /\ done' = FALSE
    /\ UNCHANGED closed

Next == Work \/ Advance \/ Close \/ NextModule

Spec == Init /\ [][Next]_vars
=============================================================================
