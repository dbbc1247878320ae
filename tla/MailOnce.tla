------------------------------ MODULE MailOnce ------------------------------
(***************************************************************************)
(* What the application can rely on that hands `send_email` operations to  *)
(* the recovery runtime, however often processes die and however late the  *)
(* service decides: a mail goes out only for an operation that was stored, *)
(* at most one per operation, and an operation is done only, and for good, *)
(* once its mail is out.                                                   *)
(***************************************************************************)
CONSTANTS Operations, Requests

VARIABLES
    asked,  \* operations that have been stored
    mails,  \* the requests of each operation the service has accepted
    done    \* operations recorded as succeeded

vars == <<asked, mails, done>>

Init ==
    /\ asked = {}
    /\ mails = [op \in Operations |-> {}]
    /\ done = {}

Ask(op) ==
    /\ op \notin asked
    /\ asked' = asked \cup {op}
    /\ UNCHANGED <<mails, done>>

(* No mail goes out for an operation that has one, or is done.             *)
Deliver(op) ==
    /\ op \in asked \ done
    /\ mails[op] = {}
    /\ \E request \in Requests : mails' = [mails EXCEPT ![op] = {request}]
    /\ UNCHANGED <<asked, done>>

Confirm(op) ==
    /\ mails[op] # {}
    /\ done' = done \cup {op}
    /\ UNCHANGED <<asked, mails>>

Next == \E op \in Operations : Ask(op) \/ Deliver(op) \/ Confirm(op)

Spec == Init /\ [][Next]_vars
=============================================================================
