--------------------------- MODULE EmailRecovery ---------------------------
(***************************************************************************)
(* EmailRecoveryRuntime of the provider-contract lesson: `send_email`      *)
(* operations whose state survives the process, a mail service that takes  *)
(* its time to accept or refuse a request, and the reconciliation by       *)
(* lookup before anything is sent again.  The operations run in one        *)
(* process, which may die at any moment and is started again; an operation *)
(* is never in the hands of two processes.                                 *)
(***************************************************************************)
EXTENDS Integers

CONSTANTS
    Operations,  \* operation ids, chosen by the application
    MaxFaults    \* bound: crashes, refused requests and untimely errors

ASSUME EmailAssumption == MaxFaults \in Nat

VARIABLES
    stored,    \* StoredOperation.state in the DurableOperationStore
    pc,        \* what the live process awaits or does next for an operation
    attempts,  \* send_attempts
    flying,    \* requests the service has not decided yet
    accepted,  \* accepted_operation_ids, as the requests that were accepted
    faults     \* ghost

vars == <<stored, pc, attempts, flying, accepted, faults>>

service == <<attempts, flying, accepted>>

Unfinished == {"sending", "effect_unknown"}

Init ==
    /\ stored = [op \in Operations |-> "absent"]
    /\ pc = [op \in Operations |-> "idle"]
    /\ attempts = [op \in Operations |-> 0]
    /\ flying = [op \in Operations |-> {}]
    /\ accepted = [op \in Operations |-> {}]
    /\ faults = 0

Goto(op, point) == pc' = [pc EXCEPT ![op] = point]
Mark(op, state) == stored' = [stored EXCEPT ![op] = state]
Fault == faults < MaxFaults /\ faults' = faults + 1

----------------------------------------------------------------------------
(* start: the operation is stored before anything is sent; an id that is   *)
(* already stored is refused.                                              *)
Start(op) ==
    /\ pc[op] = "idle"
    /\ stored[op] = "absent"
    /\ Mark(op, "sending")
    /\ Goto(op, "attempt")
    /\ UNCHANGED <<service, faults>>

SendMarked(op) ==  \* mutant: marked as succeeded before the request is made
    /\ pc[op] = "attempt"
    /\ attempts' = [attempts EXCEPT ![op] = @ + 1]
    /\ flying' = [flying EXCEPT ![op] = @ \cup {attempts[op] + 1}]
    /\ Mark(op, "succeeded")
    /\ Goto(op, "sending")
    /\ UNCHANGED <<accepted, faults>>

(* _attempt: a request goes out.                                           *)
Send(op) ==
    /\ pc[op] = "attempt"
    /\ attempts' = [attempts EXCEPT ![op] = @ + 1]
    /\ flying' = [flying EXCEPT ![op] = @ \cup {attempts[op] + 1}]
    /\ Goto(op, "sending")
    /\ UNCHANGED <<stored, accepted, faults>>

(* send has returned: the service has accepted this request.               *)
SendReturns(op) ==
    /\ pc[op] = "sending"
    /\ attempts[op] \in accepted[op]
    /\ Mark(op, "succeeded")
    /\ Goto(op, "idle")
    /\ UNCHANGED <<service, faults>>

(* send raises: because the request was refused or, a fault, whatever has  *)
(* become of it.  Nothing is recorded.                                     *)
SendRaises(op) ==
    /\ pc[op] = "sending"
    /\ \/ /\ attempts[op] \notin flying[op] \cup accepted[op]
          /\ UNCHANGED faults
       \/ Fault
    /\ Goto(op, "idle")
    /\ UNCHANGED <<stored, service>>

RecoverFirst(op) ==  \* mutant: an inconclusive lookup is the last one
    /\ pc[op] = "idle"
    /\ stored[op] = "sending"
    /\ Mark(op, "effect_unknown")
    /\ Goto(op, "lookup")
    /\ UNCHANGED <<service, faults>>

Recover(op) ==
    /\ pc[op] = "idle"
    /\ stored[op] \in Unfinished
    /\ Mark(op, "effect_unknown")
    /\ Goto(op, "lookup")
    /\ UNCHANGED <<service, faults>>

LookupFinds(op) ==
    /\ pc[op] = "lookup"
    /\ accepted[op] # {}
    /\ Mark(op, "succeeded")
    /\ Goto(op, "idle")
    /\ UNCHANGED <<service, faults>>

(* TERMINALLY_ABSENT: no request was accepted and none can be any more.    *)
LookupExcludes(op) ==
    /\ pc[op] = "lookup"
    /\ flying[op] = {} /\ accepted[op] = {}
    /\ Mark(op, "sending")
    /\ Goto(op, "attempt")
    /\ UNCHANGED <<service, faults>>

UnknownResends(op) ==  \* mutant: UNKNOWN is handled like TERMINALLY_ABSENT
    /\ pc[op] = "lookup"
    /\ Mark(op, "sending")
    /\ Goto(op, "attempt")
    /\ UNCHANGED <<service, faults>>

(* UNKNOWN, or lookup raises: the operation stays EFFECT_UNKNOWN.          *)
LookupUnknown(op) ==
    /\ pc[op] = "lookup"
    /\ Goto(op, "idle")
    /\ UNCHANGED <<stored, service, faults>>

----------------------------------------------------------------------------
(* The mail service decides a request, perhaps long after the process that *)
(* made it has died.                                                       *)
Accept(op) ==
    \E request \in flying[op] :
        /\ flying' = [flying EXCEPT ![op] = @ \ {request}]
        /\ accepted' = [accepted EXCEPT ![op] = @ \cup {request}]
        /\ UNCHANGED <<stored, pc, attempts, faults>>

RefuseRequest(op) ==
    \E request \in flying[op] :
        /\ Fault
        /\ flying' = [flying EXCEPT ![op] = @ \ {request}]
        /\ UNCHANGED <<stored, pc, attempts, accepted>>

(* The process dies; the store and the requests that are out survive it.   *)
Crash ==
    /\ \E op \in Operations : pc[op] # "idle"
    /\ Fault
    /\ pc' = [op \in Operations |-> "idle"]
    /\ UNCHANGED <<stored, service>>

Step(op) ==
    \/ Send(op) \/ SendReturns(op) \/ SendRaises(op)
    \/ LookupFinds(op) \/ LookupExcludes(op) \/ LookupUnknown(op)

Next ==
    \/ \E op \in Operations :
          \/ Start(op) \/ Recover(op) \/ Step(op)
          \/ Accept(op) \/ RefuseRequest(op)
    \/ Crash

Spec == Init /\ [][Next]_vars

(* The event loop resumes what can go on, an unfinished operation is given *)
(* to recover again, the service decides every request, and a lookup that  *)
(* is repeated for ever is not inconclusive for ever.                      *)
FairSpec ==
    /\ Spec
    /\ \A op \in Operations :
          /\ WF_vars(Step(op))
          /\ WF_vars(Recover(op))
          /\ WF_vars(Accept(op) \/ RefuseRequest(op))
          /\ SF_vars(LookupFinds(op) \/ LookupExcludes(op))

----------------------------------------------------------------------------
(* Every variable has its type (test_ambiguous_email_recovery.py:14-60).   *)
TypeOK ==
    /\ stored \in [Operations -> {"absent", "succeeded"} \cup Unfinished]
    /\ pc \in [Operations -> {"idle", "attempt", "sending", "lookup"}]
    /\ attempts \in [Operations -> Nat]
    /\ flying \in [Operations -> SUBSET Nat]
    /\ accepted \in [Operations -> SUBSET Nat]
    /\ faults \in 0..MaxFaults

(* However often the process dies and sends again, and however late the    *)
(* service decides, the mail is accepted at most once                      *)
(* (test_ambiguous_email_recovery.py:124-149, 249).                        *)
AcceptedOnce ==
    \A op \in Operations : \A a, b \in accepted[op] : a = b

(* An operation is recorded as succeeded only when its mail was accepted   *)
(* (test_ambiguous_email_recovery.py:135-136, 146-149).                    *)
SucceededMeansAccepted ==
    \A op \in Operations : stored[op] = "succeeded" => accepted[op] # {}

(* The recovery implements MailOnce: a mail only for a stored operation,   *)
(* none after the first, success only and for good once it is out          *)
(* (test_ambiguous_email_recovery.py:45-60, 116-149).                      *)
Application == INSTANCE MailOnce WITH
    Requests <- 1..MaxFaults + 1,
    asked <- { op \in Operations : stored[op] # "absent" },
    mails <- accepted,
    done <- { op \in Operations : stored[op] = "succeeded" }

ImplementsMailOnce == Application!Spec

(* An operation that was stored is brought to its end, whatever happened   *)
(* between its request and the record of it                                *)
(* (test_ambiguous_email_recovery.py:116-149).                             *)
EventuallySent ==
    \A op \in Operations : stored[op] # "absent" ~> stored[op] = "succeeded"
=============================================================================
